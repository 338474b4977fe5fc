------------------------------ MODULE MCPricing ------------------------------
(***************************************************************************)
(* Two contacts and two partners, one of which opens pages, as the public   *)
(* does.                                                                    *)
(***************************************************************************)
EXTENDS Pricing, TLC

CONSTANTS c1, c2, v, w

MCContacts == {c1, c2}
MCPartners == {v, w}
MCReaders  == {v, Public}
MCQuotes   == ("b2b" :> {1, Inquiry}) @@ ("b2c" :> {2}) @@ (c1 :> {3, Inquiry}) @@ (c2 :> {4})
==============================================================================
