------------------------------- MODULE MCLedger -------------------------------
(***************************************************************************)
(* Two handlers of one business with two contacts, one of them with room    *)
(* for a trade, its reversal and a second trade of the same offer.          *)
(***************************************************************************)
EXTENDS Ledger, TLC

CONSTANTS b1, c1, c2, o1, s1, s2

MCBusinesses == {b1}
MCContacts   == {c1, c2}
MCOwner      == (c1 :> b1) @@ (c2 :> b1)
MCOffers     == {o1}
MCParties    == (o1 :> {b1})
MCSessions   == {s1, s2}
MCWorks      == (s1 :> b1) @@ (s2 :> b1)
MCMaxEntries == (c1 :> 3) @@ (c2 :> 2)
===============================================================================
