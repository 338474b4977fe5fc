------------------------------- MODULE MCDemand -------------------------------
(***************************************************************************)
(* One purchase request, two sellers, two web requests at a time.           *)
(***************************************************************************)
EXTENDS Demand, TLC

CONSTANTS b0, b1, b2, p1, s1, s2

MCBusinesses == {b0, b1, b2}
MCRequests   == {p1}
MCBuyer      == (p1 :> b0)
MCOfferIds   == 1..3
MCSuspects   == {b1}
MCSessions   == {s1, s2}

\* The two handlers are interchangeable.
MCSymmetry   == Permutations(MCSessions)
==============================================================================
