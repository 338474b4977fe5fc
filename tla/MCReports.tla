------------------------------ MODULE MCReports ------------------------------
(***************************************************************************)
(* Two contacts of one business; the days make debts of -1, 0, 30, 31, 60,  *)
(* 61, 90 and 91 days.                                                      *)
(***************************************************************************)
EXTENDS Reports, TLC

CONSTANTS b1, c1, c2

MCBusinesses == {b1}
MCContacts   == {c1, c2}
MCOwner      == [c \in MCContacts |-> b1]
MCOffers     == {}
MCParties    == <<>>
MCDates      == {0, 31, 61, 91}

MCSymmetry   == Permutations(MCContacts)
==============================================================================
