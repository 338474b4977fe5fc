----------------------------- MODULE MCStatement -----------------------------
(***************************************************************************)
(* One contact, whose statement is looked at whole, by type and by date.    *)
(***************************************************************************)
EXTENDS Statement

CONSTANTS b1, c1

MCBusinesses == {b1}
MCContacts   == {c1}
MCOwner      == [c \in MCContacts |-> b1]
MCOffers     == {}
MCParties    == <<>>
MCFilters    == {Everything,
                 [type |-> "sale", from |-> 1, to |-> 2],
                 [type |-> "", from |-> 2, to |-> 2]}
==============================================================================
