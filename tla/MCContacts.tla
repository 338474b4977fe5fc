----------------------------- MODULE MCContacts -----------------------------
(***************************************************************************)
(* Two requests at a time. Contacts and the row of their partner, or the    *)
(* row of the business and its two warehouses: the two halves share no      *)
(* variable but the request slots, and a run is of one or the other.        *)
(***************************************************************************)
EXTENDS Contacts

CONSTANTS c1, c2, me, v, s1, s2

MCContacts   == {c1, c2}
MCBusinesses == {me, v}
MCSessions   == {s1, s2}

VARIABLE half

About(r) ==
  IF r.kind = "create" THEN TRUE
  ELSE IF r.kind \in {"profile", "complete"} THEN r.of = IF half = "contacts" THEN v ELSE me
  ELSE IF r.kind = "warehouse" THEN half = "warehouses" /\ r.of = me
  ELSE half = "contacts"

MCInit == Init /\ half \in {"contacts", "warehouses"}

MCNext ==
  /\ Next
  /\ \A s \in Sessions : req'[s] # NoRequest => About(req'[s])
  /\ half = "warehouses" => business'[v] = business[v]
  /\ half = "contacts" => business'[me] \in {business[me], Created}
  /\ UNCHANGED half

MCSpec == MCInit /\ [][MCNext]_<<vars, half>>
==============================================================================
