----------------------------- MODULE MCCatalog -----------------------------
(***************************************************************************)
(* Who takes part differs from run to run: a visitor and an editor with two *)
(* lots, two editors with two lots, two visitors and an editor of an empty  *)
(* catalog, and an inquiry with a visitor or with two handlers.             *)
(***************************************************************************)
EXTENDS Catalog

CONSTANTS slab, tile, v, w, e, f, h, k, i

MCLots     == {slab, tile}
MCVisitors == {v, w}
MCEditors  == {e, f}
MCStaff    == {h, k}
MCInquiries == {i}

VARIABLE cast

MCInit == Init /\ cast \in {{v, e, slab, tile}, {e, f, slab, tile}, {v, w, e}, {v, e, i}, {h, k, i}}

MCNext ==
  /\ Next
  /\ \A x \in MCVisitors \ cast : visit'[x] = NoVisit
  /\ \A x \in MCEditors \ cast : edit'[x] = NoEdit
  /\ \A x \in MCStaff \ cast : reply'[x] = NoReply
  /\ i \notin cast => inquiry' = inquiry
  /\ \A l \in MCLots \ cast : lot'[l] = lot[l]
  /\ v \notin cast => \A l \in MCLots : lot'[l] # "withdrawn"
  /\ \A x \in MCEditors : edit'[x].stage \in {"creating", "saving"} => edit'[x].want \subseteq cast
  /\ w \notin cast /\ visit'[v] # NoVisit /\ visit[v] = NoVisit => recorded = 0
  /\ cast' = cast

MCSpec == MCInit /\ [][MCNext]_<<vars, cast>>
==============================================================================
