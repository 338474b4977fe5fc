--------------------------- MODULE MCSavedSearch ---------------------------
(***************************************************************************)
(* Two runs of the task, and one lot. *)
(***************************************************************************)
EXTENDS SavedSearch
==============================================================================
