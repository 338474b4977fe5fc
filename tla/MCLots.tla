-------------------------------- MODULE MCLots --------------------------------
(***************************************************************************)
(* One lot, one person and one run of the task at a time, or two that       *)
(* overlap. With a lot to be confirmed after the day of its confirmation,   *)
(* stale after one more and hidden after two, four days meet every level of *)
(* freshness. Two runs that overlap have two days, and lots which no wizard *)
(* holds and nobody shows to buyers: neither matters to what a run spares.  *)
(* The second run need not get anywhere: nothing of it is fair.             *)
(***************************************************************************)
EXTENDS Lots

CONSTANTS l1, s1, w1, w2

MCLots     == {l1}
MCSessions == {s1}
MCWorkers  == {w1, w2}

VARIABLE overlap   \* the second run takes part

MCInit == Init /\ overlap \in BOOLEAN

\* Whatever is about to be saved leaves the lot private.
KeptPrivate(j) ==
  j # None => \A i \in DOMAIN j.saves : j.saves[i].visibility = "private"

MCNext ==
  /\ Next
  /\ ~overlap => ~listed'[w2]
  /\ overlap => today' <= 1 /\ wizard' = {} /\ \A s \in Sessions : KeptPrivate(job'[s])
  /\ overlap' = overlap

MCSpec == MCInit /\ [][MCNext]_<<vars, overlap>> /\ FairRun(w1)
===============================================================================
