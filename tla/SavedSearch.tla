----------------------------- MODULE SavedSearch -----------------------------
(***************************************************************************)
(* The task that tells users of new lots for their saved searches           *)
(* (apps/marketplace/tasks.py), which a beat starts every half hour.        *)
(*                                                                          *)
(* A run reads the searches when it starts and walks them one by one. A     *)
(* search is reported if lots created in the last Window match it, unless   *)
(* it was reported within the last Pause; the notification commits before   *)
(* the time of it is saved. Runs may be late, overlap, or die anywhere.     *)
(*                                                                          *)
(* Time is counted in beats, from 1: what happened as many beats ago as a   *)
(* limit allows, may have happened shortly before the limit or shortly      *)
(* after it. Every lot on the market matches every search; searches that    *)
(* differ in their filters are independent. Both businesses are active.     *)
(***************************************************************************)
EXTENDS Integers

CONSTANTS Searches, Lots, Runs,
          NoSearch,
          Window,    \* two days
          Pause,     \* six hours
          MaxTime

ASSUME SearchConstants ==
  /\ Window \in Nat
  /\ Pause \in Nat \ {0}
  /\ MaxTime \in Nat
  /\ NoSearch \notin Searches

VARIABLES now,
          created,   \* created[l]: when the lot was created, 0 before that
          since,     \* since[l]: when it was last put on the market, 0 if it is not there
          saved,     \* saved[q]: when its user saved q, 0 before that
          notified,  \* notified[q]: last_notified_at, 0 is NULL
          run,       \* run[r]: a run of the task
          sent,      \* history: sent[q], when q was last reported
          counted,   \* history: counted[r], the lots r found on the market as it counted
          told,      \* history: told[q], the lots on the market of which q has been reported
          excused,   \* history: searches a run may report early
          ran,       \* history: a run has ended in this beat
          late       \* history: some beat had no run that ended in it, or one that did not

vars == <<now, created, since, saved, notified, run, sent, counted, told, excused, ran, late>>
market == <<created, since>>
history == <<sent, counted, told, excused, ran, late>>

Times == 0 .. MaxTime

\* cutoff: the oldest creation that counts; left: the searches still to look at,
\* last: last_notified_at of each, as it was read; at: the search being reported.
Run == [cutoff : Int, left : SUBSET Searches, last : [Searches -> Times],
        stage : {"walk", "notify", "save"}, at : Searches \cup {NoSearch}]
Idle == [stage |-> "idle"]

Running(r) == run[r] # Idle

-----------------------------------------------------------------------------
(* Lots and searches *)

\* create_draft_lot
CreateLot(l) ==
  /\ created[l] = 0
  /\ created' = [created EXCEPT ![l] = now]
  /\ UNCHANGED <<now, since, saved, notified, run, history>>

\* Published, or confirmed again; and hidden, sold or archived.
PutOnMarket(l) ==
  /\ created[l] # 0
  /\ since[l] = 0
  /\ since' = [since EXCEPT ![l] = now]
  /\ UNCHANGED <<now, created, saved, notified, run, history>>

TakeOffMarket(l) ==
  /\ since[l] # 0
  /\ since' = [since EXCEPT ![l] = 0]
  /\ told' = [q \in Searches |-> told[q] \ {l}]
  /\ counted' = [r \in Runs |-> counted[r] \ {l}]
  /\ UNCHANGED <<now, created, saved, notified, run, sent, excused, ran, late>>

SaveSearch(q) ==
  /\ saved[q] = 0
  /\ saved' = [saved EXCEPT ![q] = now]
  /\ UNCHANGED <<now, market, notified, run, history>>

-----------------------------------------------------------------------------
(* The task *)

\* Another run is under way: both may find a search unreported.
Start(r) ==
  /\ ~Running(r)
  /\ run' = [run EXCEPT ![r] = [cutoff |-> now - Window, left |-> {q \in Searches : saved[q] # 0}, last |-> notified,
                                stage |-> "walk", at |-> NoSearch]]
  /\ excused' = IF \E x \in Runs : Running(x) THEN Searches ELSE excused
  /\ UNCHANGED <<now, market, saved, notified, sent, counted, told, ran, late>>

\* FAULTY: the cutoff is a beat too late.
FaultyMatching(r) ==
  {m \in SUBSET {l \in Lots : since[l] # 0} :
     \A l \in Lots : since[l] # 0 /\ created[l] > run[r].cutoff + 1 <=> l \in m}

\* marketplace_lots_for, with the cutoff of the run: the lots the query may find. A
\* lot of the cutoff's own beat was created before it or after it.
Matching(r) ==
  {m \in SUBSET {l \in Lots : since[l] # 0} :
     \A l \in Lots : /\ since[l] # 0 /\ created[l] > run[r].cutoff => l \in m
                     /\ created[l] < run[r].cutoff => l \notin m}

\* FAULTY: the pause is not looked at.
FaultyPaused(r, q) == {FALSE}

\* Was the search reported less than a Pause ago, by what the run has read? After
\* as many beats, it may or may not have been.
Paused(r, q) ==
  LET last == run[r].last[q]
  IN {paused \in BOOLEAN : /\ last = 0 => ~paused
                           /\ last # 0 /\ now - last < Pause => paused
                           /\ last # 0 /\ now - last > Pause => ~paused}

Look(r, q) ==
  /\ Running(r) /\ run[r].stage = "walk"
  /\ q \in run[r].left
  /\ \E paused \in Paused(r, q), found \in Matching(r) :
       IF paused \/ found = {}
       THEN /\ run' = [run EXCEPT ![r].left = @ \ {q}]
            /\ counted' = counted
       ELSE /\ run' = [run EXCEPT ![r].left = @ \ {q}, ![r].at = q, ![r].stage = "notify"]
            /\ counted' = [counted EXCEPT ![r] = found]
  /\ UNCHANGED <<now, market, saved, notified, sent, told, excused, ran, late>>

\* notify_user commits by itself; the count it names is that of the query before.
Notify(r) ==
  LET q == run[r].at
  IN /\ Running(r) /\ run[r].stage = "notify"
     /\ sent' = [sent EXCEPT ![q] = now]
     /\ told' = [told EXCEPT ![q] = @ \cup counted[r]]
     /\ run' = [run EXCEPT ![r].stage = "save"]
     /\ UNCHANGED <<now, market, saved, notified, counted, excused, ran, late>>

SaveTime(r) ==
  /\ Running(r) /\ run[r].stage = "save"
  /\ notified' = [notified EXCEPT ![run[r].at] = now]
  /\ run' = [run EXCEPT ![r].stage = "walk", ![r].at = NoSearch]
  /\ UNCHANGED <<now, market, saved, history>>

Finish(r) ==
  /\ Running(r) /\ run[r].stage = "walk" /\ run[r].left = {}
  /\ run' = [run EXCEPT ![r] = Idle]
  /\ ran' = TRUE
  /\ UNCHANGED <<now, market, saved, notified, sent, counted, told, excused, late>>

\* The worker is killed, or an error ends the run.
Die(r) ==
  /\ Running(r)
  /\ run' = [run EXCEPT ![r] = Idle]
  /\ excused' = IF run[r].stage = "save" THEN excused \cup {run[r].at} ELSE excused
  /\ UNCHANGED <<now, market, saved, notified, sent, counted, told, ran, late>>

Tick ==
  /\ now < MaxTime
  /\ now' = now + 1
  /\ ran' = FALSE
  /\ late' = (late \/ ~ran \/ \E r \in Runs : Running(r))
  /\ UNCHANGED <<market, saved, notified, run, sent, counted, told, excused>>

-----------------------------------------------------------------------------
Init ==
  /\ now = 1
  /\ created = [l \in Lots |-> 0]
  /\ since = [l \in Lots |-> 0]
  /\ saved = [q \in Searches |-> 0]
  /\ notified = [q \in Searches |-> 0]
  /\ run = [r \in Runs |-> Idle]
  /\ sent = [q \in Searches |-> 0]
  /\ counted = [r \in Runs |-> {}]
  /\ told = [q \in Searches |-> {}]
  /\ excused = {}
  /\ ran = FALSE
  /\ late = FALSE

Next ==
  \/ \E l \in Lots : CreateLot(l) \/ PutOnMarket(l) \/ TakeOffMarket(l)
  \/ \E q \in Searches : SaveSearch(q)
  \/ \E r \in Runs : \/ Start(r) \/ Notify(r) \/ SaveTime(r) \/ Finish(r) \/ Die(r)
                     \/ \E q \in Searches : Look(r, q)
  \/ Tick

Spec == Init /\ [][Next]_vars

-----------------------------------------------------------------------------
(* Properties *)

\* A search is reported at most once in a Pause, unless two runs overlapped or one
\* died between the notification and the save of its time.
OncePerPause ==
  [][\A q \in Searches :
       sent[q] # 0 /\ (\E r \in Runs : Notify(r) /\ run[r].at = q)
         => now - sent[q] >= Pause \/ q \in excused]_vars

\* While every beat has its run, a lot that goes on the market a Pause and two beats
\* before its Window ends is reported to every search saved two beats before it, by
\* the last beat whose runs are sure to count it.
ReportedInTime ==
  \A q \in Searches, l \in Lots :
    /\ ~late
    /\ saved[q] # 0 /\ saved[q] + 2 <= created[l] + Window
    /\ since[l] # 0 /\ since[l] + Pause + 2 <= created[l] + Window
    /\ now >= created[l] + Window
    => l \in told[q]
==============================================================================
