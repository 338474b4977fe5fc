-------------------------- MODULE SavedSearchProofs --------------------------
(***************************************************************************)
(* Proofs about the task of saved searches, for any lots, searches and      *)
(* overlapping runs, and any window and pause.                              *)
(***************************************************************************)
EXTENDS SavedSearch, TLAPS

(***************************************************************************)
(* The invariant                                                            *)
(***************************************************************************)

Walks ==
  [cutoff : Int, left : SUBSET Searches, last : [Searches -> Nat],
   stage : {"walk"}, at : {NoSearch}]
Reporting ==
  [cutoff : Int, left : SUBSET Searches, last : [Searches -> Nat],
   stage : {"notify", "save"}, at : Searches]

Typed ==
  /\ now \in Nat \ {0}
  /\ since \in [Lots -> Nat] /\ created \in [Lots -> Nat]
  /\ notified \in [Searches -> Nat]
  /\ sent \in [Searches -> Nat] /\ \A q \in Searches : sent[q] <= now
  /\ run \in [Runs -> {Idle} \cup Walks \cup Reporting]
  /\ excused \in SUBSET Searches
  /\ saved \in [Searches -> Nat] /\ told \in [Searches -> SUBSET Lots]
  /\ counted \in [Runs -> SUBSET Lots]
  /\ ran \in BOOLEAN /\ late \in BOOLEAN

At(r, stage, q) == run[r].stage = stage /\ run[r].at = q

\* Without an overlap there is one run.
Alone == \A r, s \in Runs : Running(r) /\ Running(s) => r = s

\* A report is on record, but for the run that is about to put it there.
OnRecord(q) ==
  \/ sent[q] # 0 => notified[q] # 0 /\ sent[q] <= notified[q]
  \/ \E r \in Runs : At(r, "save", q)

\* What a run has read of a search is true until it has reported it, which it does once.
Current(r, q) ==
  Running(r) =>
    /\ q \in run[r].left \/ At(r, "notify", q) => run[r].last[q] = notified[q]
    /\ At(r, "notify", q) => run[r].last[q] = 0 \/ now - run[r].last[q] >= Pause
    /\ run[r].at \notin run[r].left

IInv ==
  /\ Typed
  /\ \A q \in Searches \ excused : Alone /\ OnRecord(q) /\ \A r \in Runs : Current(r, q)

(***************************************************************************)
(* Types                                                                    *)
(***************************************************************************)

\* A run is idle, walks, or reports a search.
LEMMA Stages ==
  ASSUME Typed, NEW r \in Runs
  PROVE  /\ Running(r) <=> run[r].stage # "idle"
         /\ ~Running(r) => run[r] = Idle
         /\ run[r].stage = "walk" => run[r] \in Walks
         /\ run[r].stage \in {"notify", "save"} => run[r] \in Reporting
         /\ run[r].stage \in {"idle", "walk", "notify", "save"}
BY DEF Typed, Running, Idle, Walks, Reporting

\* What a run may find when it looks at a search.
LEMMA Outcomes ==
  ASSUME Typed, NEW r \in Runs, NEW q \in Searches, run[r] \in Walks
  PROVE  /\ TRUE \in Paused(r, q) => run[r].last[q] # 0 /\ now - run[r].last[q] <= Pause
         /\ FALSE \in Paused(r, q) => run[r].last[q] = 0 \/ now - run[r].last[q] >= Pause
         /\ \A found \in Matching(r) :
              /\ found \in SUBSET Lots
              /\ \A l \in Lots : since[l] # 0 /\ created[l] > run[r].cutoff => l \in found
<1>1. run[r].last[q] \in Nat /\ now \in Nat /\ Pause \in Nat
  BY SearchConstants DEF Typed, Walks
<1>2. TRUE \in Paused(r, q) => run[r].last[q] # 0 /\ ~(now - run[r].last[q] > Pause)
  BY Zenon DEF Paused
<1>3. FALSE \in Paused(r, q) => run[r].last[q] = 0 \/ ~(now - run[r].last[q] < Pause)
  BY Zenon DEF Paused
<1>4. \A found \in Matching(r) :
        /\ found \in SUBSET Lots
        /\ \A l \in Lots : since[l] # 0 /\ created[l] > run[r].cutoff => l \in found
  BY DEF Matching
<1>5. /\ ~(now - run[r].last[q] > Pause) => now - run[r].last[q] <= Pause
      /\ ~(now - run[r].last[q] < Pause) => now - run[r].last[q] >= Pause
  BY <1>1
<1> QED BY <1>2, <1>3, <1>4, <1>5, Zenon

\* It passes over the search, or counts what it will report.
LEMMA Looking ==
  ASSUME Typed, NEW r \in Runs, NEW q \in Searches, Look(r, q)
  PROVE  /\ run[r] \in Walks /\ Running(r) /\ q \in run[r].left
         /\ UNCHANGED <<now, created, since, saved, notified, sent, told, excused, ran, late>>
         /\ \/ /\ run' = [run EXCEPT ![r] = [run[r] EXCEPT !.left = @ \ {q}, !.at = NoSearch,
                                                           !.stage = "walk"]]
               /\ counted' = counted
               /\ \/ run[r].last[q] # 0 /\ now - run[r].last[q] <= Pause
                  \/ \A l \in Lots : since[l] # 0 => ~(created[l] > run[r].cutoff)
            \/ /\ run' = [run EXCEPT ![r] = [run[r] EXCEPT !.left = @ \ {q}, !.at = q,
                                                           !.stage = "notify"]]
               /\ run[r].last[q] = 0 \/ now - run[r].last[q] >= Pause
               /\ \E found \in SUBSET Lots :
                    /\ counted' = [counted EXCEPT ![r] = found]
                    /\ \A l \in Lots : since[l] # 0 /\ created[l] > run[r].cutoff => l \in found
<1>1. run[r] \in Walks
  BY Stages DEF Look
<1>2. PICK paused \in Paused(r, q), found \in Matching(r) :
        IF paused \/ found = {}
        THEN /\ run' = [run EXCEPT ![r].left = @ \ {q}]
             /\ counted' = counted
        ELSE /\ run' = [run EXCEPT ![r].left = @ \ {q}, ![r].at = q, ![r].stage = "notify"]
             /\ counted' = [counted EXCEPT ![r] = found]
  BY DEF Look
<1>3. paused \in BOOLEAN
  BY DEF Paused
<1>4. /\ found \in SUBSET Lots
      /\ \A l \in Lots : since[l] # 0 /\ created[l] > run[r].cutoff => l \in found
      /\ paused => run[r].last[q] # 0 /\ now - run[r].last[q] <= Pause
      /\ ~paused => run[r].last[q] = 0 \/ now - run[r].last[q] >= Pause
  BY <1>1, <1>3, Outcomes
<1>5. CASE paused \/ found = {}
  <2>1. run' = [run EXCEPT ![r] = [run[r] EXCEPT !.left = @ \ {q}, !.at = NoSearch, !.stage = "walk"]]
    <3>1. run' = [run EXCEPT ![r] = [run[r] EXCEPT !.left = @ \ {q}]]
      BY <1>2, <1>5
    <3>2. [run[r] EXCEPT !.left = @ \ {q}]
            = [run[r] EXCEPT !.left = @ \ {q}, !.at = NoSearch, !.stage = "walk"]
      BY <1>1 DEF Walks
    <3> QED BY <3>1, <3>2
  <2> QED BY <1>1, <1>2, <1>4, <1>5, <2>1 DEF Look, market
<1>6. CASE ~(paused \/ found = {})
  <2>1. run' = [run EXCEPT ![r] = [run[r] EXCEPT !.left = @ \ {q}, !.at = q, !.stage = "notify"]]
    BY <1>2, <1>6 DEF Typed
  <2> QED BY <1>1, <1>2, <1>4, <1>6, <2>1 DEF Look, market
<1> QED BY <1>5, <1>6

\* The steps that no run of the task takes, time apart: its state stays.
Outside ==
  \/ \E l \in Lots : CreateLot(l) \/ PutOnMarket(l) \/ TakeOffMarket(l)
  \/ \E q \in Searches : SaveSearch(q)
  \/ UNCHANGED vars

\* The types hold at first.
LEMMA TypesStart == Init => Typed
<1> SUFFICES ASSUME Init PROVE Typed
  OBVIOUS
<1>1. now \in Nat \ {0} /\ excused \in SUBSET Searches
  BY DEF Init
<1>2. ran \in BOOLEAN /\ late \in BOOLEAN
  BY DEF Init
<1>3. run \in [Runs -> {Idle} \cup Walks \cup Reporting]
  BY DEF Init
<1> QED BY <1>1, <1>2, <1>3 DEF Init, Typed

\* Every step keeps the types.
LEMMA TypesStep ==
  ASSUME Typed, [Next]_vars
  PROVE  Typed'
<1>1. CASE Outside
  BY <1>1 DEF Outside, CreateLot, PutOnMarket, TakeOffMarket, SaveSearch, vars, market, history, Typed
<1>2. ASSUME NEW r \in Runs, Start(r) PROVE Typed'
  <2>1. now - Window \in Int
    BY SearchConstants DEF Typed
  <2>2. [cutoff |-> now - Window, left |-> {q \in Searches : saved[q] # 0}, last |-> notified,
         stage |-> "walk", at |-> NoSearch] \in Walks
    BY <2>1 DEF Walks, Typed
  <2> QED BY <1>2, <2>2 DEF Start, market, Typed
<1>3. ASSUME NEW r \in Runs, NEW q \in Searches, Look(r, q) PROVE Typed'
  <2>1. run[r] \in Walks
    BY <1>3, Stages DEF Look
  <2>2. \/ run' = [run EXCEPT ![r] = [run[r] EXCEPT !.left = @ \ {q}, !.at = NoSearch, !.stage = "walk"]]
        \/ run' = [run EXCEPT ![r] = [run[r] EXCEPT !.left = @ \ {q}, !.at = q, !.stage = "notify"]]
    BY <1>3, Looking
  <2>3. /\ [run[r] EXCEPT !.left = @ \ {q}, !.at = NoSearch, !.stage = "walk"] \in Walks
        /\ [run[r] EXCEPT !.left = @ \ {q}, !.at = q, !.stage = "notify"] \in Reporting
    BY <2>1 DEF Walks, Reporting
  <2>4. run' \in [Runs -> {Idle} \cup Walks \cup Reporting]
    BY <2>2, <2>3 DEF Typed
  <2>5. counted' \in [Runs -> SUBSET Lots]
    BY <1>3, Looking DEF Typed
  <2>6. UNCHANGED <<now, created, since, saved, notified, sent, told, excused, ran, late>>
    BY <1>3, Looking
  <2> QED BY <2>4, <2>5, <2>6 DEF Typed
<1>4. ASSUME NEW r \in Runs, Notify(r) PROVE Typed'
  <2>1. run[r] \in Reporting
    BY <1>4, Stages DEF Notify
  <2>2. /\ [run[r] EXCEPT !.stage = "save"] \in Reporting
        /\ run' = [run EXCEPT ![r] = [run[r] EXCEPT !.stage = "save"]]
    BY <1>4, <2>1 DEF Notify, Reporting, Typed
  <2>3. sent' \in [Searches -> Nat] /\ \A q \in Searches : sent'[q] <= now'
    <3>1. sent' = [sent EXCEPT ![run[r].at] = now] /\ now' = now
      BY <1>4 DEF Notify
    <3>2. now \in Nat /\ sent \in [Searches -> Nat] /\ \A q \in Searches : sent[q] <= now
      BY DEF Typed
    <3>3. sent' \in [Searches -> Nat]
      BY <3>1, <3>2
    <3>4. ASSUME NEW q \in Searches PROVE sent'[q] <= now'
      <4>1. sent'[q] = now \/ sent'[q] = sent[q]
        BY <3>1, <3>2
      <4> QED BY <3>1, <3>2, <4>1
    <3> QED BY <3>3, <3>4
  <2>4. run' \in [Runs -> {Idle} \cup Walks \cup Reporting]
    BY <2>2 DEF Typed
  <2>5. told' \in [Searches -> SUBSET Lots]
    BY <1>4 DEF Notify, Typed
  <2> QED BY <1>4, <2>3, <2>4, <2>5 DEF Notify, market, Typed
<1>5. ASSUME NEW r \in Runs, SaveTime(r) PROVE Typed'
  <2>1. run[r] \in Reporting
    BY <1>5, Stages DEF SaveTime
  <2>2. /\ [run[r] EXCEPT !.stage = "walk", !.at = NoSearch] \in Walks
        /\ run' = [run EXCEPT ![r] = [run[r] EXCEPT !.stage = "walk", !.at = NoSearch]]
    BY <1>5, <2>1 DEF SaveTime, Reporting, Walks, Typed
  <2>3. run' \in [Runs -> {Idle} \cup Walks \cup Reporting]
    BY <2>2 DEF Typed
  <2>4. notified' \in [Searches -> Nat]
    BY <1>5 DEF SaveTime, Typed
  <2>5. UNCHANGED <<now, created, since, saved, sent, counted, told, excused, ran, late>>
    BY <1>5 DEF SaveTime, market, history
  <2> QED BY <2>3, <2>4, <2>5 DEF Typed
<1>6. ASSUME NEW r \in Runs, Finish(r) PROVE Typed'
  BY <1>6 DEF Finish, market, Typed
<1>7. ASSUME NEW r \in Runs, Die(r) PROVE Typed'
  <2>1. run[r].stage = "save" => run[r].at \in Searches
    BY <1>7, Stages DEF Reporting
  <2> QED BY <1>7, <2>1 DEF Die, market, Typed
<1>8. CASE Tick
  <2>1. now' \in Nat \ {0} /\ \A q \in Searches : sent[q] <= now'
    BY <1>8 DEF Tick, Typed
  <2>2. ran' \in BOOLEAN /\ late' \in BOOLEAN
    BY <1>8 DEF Tick, Typed
  <2> QED BY <1>8, <2>1, <2>2 DEF Tick, market, Typed
<1> QED BY <1>1, <1>2, <1>3, <1>4, <1>5, <1>6, <1>7, <1>8 DEF Next, Outside

(***************************************************************************)
(* The reports of one search                                                *)
(***************************************************************************)

Told(q) == Alone /\ OnRecord(q) /\ \A r \in Runs : Current(r, q)

\* A search that no run may report early was not one of those before, and its record
\* holds.
LEMMA ToldStep ==
  ASSUME IInv, Typed', [Next]_vars, NEW q \in Searches, q \notin excused'
  PROVE  Told(q)'
<1>0. Typed /\ (q \notin excused => Told(q))
  BY DEF IInv, Told
<1>1. CASE Outside
  <2>1. UNCHANGED <<now, notified, run, sent, excused>>
    BY <1>1 DEF Outside, CreateLot, PutOnMarket, TakeOffMarket, SaveSearch, vars, market, history
  <2> QED BY <1>0, <2>1 DEF Told, Alone, OnRecord, Current, At, Running
<1>2. ASSUME NEW r \in Runs, Start(r) PROVE Told(q)'
  <2>1. \A s \in Runs : ~Running(s)
    BY <1>2 DEF Start
  <2>2. q \notin excused /\ UNCHANGED <<now, notified, sent>>
    BY <1>2, <2>1 DEF Start
  <2>3. /\ run'[r] = [cutoff |-> now - Window, left |-> {x \in Searches : saved[x] # 0}, last |-> notified,
                      stage |-> "walk", at |-> NoSearch]
        /\ \A s \in Runs : s # r => run'[s] = Idle
    BY <1>0, <1>2, <2>1, Stages DEF Start, Typed
  <2>4. Alone' /\ \A s \in Runs : Current(s, q)'
    BY <2>2, <2>3, SearchConstants DEF Alone, Current, Running, At
  <2>5. \A s \in Runs : ~At(s, "save", q)
    BY <1>0, <2>1, Stages DEF At, Idle
  <2>6. OnRecord(q)'
    BY <1>0, <2>2, <2>5 DEF Told, OnRecord
  <2> QED BY <2>4, <2>6 DEF Told
<1>3. ASSUME NEW r \in Runs, NEW p \in Searches, Look(r, p) PROVE Told(q)'
  <2>1. run[r] \in Walks /\ UNCHANGED <<now, notified, sent, excused>> /\ p \in run[r].left
    BY <1>0, <1>3, Looking
  <2>2. \/ run' = [run EXCEPT ![r] = [run[r] EXCEPT !.left = @ \ {p}, !.at = NoSearch, !.stage = "walk"]]
        \/ /\ run' = [run EXCEPT ![r] = [run[r] EXCEPT !.left = @ \ {p}, !.at = p, !.stage = "notify"]]
           /\ run[r].last[p] = 0 \/ now - run[r].last[p] >= Pause
    BY <1>0, <1>3, Looking
  <2>3. \A s \in Runs : Running(s)' => Running(s)
    BY <1>0, <1>3, <2>2 DEF Look, Typed, Running
  <2>4. ASSUME NEW s \in Runs PROVE At(s, "save", q)' <=> At(s, "save", q)
    <3>1. CASE s # r
      BY <1>0, <2>2, <3>1 DEF Typed, At
    <3>2. CASE s = r
      <4>1. run[r].stage = "walk"
        BY <2>1 DEF Walks
      <4>2. \/ run'[r] = [run[r] EXCEPT !.left = @ \ {p}, !.at = NoSearch, !.stage = "walk"]
            \/ run'[r] = [run[r] EXCEPT !.left = @ \ {p}, !.at = p, !.stage = "notify"]
        BY <1>0, <2>2 DEF Typed
      <4>3. run'[r].stage \in {"walk", "notify"}
        BY <2>1, <4>2 DEF Walks
      <4> QED BY <3>2, <4>1, <4>3 DEF At
    <3> QED BY <3>1, <3>2
  <2>5. ASSUME NEW s \in Runs PROVE Current(s, q)'
    <3>1. CASE s # r
      BY <1>0, <2>1, <2>2, <2>3, <3>1 DEF Told, Current, At, Typed, Running
    <3>2. CASE s = r
      <4>1. run[r].last[q] \in Nat /\ now \in Nat /\ Pause \in Nat /\ NoSearch \notin Searches
        BY <1>0, <2>1, SearchConstants DEF Walks, Typed
      <4>2. Running(r) /\ Current(r, q)
        BY <1>0, <1>3, <2>1 DEF Told, Look
      <4>3. CASE run' = [run EXCEPT ![r] = [run[r] EXCEPT !.left = @ \ {p}, !.at = NoSearch, !.stage = "walk"]]
        <5>1. run'[r].left = run[r].left \ {p} /\ run'[r].at = NoSearch /\ run'[r].stage = "walk"
              /\ run'[r].last = run[r].last
          BY <1>0, <2>1, <4>3 DEF Typed, Walks
        <5> QED BY <2>1, <3>2, <4>1, <4>2, <5>1 DEF Current, At, Walks
      <4>4. CASE /\ run' = [run EXCEPT ![r] = [run[r] EXCEPT !.left = @ \ {p}, !.at = p, !.stage = "notify"]]
                 /\ run[r].last[p] = 0 \/ now - run[r].last[p] >= Pause
        <5>1. run'[r].left = run[r].left \ {p} /\ run'[r].at = p /\ run'[r].stage = "notify"
              /\ run'[r].last = run[r].last
          BY <1>0, <2>1, <4>4 DEF Typed, Walks
        <5>2. p = q => run[r].last[q] = 0 \/ now - run[r].last[q] >= Pause
          BY <4>4
        <5> QED BY <2>1, <3>2, <4>1, <4>2, <5>1, <5>2 DEF Current, At
      <4> QED BY <2>2, <4>3, <4>4
    <3> QED BY <3>1, <3>2
  <2> QED BY <1>0, <2>1, <2>3, <2>4, <2>5 DEF Told, Alone, OnRecord
<1>4. ASSUME NEW r \in Runs, Notify(r) PROVE Told(q)'
  <2>1. /\ run[r] \in Reporting /\ Running(r) /\ At(r, "notify", run[r].at)
        /\ UNCHANGED <<now, notified, excused>>
    BY <1>0, <1>4, Stages DEF Notify, At
  <2>2. /\ run'[r].left = run[r].left /\ run'[r].at = run[r].at /\ run'[r].stage = "save"
        /\ run'[r].last = run[r].last /\ \A s \in Runs : s # r => run'[s] = run[s]
    BY <1>0, <1>4, <2>1 DEF Notify, Typed, Reporting
  <2>3. \A s \in Runs : Running(s)' => Running(s)
    BY <2>1, <2>2 DEF Running
  <2>4. \A s \in Runs : Current(s, q)'
    BY <1>0, <2>1, <2>2, <2>3 DEF Told, Current, At
  <2>5. OnRecord(q)'
    <3>1. CASE run[r].at = q
      BY <2>2, <3>1 DEF OnRecord, At
    <3>2. CASE run[r].at # q
      <4>1. sent'[q] = sent[q]
        BY <1>0, <1>4, <3>2 DEF Notify, Typed
      <4>2. \A s \in Runs : At(s, "save", q) => At(s, "save", q)'
        BY <2>2, <3>2 DEF At
      <4> QED BY <1>0, <2>1, <4>1, <4>2 DEF Told, OnRecord
    <3> QED BY <3>1, <3>2
  <2> QED BY <1>0, <2>1, <2>3, <2>4, <2>5 DEF Told, Alone
<1>5. ASSUME NEW r \in Runs, SaveTime(r) PROVE Told(q)'
  <2>1. run[r] \in Reporting /\ UNCHANGED <<now, sent, excused>> /\ Running(r) /\ q \notin excused
    BY <1>0, <1>5, Stages DEF SaveTime, history
  <2>2. /\ run'[r].left = run[r].left /\ run'[r].at = NoSearch /\ run'[r].stage = "walk"
        /\ run'[r].last = run[r].last /\ \A s \in Runs : s # r => run'[s] = run[s]
    BY <1>0, <1>5, <2>1 DEF SaveTime, Typed, Reporting
  <2>3. \A s \in Runs : Running(s)' => Running(s)
    BY <2>1, <2>2 DEF Running
  <2>4. \A s \in Runs : s # r => ~Running(s) /\ ~Running(s)'
    BY <1>0, <2>1, <2>3 DEF Told, Alone
  <2>5. CASE run[r].at = q
    <3>1. notified'[q] = now /\ now \in Nat \ {0} /\ sent[q] <= now
      BY <1>0, <1>5, <2>5 DEF SaveTime, Typed
    <3>2. OnRecord(q)'
      BY <2>1, <3>1 DEF OnRecord
    <3>3. q \notin run[r].left
      BY <1>0, <2>1, <2>5 DEF Told, Current
    <3>4. \A s \in Runs : Current(s, q)'
      BY <2>1, <2>2, <2>4, <3>3, SearchConstants DEF Current, At, Reporting
    <3> QED BY <1>0, <2>1, <2>3, <3>2, <3>4 DEF Told, Alone
  <2>6. CASE run[r].at # q
    <3>1. notified'[q] = notified[q]
      BY <1>0, <1>5, <2>6 DEF SaveTime, Typed
    <3>2. \A s \in Runs : At(s, "save", q) => At(s, "save", q)'
      BY <2>2, <2>6 DEF At
    <3>3. \A s \in Runs : Current(s, q)'
      BY <1>0, <2>1, <2>2, <2>4, <3>1, SearchConstants DEF Told, Current, At, Reporting
    <3> QED BY <1>0, <2>1, <2>3, <3>1, <3>2, <3>3 DEF Told, Alone, OnRecord
  <2> QED BY <2>5, <2>6
<1>6. ASSUME NEW r \in Runs, Finish(r) \/ Die(r) PROVE Told(q)'
  <2>1. UNCHANGED <<now, sent, notified>> /\ run' = [run EXCEPT ![r] = Idle]
        /\ q \notin excused /\ ~At(r, "save", q)
    BY <1>6 DEF Finish, Die, At
  <2>2. run'[r] = Idle /\ \A s \in Runs : s # r => run'[s] = run[s]
    BY <1>0, <2>1 DEF Typed
  <2>3. \A s \in Runs : At(s, "save", q) => At(s, "save", q)'
    BY <2>1, <2>2 DEF At
  <2>4. \A s \in Runs : (Running(s)' => Running(s)) /\ Current(s, q)'
    BY <1>0, <2>1, <2>2 DEF Told, Current, At, Running
  <2> QED BY <1>0, <2>1, <2>3, <2>4 DEF Told, Alone, OnRecord
<1>7. CASE Tick
  <2>1. UNCHANGED <<run, sent, notified, excused>> /\ now' = now + 1
    BY <1>7 DEF Tick
  <2>2. ASSUME NEW r \in Runs PROVE Current(r, q)'
    <3>1. Running(r) => run[r].last[q] \in Nat
      BY <1>0, Stages DEF Walks, Reporting
    <3>2. now \in Nat /\ Pause \in Nat
      BY <1>0, SearchConstants DEF Typed
    <3> QED BY <1>0, <2>1, <3>1, <3>2 DEF Told, Current, At, Running
  <2> QED BY <1>0, <2>1, <2>2 DEF Told, Alone, OnRecord, At, Running
<1> QED BY <1>1, <1>2, <1>3, <1>4, <1>5, <1>6, <1>7 DEF Next, Outside

(***************************************************************************)
(* The theorems                                                             *)
(***************************************************************************)

\* The invariant that the property below follows from.
THEOREM SavedSearchInvariant == Spec => []IInv
<1>1. Init => IInv
  BY TypesStart DEF Init, IInv, Alone, OnRecord, Current, Running
<1>2. IInv /\ [Next]_vars => IInv'
  <2> SUFFICES ASSUME IInv, [Next]_vars PROVE IInv'
    OBVIOUS
  <2>1. Typed'
    BY TypesStep DEF IInv
  <2>2. \A q \in Searches : q \notin excused' => Told(q)'
    BY <2>1, ToldStep
  <2> QED BY <2>1, <2>2 DEF IInv, Told
<1> QED BY <1>1, <1>2, PTL DEF Spec

\* A search is reported at most once in a pause, unless two runs overlapped or one died
\* between the notification and the save of its time.
THEOREM ReportsKeepPause == Spec => OncePerPause
<1>1. IInv /\ [Next]_vars =>
        [\A q \in Searches :
           sent[q] # 0 /\ (\E r \in Runs : Notify(r) /\ run[r].at = q)
             => now - sent[q] >= Pause \/ q \in excused]_vars
  <2> SUFFICES ASSUME IInv, NEW q \in Searches, sent[q] # 0, q \notin excused,
                      NEW r \in Runs, Notify(r), run[r].at = q
               PROVE  now - sent[q] >= Pause
    BY DEF IInv
  <2>1. Typed /\ Alone /\ OnRecord(q) /\ Current(r, q) /\ Running(r) /\ At(r, "notify", q)
    BY DEF IInv, Notify, At
  <2>2. \A s \in Runs : ~At(s, "save", q)
    BY <2>1, Stages DEF Alone, At
  <2>3. notified[q] # 0 /\ sent[q] <= notified[q] /\ run[r].last[q] = notified[q]
    BY <2>1, <2>2 DEF OnRecord, Current
  <2>4. now - notified[q] >= Pause
    BY <2>1, <2>3 DEF Current
  <2> QED BY <2>1, <2>3, <2>4, SearchConstants DEF Typed
<1> QED BY <1>1, SavedSearchInvariant, PTL DEF Spec, OncePerPause

(***************************************************************************)
(* In time                                                                  *)
(***************************************************************************)

\* Lot l has been on the market since before this beat, and is sure to count still.
Offered(l) == since[l] # 0 /\ since[l] < now /\ now < created[l] + Window

\* Whoever saved q expects to hear of lot l in this beat.
Expecting(q, l) == saved[q] # 0 /\ saved[q] < now /\ Offered(l)

\* q has been reported of l, or may have been reported less than a Pause ago.
Served(q, l) ==
  \/ l \in told[q]
  \/ notified[q] # 0 /\ now - notified[q] <= Pause

\* No time on record lies ahead of what is there now.
Dated(q) ==
  /\ notified[q] <= now
  /\ \A r \in Runs : Running(r) => run[r].last[q] <= notified[q]

\* What a run that started in this beat has done for q and l.
OnItsWay(r, q, l) ==
  Running(r) =>
    /\ run[r].cutoff = now - Window
    /\ At(r, "notify", q) /\ Offered(l) => l \in counted[r]
    /\ At(r, "save", q) /\ Offered(l) => l \in told[q]
    /\ Expecting(q, l) => q \in run[r].left \/ At(r, "notify", q) \/ Served(q, l)

\* A report after l came on the market, and before its Window ended, was of l.
Reported(q, l) ==
  since[l] # 0 /\ since[l] < notified[q] /\ notified[q] < created[l] + Window
    => l \in told[q]

InTime(q, l) ==
  /\ saved[q] # 0 /\ saved[q] + 2 <= created[l] + Window
  /\ since[l] # 0 /\ since[l] + Pause + 2 <= created[l] + Window
  /\ now >= created[l] + Window
  => l \in told[q]

\* While every beat has its run: a run that has ended in this beat has served q.
Timely(q, l) ==
  /\ since[l] # 0 => created[l] # 0
  /\ Dated(q)
  /\ ~late =>
       /\ Reported(q, l)
       /\ \A r \in Runs : OnItsWay(r, q, l)
       /\ ran /\ Expecting(q, l) => Served(q, l)
       /\ InTime(q, l)

\* Outside the task, the lots change and a search is saved.
LEMMA OutsideTimely ==
  ASSUME Typed, Typed', Outside, NEW q \in Searches, NEW l \in Lots, Timely(q, l)
  PROVE  Timely(q, l)'
<1>1. UNCHANGED <<now, notified, run, late, ran>>
  BY DEF Outside, CreateLot, PutOnMarket, TakeOffMarket, SaveSearch, vars, market, history
<1>2. /\ saved'[q] = saved[q] \/ saved'[q] = now
      /\ \/ /\ since'[l] = since[l] /\ (l \in told[q] => l \in told'[q])
            /\ created'[l] = created[l] \/ since[l] = 0
            /\ \A r \in Runs : l \in counted[r] => l \in counted'[r]
         \/ since'[l] = now /\ created[l] # 0 /\ created'[l] = created[l]
         \/ since'[l] = 0
  <2>1. ASSUME NEW k \in Lots, CreateLot(k)
        PROVE  UNCHANGED <<saved, since, told, counted>> /\ (created'[l] = created[l] \/ since[l] = 0)
    BY <2>1 DEF CreateLot, history, Typed, Timely
  <2>2. ASSUME NEW k \in Lots, PutOnMarket(k)
        PROVE  /\ UNCHANGED <<saved, created, told, counted>>
               /\ since'[l] = since[l] \/ (since'[l] = now /\ created[l] # 0)
    <3>1. k = l => created[l] # 0
      BY <2>2 DEF PutOnMarket
    <3>2. since' = [since EXCEPT ![k] = now] /\ since \in [Lots -> Nat]
      BY <2>2 DEF PutOnMarket, Typed
    <3>3. since'[l] = since[l] \/ (since'[l] = now /\ k = l)
      BY <2>2, <3>2
    <3> QED BY <2>2, <3>1, <3>3 DEF PutOnMarket, history
  <2>3. ASSUME NEW k \in Lots, TakeOffMarket(k)
        PROVE  /\ UNCHANGED <<saved, created>>
               /\ \/ since'[l] = 0
                  \/ /\ since'[l] = since[l]
                     /\ l \in told[q] => l \in told'[q]
                     /\ \A r \in Runs : l \in counted[r] => l \in counted'[r]
    <3>1. since' = [since EXCEPT ![k] = 0] /\ since \in [Lots -> Nat]
      BY <2>3 DEF TakeOffMarket, Typed
    <3>2. since'[l] = 0 \/ (since'[l] = since[l] /\ k # l)
      BY <2>3, <3>1
    <3>3. told'[q] = told[q] \ {k} /\ \A r \in Runs : counted'[r] = counted[r] \ {k}
      BY <2>3 DEF TakeOffMarket
    <3> QED BY <2>3, <3>2, <3>3 DEF TakeOffMarket
  <2>4. ASSUME NEW p \in Searches, SaveSearch(p)
        PROVE  /\ UNCHANGED <<since, created, told, counted>>
               /\ saved'[q] = saved[q] \/ saved'[q] = now
    BY <2>4 DEF SaveSearch, market, history, Typed
  <2>5. CASE UNCHANGED vars
    BY <2>5 DEF vars, market, history
  <2> QED BY <2>1, <2>2, <2>3, <2>4, <2>5 DEF Outside
<1>3. /\ now \in Nat \ {0} /\ Pause \in Nat \ {0} /\ Window \in Nat
      /\ created[l] \in Nat /\ since[l] \in Nat /\ saved[q] \in Nat /\ notified[q] \in Nat
  BY SearchConstants DEF Typed
<1>4. (since'[l] # 0 => created'[l] # 0) /\ Dated(q)'
  BY <1>1, <1>2, <1>3 DEF Timely, Dated, Running
<1>5. since'[l] = 0 \/ since'[l] = now =>
        ~Offered(l)' /\ ~Expecting(q, l)' /\ Reported(q, l)' /\ InTime(q, l)'
  BY <1>1, <1>2, <1>3, <1>4 DEF Offered, Expecting, Reported, InTime, Dated
<1>6. CASE since'[l] # 0 /\ since'[l] # now
  <2>1. /\ since'[l] = since[l] /\ created'[l] = created[l] /\ (l \in told[q] => l \in told'[q])
        /\ \A r \in Runs : l \in counted[r] => l \in counted'[r]
        /\ saved'[q] # 0 /\ saved'[q] < now => saved'[q] = saved[q]
    BY <1>2, <1>3, <1>6
  <2>2. /\ Offered(l)' => Offered(l)
        /\ Expecting(q, l)' => Expecting(q, l)
        /\ Served(q, l) => Served(q, l)'
        /\ Reported(q, l) => Reported(q, l)'
    BY <1>1, <2>1 DEF Offered, Expecting, Served, Reported
  <2>3. InTime(q, l) => InTime(q, l)'
    BY <1>1, <1>2, <1>3, <2>1 DEF InTime
  <2> QED BY <1>1, <1>4, <2>1, <2>2, <2>3 DEF Timely, OnItsWay, At, Running
<1> QED
  BY <1>1, <1>4, <1>5, <1>6 DEF Timely, OnItsWay, At, Running

\* A run starts: it has every search saved before it.
LEMMA StartTimely ==
  ASSUME Typed, NEW r \in Runs, Start(r), NEW q \in Searches, NEW l \in Lots, Timely(q, l)
  PROVE  Timely(q, l)'
<1>1. UNCHANGED <<now, created, since, saved, notified, counted, told, ran, late>>
  BY DEF Start, market
<1>2. /\ run'[r] = [cutoff |-> now - Window, left |-> {x \in Searches : saved[x] # 0},
                    last |-> notified, stage |-> "walk", at |-> NoSearch]
      /\ \A s \in Runs : s # r => run'[s] = run[s]
  BY DEF Start, Typed
<1>3. run'[r].last[q] <= notified[q] /\ now \in Nat
  BY <1>2 DEF Typed
<1>4. Dated(q)'
  BY <1>1, <1>2, <1>3 DEF Timely, Dated, Running
<1>5. UNCHANGED <<Offered(l), Expecting(q, l), Served(q, l), Reported(q, l), InTime(q, l)>>
  BY <1>1 DEF Offered, Expecting, Served, Reported, InTime
<1>6. ASSUME ~late, NEW s \in Runs PROVE OnItsWay(s, q, l)'
  <2>1. CASE s # r
    BY <1>1, <1>2, <1>5, <1>6, <2>1 DEF Timely, OnItsWay, Running, At
  <2>2. CASE s = r
    BY <1>1, <1>2, <1>5, <2>2 DEF OnItsWay, At, Expecting
  <2> QED BY <2>1, <2>2
<1> QED BY <1>1, <1>4, <1>5, <1>6 DEF Timely

\* A run looks at a search: it passes over q when no lot that is sure to count matches,
\* and then l does not, or when q may have been reported less than a Pause ago. What it
\* counts has l in it, if it is on offer.
LEMMA LookTimely ==
  ASSUME Typed, NEW r \in Runs, NEW p \in Searches, Look(r, p),
         NEW q \in Searches, NEW l \in Lots, Timely(q, l)
  PROVE  Timely(q, l)'
<1>1. UNCHANGED <<now, created, since, saved, notified, told, ran, late>>
  BY Looking
<1>2. run[r] \in Walks /\ Running(r) /\ p \in run[r].left
  BY Looking
<1>3. /\ run'[r].cutoff = run[r].cutoff /\ run'[r].last = run[r].last
      /\ run'[r].left = run[r].left \ {p}
      /\ run'[r].stage # "save"
      /\ \A s \in Runs : s # r => run'[s] = run[s] /\ counted'[s] = counted[s]
      /\ \/ /\ run'[r].stage = "walk"
            /\ \/ run[r].last[p] # 0 /\ now - run[r].last[p] <= Pause
               \/ since[l] # 0 => ~(created[l] > run[r].cutoff)
         \/ /\ run'[r].stage = "notify" /\ run'[r].at = p
            /\ since[l] # 0 /\ created[l] > run[r].cutoff => l \in counted'[r]
  <2>1. CASE /\ run' = [run EXCEPT ![r] = [run[r] EXCEPT !.left = @ \ {p}, !.at = NoSearch,
                                                         !.stage = "walk"]]
             /\ counted' = counted
             /\ \/ run[r].last[p] # 0 /\ now - run[r].last[p] <= Pause
                \/ \A k \in Lots : since[k] # 0 => ~(created[k] > run[r].cutoff)
    BY <1>2, <2>1 DEF Typed, Walks
  <2>2. ASSUME run' = [run EXCEPT ![r] = [run[r] EXCEPT !.left = @ \ {p}, !.at = p,
                                                        !.stage = "notify"]],
               NEW found \in SUBSET Lots, counted' = [counted EXCEPT ![r] = found],
               \A k \in Lots : since[k] # 0 /\ created[k] > run[r].cutoff => k \in found
        PROVE  /\ run'[r].cutoff = run[r].cutoff /\ run'[r].last = run[r].last
               /\ run'[r].left = run[r].left \ {p}
               /\ \A s \in Runs : s # r => run'[s] = run[s] /\ counted'[s] = counted[s]
               /\ run'[r].stage = "notify" /\ run'[r].at = p
               /\ since[l] # 0 /\ created[l] > run[r].cutoff => l \in counted'[r]
    BY <1>2, <2>2 DEF Typed, Walks
  <2> QED BY <2>1, <2>2, Looking
<1>4. Dated(q)'
  BY <1>1, <1>2, <1>3 DEF Timely, Dated, Running
<1>5. UNCHANGED <<Offered(l), Expecting(q, l), Served(q, l), Reported(q, l), InTime(q, l)>>
  BY <1>1 DEF Offered, Expecting, Served, Reported, InTime
<1>6. ASSUME ~late, NEW s \in Runs PROVE OnItsWay(s, q, l)'
  <2>1. CASE s # r
    BY <1>1, <1>3, <1>5, <1>6, <2>1 DEF Timely, OnItsWay, Running, At
  <2>2. CASE s = r
    <3>1. run[r].cutoff = now - Window
      BY <1>2, <1>6 DEF Timely, OnItsWay
    <3>2. ~At(r, "notify", q)
      BY <1>2 DEF At, Walks
    <3>3. Offered(l) => since[l] # 0 /\ created[l] > run[r].cutoff
      BY <3>1, SearchConstants DEF Offered, Typed
    <3>4. At(r, "notify", q)' /\ Offered(l)' => l \in counted'[r]
      BY <1>3, <1>5, <3>3 DEF At
    <3>5. CASE p # q
      BY <1>1, <1>2, <1>3, <1>5, <1>6, <2>2, <3>1, <3>2, <3>4, <3>5 DEF Timely, OnItsWay, At
    <3>6. CASE p = q
      <4>1. run[r].last[p] # 0 /\ now - run[r].last[p] <= Pause => Served(q, l)
        <5>1. /\ run[r].last[q] <= notified[q] /\ run[r].last[q] \in Nat /\ now \in Nat
              /\ notified[q] \in Nat /\ Pause \in Nat
          BY <1>2, SearchConstants DEF Timely, Dated, Walks, Typed
        <5> QED BY <3>6, <5>1 DEF Served
      <4>2. Expecting(q, l)' => At(r, "notify", q)' \/ Served(q, l)'
        BY <1>3, <1>5, <3>3, <3>6, <4>1 DEF At, Expecting
      <4> QED BY <1>1, <1>3, <2>2, <3>1, <3>4, <4>2 DEF OnItsWay, At
    <3> QED BY <3>5, <3>6
  <2> QED BY <2>1, <2>2
<1> QED BY <1>1, <1>4, <1>5, <1>6 DEF Timely

\* A run reports a search: of l too, if it is on offer.
LEMMA NotifyTimely ==
  ASSUME Typed, NEW r \in Runs, Notify(r), NEW q \in Searches, NEW l \in Lots, Timely(q, l)
  PROVE  Timely(q, l)'
<1>1. UNCHANGED <<now, created, since, saved, notified, counted, ran, late>>
  BY DEF Notify, market
<1>2. run[r] \in Reporting /\ Running(r)
  BY Stages DEF Notify
<1>3. /\ run'[r].cutoff = run[r].cutoff /\ run'[r].last = run[r].last
      /\ run'[r].left = run[r].left /\ run'[r].at = run[r].at
      /\ run'[r].stage = "save"
      /\ \A s \in Runs : s # r => run'[s] = run[s]
  BY <1>2 DEF Notify, Typed, Reporting
<1>4. /\ l \in told[q] => l \in told'[q]
      /\ run[r].at = q /\ l \in counted[r] => l \in told'[q]
  BY DEF Notify, Typed
<1>5. Dated(q)'
  BY <1>1, <1>2, <1>3 DEF Timely, Dated, Running
<1>6. /\ UNCHANGED <<Offered(l), Expecting(q, l)>>
      /\ Served(q, l) => Served(q, l)'
      /\ Reported(q, l) => Reported(q, l)'
      /\ InTime(q, l) => InTime(q, l)'
  BY <1>1, <1>4 DEF Offered, Expecting, Served, Reported, InTime
<1>7. ASSUME ~late, NEW s \in Runs PROVE OnItsWay(s, q, l)'
  <2>1. CASE s # r
    BY <1>1, <1>3, <1>4, <1>6, <1>7, <2>1 DEF Timely, OnItsWay, Running, At
  <2>2. CASE s = r
    <3>1. run[r].cutoff = now - Window
      BY <1>2, <1>7 DEF Timely, OnItsWay
    <3>2. run[r].stage = "notify"
      BY DEF Notify
    <3>3. run[r].at = q /\ Offered(l) => l \in told'[q]
      BY <1>2, <1>4, <1>7, <3>2 DEF Timely, OnItsWay, At
    <3> QED BY <1>1, <1>2, <1>3, <1>6, <1>7, <2>2, <3>1, <3>3
            DEF Timely, OnItsWay, At, Served, Expecting
  <2> QED BY <2>1, <2>2
<1> QED BY <1>1, <1>5, <1>6, <1>7 DEF Timely

\* A run saves the time of its report: it was made in this beat.
LEMMA SaveTimeTimely ==
  ASSUME Typed, NEW r \in Runs, SaveTime(r), NEW q \in Searches, NEW l \in Lots, Timely(q, l)
  PROVE  Timely(q, l)'
<1>1. UNCHANGED <<now, created, since, saved, counted, told, ran, late>>
  BY DEF SaveTime, market, history
<1>2. run[r] \in Reporting /\ Running(r) /\ At(r, "save", run[r].at)
  BY Stages DEF SaveTime, At
<1>3. /\ run'[r].cutoff = run[r].cutoff /\ run'[r].last = run[r].last
      /\ run'[r].left = run[r].left /\ run'[r].stage = "walk"
      /\ \A s \in Runs : s # r => run'[s] = run[s]
  BY <1>2 DEF SaveTime, Typed, Reporting
<1>4. /\ run[r].at = q => notified'[q] = now
      /\ run[r].at # q => notified'[q] = notified[q]
  BY DEF SaveTime, Typed
<1>5. /\ now \in Nat \ {0} /\ Pause \in Nat \ {0} /\ notified[q] \in Nat /\ notified[q] <= now
      /\ \A s \in Runs : Running(s) => run[s].last[q] \in Nat
  <2>1. ASSUME NEW s \in Runs, Running(s) PROVE run[s].last[q] \in Nat
    BY <2>1, Stages DEF Walks, Reporting
  <2> QED BY <2>1, SearchConstants DEF Typed, Timely, Dated
<1>6. \A s \in Runs : Running(s)' => Running(s) /\ run'[s].last = run[s].last
  BY <1>2, <1>3 DEF Running
<1>7. Dated(q)'
  BY <1>1, <1>4, <1>5, <1>6 DEF Timely, Dated
<1>8. /\ UNCHANGED <<Offered(l), Expecting(q, l)>>
      /\ Served(q, l) => Served(q, l)'
      /\ InTime(q, l) => InTime(q, l)'
  BY <1>1, <1>4, <1>5 DEF Offered, Expecting, Served, InTime
<1>9. run[r].at = q => Served(q, l)'
  BY <1>1, <1>4, <1>5 DEF Served
<1>10. ~late => Reported(q, l)'
  <2>1. ~late => Reported(q, l) /\ (At(r, "save", q) /\ Offered(l) => l \in told[q])
    BY <1>2 DEF Timely, OnItsWay
  <2> QED BY <1>1, <1>2, <1>4, <2>1 DEF Reported, Offered
<1>11. ASSUME ~late, NEW s \in Runs PROVE OnItsWay(s, q, l)'
  <2>1. CASE s # r
    BY <1>1, <1>3, <1>8, <1>11, <2>1 DEF Timely, OnItsWay, Running, At
  <2>2. CASE s = r
    <3>1. run[r].at # q => ~At(r, "notify", q)
      BY DEF At
    <3> QED BY <1>1, <1>2, <1>3, <1>8, <1>9, <1>11, <2>2, <3>1 DEF Timely, OnItsWay, At
  <2> QED BY <2>1, <2>2
<1> QED BY <1>1, <1>7, <1>8, <1>10, <1>11 DEF Timely

\* A run ends: if it has walked all the searches, it has served q.
LEMMA EndTimely ==
  ASSUME Typed, NEW r \in Runs, Finish(r) \/ Die(r),
         NEW q \in Searches, NEW l \in Lots, Timely(q, l)
  PROVE  Timely(q, l)'
<1>1. UNCHANGED <<now, created, since, saved, notified, counted, told, late>>
  BY DEF Finish, Die, market
<1>2. run'[r] = Idle /\ \A s \in Runs : s # r => run'[s] = run[s]
  BY DEF Finish, Die, Typed
<1>3. Dated(q)'
  BY <1>1, <1>2 DEF Timely, Dated, Running
<1>4. UNCHANGED <<Offered(l), Expecting(q, l), Served(q, l), Reported(q, l), InTime(q, l)>>
  BY <1>1 DEF Offered, Expecting, Served, Reported, InTime
<1>5. ASSUME ~late, NEW s \in Runs PROVE OnItsWay(s, q, l)'
  BY <1>1, <1>2, <1>4, <1>5 DEF Timely, OnItsWay, Running, At
<1>6. ~late /\ ran' /\ Expecting(q, l) => Served(q, l)
  <2>1. CASE Finish(r)
    <3>1. Running(r) /\ q \notin run[r].left /\ ~At(r, "notify", q)
      BY <2>1 DEF Finish, At
    <3> QED BY <3>1 DEF Timely, OnItsWay
  <2>2. CASE Die(r)
    BY <2>2 DEF Die, Timely
  <2> QED BY <2>1, <2>2
<1> QED BY <1>1, <1>3, <1>4, <1>5, <1>6 DEF Timely

\* A beat passes. The last in which l is sure to count had its run, which reported q of l
\* or found a report that may be less than a Pause old: that one was of l.
LEMMA TickTimely ==
  ASSUME Typed, Tick, NEW q \in Searches, NEW l \in Lots, Timely(q, l)
  PROVE  Timely(q, l)'
<1>1. UNCHANGED <<created, since, saved, notified, told, run>> /\ now' = now + 1 /\ ~ran'
  BY DEF Tick, market
<1>2. ~late' => ~late /\ ran /\ \A r \in Runs : ~Running(r)
  BY DEF Tick
<1>3. /\ now \in Nat \ {0} /\ Pause \in Nat \ {0} /\ Window \in Nat
      /\ created[l] \in Nat /\ since[l] \in Nat /\ saved[q] \in Nat /\ notified[q] \in Nat
  BY SearchConstants DEF Typed
<1>4. Dated(q)'
  BY <1>1, <1>3 DEF Timely, Dated, Running
<1>5. Reported(q, l) => Reported(q, l)'
  BY <1>1 DEF Reported
<1>6. ~late' => InTime(q, l)'
  <2> SUFFICES ASSUME ~late', ~InTime(q, l)' PROVE FALSE
    OBVIOUS
  <2>1. /\ saved[q] # 0 /\ since[l] # 0 /\ l \notin told[q]
        /\ saved[q] + 2 <= created[l] + Window
        /\ since[l] + Pause + 2 <= created[l] + Window
        /\ now + 1 >= created[l] + Window
    BY <1>1 DEF InTime
  <2>2. now + 1 = created[l] + Window
    BY <1>2, <1>3, <2>1 DEF Timely, InTime
  <2>3. Expecting(q, l)
    BY <1>3, <2>1, <2>2 DEF Expecting, Offered
  <2>4. notified[q] # 0 /\ now - notified[q] <= Pause
    BY <1>2, <2>1, <2>3 DEF Timely, Served
  <2>5. since[l] < notified[q] /\ notified[q] < created[l] + Window
    BY <1>3, <2>1, <2>2, <2>4 DEF Timely, Dated
  <2> QED BY <1>2, <2>1, <2>5 DEF Timely, Reported
<1> QED BY <1>1, <1>2, <1>4, <1>5, <1>6 DEF Timely, OnItsWay, Running

\* The types, and Timely for all searches and lots, hold at all times.
THEOREM TimelyInvariant ==
  Spec => [](Typed /\ \A q \in Searches, l \in Lots : Timely(q, l))
<1> DEFINE Inv == Typed /\ \A q \in Searches, l \in Lots : Timely(q, l)
<1>1. Init => Inv
  BY TypesStart DEF Init, Timely, Dated, OnItsWay, Reported, InTime, Running
<1>2. Inv /\ [Next]_vars => Inv'
  <2> SUFFICES ASSUME Inv, [Next]_vars PROVE Inv'
    OBVIOUS
  <2>1. Typed'
    BY TypesStep
  <2>2. ASSUME NEW q \in Searches, NEW l \in Lots PROVE Timely(q, l)'
    <3>1. CASE Outside
      BY <2>1, <3>1, OutsideTimely
    <3>2. ASSUME NEW r \in Runs, Start(r) PROVE Timely(q, l)'
      BY <3>2, StartTimely
    <3>3. ASSUME NEW r \in Runs, NEW p \in Searches, Look(r, p) PROVE Timely(q, l)'
      BY <3>3, LookTimely
    <3>4. ASSUME NEW r \in Runs, Notify(r) PROVE Timely(q, l)'
      BY <3>4, NotifyTimely
    <3>5. ASSUME NEW r \in Runs, SaveTime(r) PROVE Timely(q, l)'
      BY <3>5, SaveTimeTimely
    <3>6. ASSUME NEW r \in Runs, Finish(r) \/ Die(r) PROVE Timely(q, l)'
      BY <3>6, EndTimely
    <3>7. CASE Tick
      BY <3>7, TickTimely
    <3> QED BY <3>1, <3>2, <3>3, <3>4, <3>5, <3>6, <3>7 DEF Next, Outside
  <2> QED BY <2>1, <2>2
<1> QED BY <1>1, <1>2, PTL DEF Spec

\* While every beat has its run, a lot that goes on the market a Pause and two beats
\* before its Window ends is reported to every search saved two beats before it, by
\* the last beat whose runs are sure to count it.
THEOREM ReportsInTime == Spec => []ReportedInTime
<1>1. Typed /\ (\A q \in Searches, l \in Lots : Timely(q, l)) => ReportedInTime
  BY DEF Timely, InTime, ReportedInTime
<1> QED BY <1>1, TimelyInvariant, PTL
==============================================================================
