----------------------------- MODULE LedgerProofs -----------------------------
(***************************************************************************)
(* The safety of Ledger for every set of tenants, contacts, offers, days,   *)
(* amounts and request handlers, and its refinement of LedgerBook.          *)
(***************************************************************************)
EXTENDS Ledger, TLAPS

-----------------------------------------------------------------------------
(* Logs *)

\* new is old with row appended and, when k is a row of it, row k stamped.
Grown(old, new, row, k) ==
  /\ new \in Seq(Entry)
  /\ Len(new) = Len(old) + 1
  /\ new[Len(new)] = row
  /\ \A j \in 1..Len(old) :
       new[j] = IF j = k THEN [old[j] EXCEPT !.reversed = TRUE] ELSE old[j]

\* Appending a row grows a log and stamps nothing.
LEMMA AppendGrows ==
  ASSUME NEW log \in Seq(Entry), NEW row \in Entry
  PROVE  Grown(log, Append(log, row), row, 0)
BY DEF Grown

\* Stamping row k and appending its reversal grows a log.
LEMMA ReversalGrows ==
  ASSUME NEW log \in Seq(Entry), NEW row \in Entry, NEW k \in DOMAIN log
  PROVE  Grown(log, WithReversal(log, k, row), row, k)
<1> DEFINE stamped == [log EXCEPT ![k].reversed = TRUE]
<1>1. k \in 1..Len(log) /\ log[k] \in Entry
  OBVIOUS
<1>2. [log[k] EXCEPT !.reversed = TRUE] \in Entry
  BY <1>1 DEF Entry
<1>3. stamped = [log EXCEPT ![k] = [log[k] EXCEPT !.reversed = TRUE]]
  OBVIOUS
<1>4. log \in [1..Len(log) -> Entry] /\ Len(log) \in Nat
  OBVIOUS
<1>5. stamped \in [1..Len(log) -> Entry]
  BY <1>2, <1>3, <1>4
<1>6. stamped \in Seq(Entry) /\ Len(stamped) = Len(log)
  BY <1>4, <1>5
<1>7. \A j \in 1..Len(log) :
        stamped[j] = IF j = k THEN [log[j] EXCEPT !.reversed = TRUE] ELSE log[j]
  BY <1>3, <1>4
<1>8. QED
  BY <1>6, <1>7 DEF Grown, WithReversal

\* A grown log keeps the contents of every earlier row but the stamp of row k.
LEMMA GrownRows ==
  ASSUME NEW old \in Seq(Entry), NEW new, NEW row, NEW k, Grown(old, new, row, k)
  PROVE  /\ Len(old) \in Nat
         /\ DOMAIN old = 1..Len(old)
         /\ DOMAIN new = 1..(Len(old) + 1)
         /\ new[Len(old) + 1] = row
         /\ \A j \in 1..Len(old) :
              /\ old[j] \in Entry
              /\ old[j].reverses \in Nat
              /\ new[j] \in {old[j], [old[j] EXCEPT !.reversed = TRUE]}
              /\ new[j].type = old[j].type
              /\ new[j].amount = old[j].amount
              /\ new[j].delta = old[j].delta
              /\ new[j].after = old[j].after
              /\ new[j].offer = old[j].offer
              /\ new[j].reverses = old[j].reverses
              /\ new[j].reversed <=> (old[j].reversed \/ j = k)
<1>1. Len(old) \in Nat /\ DOMAIN new = 1..(Len(old) + 1) /\ DOMAIN old = 1..Len(old)
  BY DEF Grown
<1>2. new[Len(old) + 1] = row
  BY DEF Grown
<1>3. ASSUME NEW j \in 1..Len(old)
      PROVE  /\ old[j] \in Entry
             /\ old[j].reverses \in Nat
             /\ new[j] \in {old[j], [old[j] EXCEPT !.reversed = TRUE]}
             /\ new[j].type = old[j].type
             /\ new[j].amount = old[j].amount
             /\ new[j].delta = old[j].delta
             /\ new[j].after = old[j].after
             /\ new[j].offer = old[j].offer
             /\ new[j].reverses = old[j].reverses
             /\ new[j].reversed <=> (old[j].reversed \/ j = k)
  <2>1. old[j] \in Entry
    OBVIOUS
  <2> DEFINE stamped == [old[j] EXCEPT !.reversed = TRUE]
  <2>2. /\ stamped = [old[j] EXCEPT !.reversed = TRUE]
        /\ stamped.type = old[j].type
        /\ stamped.amount = old[j].amount
        /\ stamped.delta = old[j].delta
        /\ stamped.after = old[j].after
        /\ stamped.offer = old[j].offer
        /\ stamped.reverses = old[j].reverses
        /\ stamped.reversed
        /\ old[j].reverses \in Nat
    BY <2>1 DEF Entry
  <2>3. new[j] = IF j = k THEN stamped ELSE old[j]
    BY DEF Grown
  <2> HIDE DEF stamped
  <2>4. CASE j = k
    BY <2>1, <2>2, <2>3, <2>4
  <2>5. CASE j # k
    BY <2>1, <2>2, <2>3, <2>5
  <2>6. QED
    BY <2>4, <2>5
<1>4. QED
  BY <1>1, <1>2, <1>3

\* The balance of a grown log is the balance_after of the new row.
LEMMA GrownBalance ==
  ASSUME NEW old \in Seq(Entry), NEW new, NEW row, NEW k, Grown(old, new, row, k)
  PROVE  Balance(new) = row.after
BY DEF Grown, Balance

LEMMA BalanceInt ==
  ASSUME NEW log \in Seq(Entry)
  PROVE  Balance(log) \in Int
<1>1. CASE log = <<>>
  BY <1>1 DEF Balance
<1>2. CASE log # <<>>
  <2>1. Len(log) \in DOMAIN log
    BY <1>2
  <2>2. log[Len(log)] \in Entry
    BY <2>1
  <2>3. QED
    BY <1>2, <2>2 DEF Balance, Entry
<1>3. QED
  BY <1>1, <1>2

\* A row that continues the old balance keeps the running balance.
LEMMA GrownRunning ==
  ASSUME NEW old \in Seq(Entry), NEW new, NEW row \in Entry, NEW k,
         Grown(old, new, row, k), Running(old),
         row.after = Balance(old) + row.delta
  PROVE  Running(new)
<1> SUFFICES ASSUME NEW j \in DOMAIN new
             PROVE  new[j].after = (IF j = 1 THEN 0 ELSE new[j - 1].after) + new[j].delta
  BY DEF Running
<1>1. /\ Len(old) \in Nat
      /\ DOMAIN old = 1..Len(old)
      /\ DOMAIN new = 1..(Len(old) + 1)
      /\ new[Len(old) + 1] = row
      /\ \A i \in 1..Len(old) : new[i].after = old[i].after /\ new[i].delta = old[i].delta
  BY GrownRows
<1>2. CASE j \in 1..Len(old)
  BY <1>1, <1>2 DEF Running
<1>3. CASE j = Len(old) + 1
  <2>1. CASE Len(old) = 0
    BY <1>1, <1>3, <2>1 DEF Balance
  <2>2. CASE Len(old) > 0
    BY <1>1, <1>3, <2>2 DEF Balance
  <2>3. QED
    BY <1>1, <2>1, <2>2
<1>4. QED
  BY <1>1, <1>2, <1>3

\* Posting a row that is no reversal keeps reversals and stamps paired.
LEMMA PostedPaired ==
  ASSUME NEW old \in Seq(Entry), NEW new, NEW row,
         Grown(old, new, row, 0), Paired(old),
         row.type # "reversal", row.reverses = 0, ~row.reversed
  PROVE  Paired(new)
<1> DEFINE n == Len(old) + 1
<1>1. /\ n \in Nat /\ n - 1 \in Nat /\ DOMAIN old = 1..(n - 1) /\ DOMAIN new = 1..n /\ new[n] = row
      /\ \A j \in 1..(n - 1) :
           /\ old[j].reverses \in Nat
           /\ new[j].type = old[j].type
           /\ new[j].amount = old[j].amount
           /\ new[j].delta = old[j].delta
           /\ new[j].reverses = old[j].reverses
           /\ new[j].reversed <=> old[j].reversed
  BY GrownRows
<1> HIDE DEF n
<1>2. \A j \in 1..(n - 1) : old[j].reverses # 0 => old[j].reverses \in 1..(j - 1)
  BY <1>1 DEF Paired, Negates
<1>3. \A k \in DOMAIN new : new[k].reversed <=> HasReversal(new, k)
  <2>1. ASSUME NEW k \in 1..(n - 1)
        PROVE  HasReversal(new, k) <=> HasReversal(old, k)
    <3>1. new[n].reverses # k
      BY <1>1
    <3>2. \A j \in 1..n : j \in 1..(n - 1) \/ j = n
      BY <1>1
    <3>3. HasReversal(new, k) => \E j \in 1..(n - 1) : new[j].reverses = k
      BY <1>1, <3>1, <3>2 DEF HasReversal
    <3>4. (\E j \in 1..(n - 1) : new[j].reverses = k) => HasReversal(new, k)
      <4>1. \A j \in 1..(n - 1) : j \in DOMAIN new
        BY <1>1
      <4>2. QED
        BY <4>1 DEF HasReversal
    <3>5. HasReversal(old, k) <=> \E j \in 1..(n - 1) : old[j].reverses = k
      <4>1. DOMAIN old = 1..(n - 1)
        BY <1>1
      <4>2. QED
        BY <4>1 DEF HasReversal
    <3>6. \A j \in 1..(n - 1) : new[j].reverses = old[j].reverses
      BY <1>1
    <3>7. QED
      BY <3>3, <3>4, <3>5, <3>6
  <2>2. ~HasReversal(new, n)
    BY <1>1, <1>2 DEF HasReversal
  <2>3. QED
    BY <1>1, <2>1, <2>2 DEF Paired
<1>4. \A j \in DOMAIN new : new[j].type = "reversal" <=> new[j].reverses # 0
  BY <1>1 DEF Paired
<1>5. \A j \in DOMAIN new : new[j].reverses # 0 => Negates(new, j, new[j].reverses)
  <2> SUFFICES ASSUME NEW j \in 1..(n - 1), old[j].reverses # 0
               PROVE  Negates(new, j, old[j].reverses)
    BY <1>1
  <2>1. Negates(old, j, old[j].reverses)
    BY <1>1 DEF Paired
  <2>2. QED
    BY <1>1, <2>1 DEF Negates
<1>6. \A i, j \in DOMAIN new :
        new[i].reverses # 0 /\ new[i].reverses = new[j].reverses => i = j
  BY <1>1 DEF Paired
<1>7. QED
  BY <1>3, <1>4, <1>5, <1>6 DEF Paired

\* Reversing a row that is no reversal and has none keeps them paired.
LEMMA ReversedPaired ==
  ASSUME NEW old \in Seq(Entry), NEW new, NEW k \in DOMAIN old, NEW p, NEW day,
         Grown(old, new, ReversalRow(p, old, k, day), k), Paired(old),
         old[k].type # "reversal", ~HasReversal(old, k)
  PROVE  Paired(new)
<1> DEFINE n == Len(old) + 1
           row == ReversalRow(p, old, k, day)
<1>1. /\ n \in Nat /\ n - 1 \in Nat /\ DOMAIN old = 1..(n - 1) /\ DOMAIN new = 1..n /\ new[n] = row
      /\ \A j \in 1..(n - 1) :
           /\ old[j].reverses \in Nat
           /\ new[j].type = old[j].type
           /\ new[j].amount = old[j].amount
           /\ new[j].delta = old[j].delta
           /\ new[j].reverses = old[j].reverses
           /\ new[j].reversed <=> (old[j].reversed \/ j = k)
  BY GrownRows
<1>2. /\ row.type = "reversal" /\ row.reverses = k /\ ~row.reversed
      /\ row.delta = -old[k].delta /\ row.amount = old[k].amount
  BY DEF ReversalRow
<1> HIDE DEF n, row
<1>3. \A j \in 1..(n - 1) : old[j].reverses # 0 => old[j].reverses \in 1..(j - 1)
  BY <1>1 DEF Paired, Negates
<1>4. \A i \in DOMAIN new : new[i].reversed <=> HasReversal(new, i)
  <2>1. ASSUME NEW i \in 1..(n - 1), i # k
        PROVE  HasReversal(new, i) <=> HasReversal(old, i)
    <3>1. ASSUME HasReversal(new, i)
          PROVE  HasReversal(old, i)
      <4>1. PICK j \in 1..n : new[j].reverses = i
        BY <1>1, <3>1 DEF HasReversal
      <4>2. j \in 1..(n - 1)
        BY <1>1, <1>2, <2>1, <4>1
      <4>3. QED
        BY <1>1, <4>1, <4>2 DEF HasReversal
    <3>2. ASSUME HasReversal(old, i)
          PROVE  HasReversal(new, i)
      <4>1. PICK j \in 1..(n - 1) : old[j].reverses = i
        BY <1>1, <3>2 DEF HasReversal
      <4>2. j \in 1..n /\ new[j].reverses = i
        BY <1>1, <4>1
      <4>3. QED
        BY <1>1, <4>2 DEF HasReversal
    <3>3. QED
      BY <3>1, <3>2
  <2>2. HasReversal(new, k)
    BY <1>1, <1>2 DEF HasReversal
  <2>3. ~HasReversal(new, n)
    BY <1>1, <1>2, <1>3 DEF HasReversal
  <2>4. QED
    BY <1>1, <1>2, <2>1, <2>2, <2>3 DEF Paired
<1>5. \A j \in DOMAIN new : new[j].type = "reversal" <=> new[j].reverses # 0
  BY <1>1, <1>2 DEF Paired
<1>6. \A j \in DOMAIN new : new[j].reverses # 0 => Negates(new, j, new[j].reverses)
  <2>1. Negates(new, n, k)
    BY <1>1, <1>2 DEF Negates
  <2>2. ASSUME NEW j \in 1..(n - 1), old[j].reverses # 0
        PROVE  Negates(new, j, old[j].reverses)
    <3>1. Negates(old, j, old[j].reverses)
      BY <1>1, <2>2 DEF Paired
    <3>2. QED
      BY <1>1, <3>1 DEF Negates
  <2>3. QED
    BY <1>1, <1>2, <2>1, <2>2
<1>7. \A i, j \in DOMAIN new :
        new[i].reverses # 0 /\ new[i].reverses = new[j].reverses => i = j
  <2>1. \A i \in 1..(n - 1) : new[i].reverses # k
    BY <1>1 DEF HasReversal
  <2>2. \A i, j \in 1..(n - 1) :
          new[i].reverses # 0 /\ new[i].reverses = new[j].reverses => i = j
    <3>1. \A i, j \in DOMAIN old :
            old[i].reverses # 0 /\ old[i].reverses = old[j].reverses => i = j
      BY DEF Paired
    <3>2. DOMAIN old = 1..(n - 1) /\ \A i \in 1..(n - 1) : new[i].reverses = old[i].reverses
      BY <1>1
    <3>3. QED
      BY <3>1, <3>2
  <2>3. new[n].reverses = k /\ \A i \in DOMAIN new : i \in 1..(n - 1) \/ i = n
    BY <1>1, <1>2
  <2>4. QED
    BY <2>1, <2>2, <2>3
<1>8. QED
  BY <1>4, <1>5, <1>6, <1>7 DEF Paired

\* A log that grows is not edited.
LEMMA GrownImmutable ==
  ASSUME NEW old \in Seq(Entry), NEW new, NEW row, NEW k, Grown(old, new, row, k)
  PROVE  Immutable(old, new)
BY GrownRows DEF Immutable

\* Growing a log by a row that is not live for offer o makes no trade of o live.
LEMMA GrownLive ==
  ASSUME NEW old \in Seq(Entry), NEW new, NEW row, NEW k, NEW o,
         Grown(old, new, row, k), ~IsLiveTrade(row, o),
         NEW j \in DOMAIN new, IsLiveTrade(new[j], o)
  PROVE  j \in DOMAIN old /\ IsLiveTrade(old[j], o)
BY GrownRows DEF IsLiveTrade

-----------------------------------------------------------------------------
(* The inductive invariant *)

Busy(s) == pc[s] # "idle"

\* A session holds the lock of its contact from its SELECT ... FOR UPDATE on.
Holds(s) == pc[s] \notin {"idle", "locking"}

\* What the checks of the handler left true of the request of s.
ValidRequest(s) ==
  LET r == req[s] IN
  /\ r \in Request
  /\ r.day \in Days
  /\ Owner[r.contact] = Works[s]
  /\ r.kind # "reverse" => r.amount \in Amounts /\ r.amount > 0
  /\ r.offer # NoOffer => /\ r.kind = "trade"
                          /\ r.type \in TradeTypes
                          /\ Works[s] \in Parties[r.offer]
  /\ r.kind = "reverse" => /\ r.target \in DOMAIN book[r.contact]
                           /\ book[r.contact][r.target].type # "reversal"
  /\ pc[s] = "stamped" => r.kind = "reverse"

RequestsValid == \A s \in Sessions : Busy(s) => ValidRequest(s)

LocksHeld == \A s \in Sessions : Holds(s) => lock[req[s].contact] = s

\* The balance a session read is still the last one when it writes.
SeenFresh ==
  \A s \in Sessions : pc[s] \in {"writing", "stamped", "inserted"}
    => seen[s] = Balance(book[req[s].contact])

\* An entry found without a reversal gets none from another session.
TargetOpen ==
  \A s \in Sessions : Holds(s) /\ pc[s] # "checking" /\ req[s].kind = "reverse"
    => ~HasReversal(book[req[s].contact], req[s].target)

\* An uncommitted trade has the slot of its offer to itself.
HasSlot(s, o) == pc[s] = "inserted" /\ IsOfferTrade(req[s]) /\ req[s].offer = o

SlotFree ==
  \A s \in Sessions : \A o \in Offers : HasSlot(s, o) =>
    /\ ~TradeRecorded(book, Works[s], o)
    /\ \A t \in Sessions : HasSlot(t, o) /\ Works[t] = Works[s] => t = s

IInv ==
  /\ TypeOK
  /\ RequestsValid
  /\ LocksHeld
  /\ SeenFresh
  /\ TargetOpen
  /\ SlotFree
  /\ RunningBalance
  /\ OneLiveTrade
  /\ ReversalPaired

LEMMA InitInv == Init => IInv
BY SessionConstants, LedgerConstants
   DEF Init, IInv, TypeOK, RequestsValid, Busy, LocksHeld, Holds, SeenFresh, TargetOpen,
       SlotFree, HasSlot, RunningBalance, Running, OneLiveTrade, ReversalPaired, Paired,
       HasReversal

-----------------------------------------------------------------------------
(* Steps that write nothing *)

\* A request that arrives: nothing of the other sessions changes.
LEMMA BeginInv ==
  ASSUME IInv, NEW s \in Sessions, NEW r \in Request, Begin(s, r), r.day \in Days,
         r.kind # "reverse" => r.amount \in Amounts /\ r.amount > 0,
         r.offer # NoOffer => /\ r.kind = "trade"
                             /\ r.type \in TradeTypes
                             /\ Works[s] \in Parties[r.offer],
         r.kind = "reverse" => /\ r.target \in DOMAIN book[r.contact]
                              /\ book[r.contact][r.target].type # "reversal"
  PROVE  IInv'
<1>1. /\ pc[s] = "idle" /\ pc' = [pc EXCEPT ![s] = "locking"]
      /\ req' = [req EXCEPT ![s] = r]
      /\ answer' = [answer EXCEPT ![s] = NoOffer]
      /\ Owner[r.contact] = Works[s]
      /\ UNCHANGED <<book, lock, seen>>
  BY DEF Begin, Goto
<1>2. TypeOK /\ TypeOK'
  BY <1>1 DEF IInv, TypeOK
<1>3. pc'[s] = "locking" /\ req'[s] = r
  BY <1>1, <1>2 DEF TypeOK
<1>4. \A t \in Sessions : t # s => pc'[t] = pc[t] /\ req'[t] = req[t]
  BY <1>1, <1>2 DEF TypeOK
<1>5. RequestsValid'
  BY <1>1, <1>3, <1>4 DEF IInv, RequestsValid, Busy, ValidRequest
<1>6. LocksHeld' /\ SeenFresh' /\ TargetOpen'
  BY <1>1, <1>3, <1>4 DEF IInv, LocksHeld, Holds, SeenFresh, TargetOpen
<1>7. SlotFree'
  BY <1>1, <1>3, <1>4 DEF IInv, SlotFree, HasSlot, TradeRecorded
<1>8. RunningBalance' /\ OneLiveTrade' /\ ReversalPaired'
  BY <1>1 DEF IInv, RunningBalance, OneLiveTrade, ReversalPaired
<1>9. QED
  BY <1>2, <1>5, <1>6, <1>7, <1>8 DEF IInv

\* A session that ends without committing leaves no trace but a free lock.
LEMMA EndInv ==
  ASSUME IInv, NEW s \in Sessions, NEW reply \in Offers \cup {NoOffer},
         End(s, reply), UNCHANGED book
  PROVE  IInv'
<1>1. TypeOK /\ TypeOK'
  BY DEF IInv, TypeOK, End
<1>2. pc'[s] = "idle"
  BY <1>1 DEF End, TypeOK
<1>3. \A t \in Sessions : t # s => pc'[t] = pc[t] /\ req'[t] = req[t] /\ seen'[t] = seen[t]
  BY <1>1 DEF End, TypeOK
<1>4. \A c \in Contacts : lock[c] # s => lock'[c] = lock[c]
  BY DEF End
<1>5. RequestsValid'
  BY <1>2, <1>3 DEF IInv, RequestsValid, Busy, ValidRequest
<1>6. LocksHeld'
  <2> SUFFICES ASSUME NEW t \in Sessions, Holds(t)'
               PROVE  lock'[req'[t].contact] = t
    BY DEF LocksHeld
  <2>1. t # s /\ Holds(t) /\ req'[t] = req[t]
    BY <1>2, <1>3 DEF Holds
  <2>2. lock[req[t].contact] = t /\ req[t].contact \in Contacts
    BY <2>1 DEF IInv, LocksHeld, RequestsValid, Busy, Holds, ValidRequest, Request
  <2>3. QED
    BY <1>4, <2>1, <2>2
<1>7. SeenFresh' /\ TargetOpen'
  BY <1>2, <1>3 DEF IInv, Holds, SeenFresh, TargetOpen
<1>8. SlotFree'
  BY <1>2, <1>3 DEF IInv, SlotFree, HasSlot, TradeRecorded
<1>9. RunningBalance' /\ OneLiveTrade' /\ ReversalPaired'
  BY DEF IInv, RunningBalance, OneLiveTrade, ReversalPaired
<1>10. QED
  BY <1>1, <1>5, <1>6, <1>7, <1>8, <1>9 DEF IInv

\* A statement that commits nothing: s moves on to `to` with its lock and the
\* facts that `to` stands for.
LEMMA MoveInv ==
  ASSUME IInv, NEW s \in Sessions, NEW from, NEW to, from # "idle", Goto(s, from, to),
         UNCHANGED <<book, req, answer>>, TypeOK',
         \A t \in Sessions : t # s => seen'[t] = seen[t],
         \A t \in Sessions : t # s /\ Holds(t) => lock'[req[t].contact] = t,
         Holds(s)' => lock'[req[s].contact] = s,
         to \in {"writing", "stamped", "inserted"}
           => seen'[s] = Balance(book[req[s].contact]),
         Holds(s)' /\ to # "checking" /\ req[s].kind = "reverse"
           => ~HasReversal(book[req[s].contact], req[s].target),
         to = "stamped" => req[s].kind = "reverse",
         to = "inserted" /\ IsOfferTrade(req[s]) =>
           /\ ~TradeRecorded(book, Works[s], req[s].offer)
           /\ ~SlotContested(s, Works[s], req[s].offer)
  PROVE  IInv'
<1>1. TypeOK
  BY DEF IInv
<1>2. pc[s] = from /\ pc'[s] = to /\ \A t \in Sessions : t # s => pc'[t] = pc[t]
  BY <1>1 DEF Goto, TypeOK
<1>3. RequestsValid'
  BY <1>2 DEF IInv, RequestsValid, Busy, ValidRequest
<1>4. LocksHeld' /\ SeenFresh' /\ TargetOpen'
  BY <1>2 DEF IInv, LocksHeld, Holds, SeenFresh, TargetOpen
<1>5. SlotFree'
  BY <1>2 DEF IInv, SlotFree, HasSlot, TradeRecorded, SlotContested, Contests
<1>6. RunningBalance' /\ OneLiveTrade' /\ ReversalPaired'
  BY DEF IInv, RunningBalance, OneLiveTrade, ReversalPaired
<1>7. QED
  BY <1>3, <1>4, <1>5, <1>6 DEF IInv

\* Facts about a session past its SELECT ... FOR UPDATE that the leaves below share.
LEMMA HolderFacts ==
  ASSUME IInv, NEW s \in Sessions, Busy(s)
  PROVE  /\ req[s] \in Request
         /\ req[s].contact \in Contacts
         /\ Owner[req[s].contact] = Works[s]
         /\ req[s].offer \in Offers \cup {NoOffer}
         /\ book[req[s].contact] \in Seq(Entry)
         /\ ValidRequest(s)
         /\ Holds(s) => lock[req[s].contact] = s
BY DEF IInv, TypeOK, RequestsValid, ValidRequest, Request, LocksHeld

\* The view's answer touches neither books nor locks nor requests.
LEMMA AnswerInv ==
  ASSUME IInv, NEW s \in Sessions, Answer(s)
  PROVE  IInv'
<1>1. PICK o \in Offers : /\ answer' = [answer EXCEPT ![s] = o]
                          /\ UNCHANGED <<book, lock, pc, req, seen>>
  BY DEF Answer, AnswerRecorded
<1>2. QED
  BY <1>1 DEF IInv, TypeOK, RequestsValid, Busy, ValidRequest, LocksHeld, Holds, SeenFresh,
              TargetOpen, SlotFree, HasSlot, RunningBalance, OneLiveTrade, ReversalPaired

LEMMA ArriveInv ==
  ASSUME IInv, NEW s \in Sessions, Arrive(s)
  PROVE  IInv'
<1> PICK c \in Contacts, day \in Days :
      \/ \E type \in Types, amount \in Amounts : BeginPost(s, c, type, amount, day)
      \/ \E type \in Types, amount \in Amounts, o \in Offers \cup {NoOffer} :
           BeginTrade(s, c, type, amount, day, o)
      \/ \E k \in DOMAIN book[c] : BeginReverse(s, c, k, day)
  BY DEF Arrive
<1>1. CASE \E type \in Types, amount \in Amounts : BeginPost(s, c, type, amount, day)
  <2> PICK type \in Types, amount \in Amounts : BeginPost(s, c, type, amount, day)
    BY <1>1
  <2> DEFINE r == [kind |-> "post", contact |-> c, type |-> type, amount |-> amount,
                   day |-> day, offer |-> NoOffer, target |-> 0]
  <2>1. r \in Request
    BY SessionConstants, LedgerConstants DEF Request
  <2>2. Begin(s, r) /\ amount > 0
    BY DEF BeginPost
  <2>3. r.kind = "post" /\ r.offer = NoOffer /\ r.amount = amount /\ r.day = day
    OBVIOUS
  <2> HIDE DEF r
  <2>4. QED
    BY <2>1, <2>2, <2>3, BeginInv
<1>2. CASE \E type \in Types, amount \in Amounts, o \in Offers \cup {NoOffer} :
             BeginTrade(s, c, type, amount, day, o)
  <2> PICK type \in Types, amount \in Amounts, o \in Offers \cup {NoOffer} :
        BeginTrade(s, c, type, amount, day, o)
    BY <1>2
  <2> DEFINE r == [kind |-> "trade", contact |-> c, type |-> type, amount |-> amount,
                   day |-> day, offer |-> o, target |-> 0]
  <2>1. r \in Request
    BY SessionConstants, LedgerConstants DEF Request
  <2>2. /\ Begin(s, r) /\ amount > 0 /\ type \in TradeTypes
        /\ o # NoOffer => Works[s] \in Parties[o]
    BY DEF BeginTrade
  <2>3. r.kind = "trade" /\ r.offer = o /\ r.amount = amount /\ r.day = day /\ r.type = type
    OBVIOUS
  <2> HIDE DEF r
  <2>4. QED
    BY <2>1, <2>2, <2>3, BeginInv
<1>3. CASE \E k \in DOMAIN book[c] : BeginReverse(s, c, k, day)
  <2> PICK k \in DOMAIN book[c] : BeginReverse(s, c, k, day)
    BY <1>3
  <2> DEFINE r == [kind |-> "reverse", contact |-> c, type |-> "sale", amount |-> 0,
                   day |-> day, offer |-> NoOffer, target |-> k]
  <2>1. k \in Nat
    BY DEF IInv, TypeOK
  <2>2. r \in Request
    BY <2>1, LedgerConstants DEF Request, PostTypes, DebitTypes
  <2>3. Begin(s, r) /\ book[c][k].type # "reversal"
    BY DEF BeginReverse
  <2>4. r.kind = "reverse" /\ r.contact = c /\ r.offer = NoOffer /\ r.target = k /\ r.day = day
    OBVIOUS
  <2> HIDE DEF r
  <2>5. QED
    BY <2>2, <2>3, <2>4, BeginInv
<1>4. QED
  BY <1>1, <1>2, <1>3

\* The lock was free, so no other session is past its own SELECT ... FOR UPDATE
\* on that contact.
LEMMA LockContactInv ==
  ASSUME IInv, NEW s \in Sessions, LockContact(s)
  PROVE  IInv'
<1> DEFINE to == IF req[s].kind = "post" THEN "reading" ELSE "checking"
           c == req[s].contact
<1>1. /\ Goto(s, "locking", to) /\ lock[c] = NoSession /\ lock' = [lock EXCEPT ![c] = s]
      /\ UNCHANGED <<book, req, seen, answer>>
  BY DEF LockContact
<1>2. c \in Contacts /\ lock \in [Contacts -> Sessions \cup {NoSession}]
  BY <1>1, HolderFacts DEF Goto, Busy, IInv, TypeOK
<1>3. TypeOK'
  BY <1>1, <1>2 DEF IInv, TypeOK, Goto
<1>4. \A t \in Sessions : t # s /\ Holds(t) => lock'[req[t].contact] = t
  BY <1>1, <1>2, SessionConstants, HolderFacts DEF IInv, LocksHeld
<1>5. lock'[c] = s
  BY <1>1, <1>2
<1>6. to = "checking" \/ req[s].kind = "post"
  OBVIOUS
<1>7. to \notin {"writing", "stamped", "inserted"}
  OBVIOUS
<1> HIDE DEF to
<1>8. QED
  BY <1>1, <1>3, <1>4, <1>5, <1>6, <1>7, MoveInv

LEMMA CheckInv ==
  ASSUME IInv, NEW s \in Sessions, Check(s)
  PROVE  IInv'
<1>1. CASE FindDuplicate(s)
  BY <1>1, EndInv, HolderFacts DEF FindDuplicate, Busy
<1>2. CASE FindReversal(s)
  BY <1>2, EndInv DEF FindReversal
<1>3. CASE FindNothing(s)
  <2>1. /\ Goto(s, "checking", "reading")
        /\ UNCHANGED <<book, lock, req, seen, answer>>
        /\ req[s].kind = "reverse" => ~HasReversal(book[req[s].contact], req[s].target)
    BY <1>3 DEF FindNothing
  <2>2. TypeOK'
    BY <2>1 DEF IInv, TypeOK, Goto
  <2>3. \A t \in Sessions : Holds(t) => lock'[req[t].contact] = t
    BY <2>1 DEF IInv, LocksHeld
  <2>4. Holds(s)
    BY <2>1 DEF Goto, Holds
  <2>5. QED
    BY <2>1, <2>2, <2>3, <2>4, MoveInv
<1>4. QED
  BY <1>1, <1>2, <1>3 DEF Check

LEMMA InsertInv ==
  ASSUME IInv, NEW s \in Sessions, Insert(s)
  PROVE  IInv'
<1>1. CASE InsertEntry(s)
  <2>1. /\ Goto(s, "writing", "inserted")
        /\ UNCHANGED <<book, lock, req, seen, answer>>
        /\ req[s].kind # "reverse"
        /\ IsOfferTrade(req[s]) => /\ ~TradeRecorded(book, Works[s], req[s].offer)
                                  /\ ~SlotContested(s, Works[s], req[s].offer)
    BY <1>1 DEF InsertEntry
  <2>2. TypeOK'
    BY <2>1 DEF IInv, TypeOK, Goto
  <2>3. \A t \in Sessions : Holds(t) => lock'[req[t].contact] = t
    BY <2>1 DEF IInv, LocksHeld
  <2>4. Holds(s) /\ seen'[s] = Balance(book[req[s].contact])
    BY <2>1 DEF Goto, Holds, IInv, SeenFresh
  <2>5. QED
    BY <2>1, <2>2, <2>3, <2>4, MoveInv
<1>2. CASE InsertConflicts(s)
  BY <1>2, EndInv, HolderFacts DEF InsertConflicts, Busy
<1>3. QED
  BY <1>1, <1>2 DEF Insert

LEMMA AbortInv ==
  ASSUME IInv, NEW s \in Sessions, Abort(s)
  PROVE  IInv'
BY EndInv DEF Abort

LEMMA ReadBalanceInv ==
  ASSUME IInv, NEW s \in Sessions, ReadBalance(s)
  PROVE  IInv'
<1>1. /\ Goto(s, "reading", "writing")
      /\ seen' = [seen EXCEPT ![s] = Balance(book[req[s].contact])]
      /\ UNCHANGED <<book, lock, req, answer>>
  BY DEF ReadBalance
<1>2. Busy(s) /\ Holds(s)
  BY <1>1 DEF Goto, Busy, Holds
<1>3. Balance(book[req[s].contact]) \in Int
  BY <1>2, HolderFacts, BalanceInt
<1>4. TypeOK'
  BY <1>1, <1>3 DEF IInv, TypeOK, Goto
<1>5. \A t \in Sessions : Holds(t) => lock'[req[t].contact] = t
  BY <1>1 DEF IInv, LocksHeld
<1>6. seen'[s] = Balance(book[req[s].contact]) /\ \A t \in Sessions : t # s => seen'[t] = seen[t]
  BY <1>1 DEF IInv, TypeOK
<1>7. req[s].kind = "reverse" => ~HasReversal(book[req[s].contact], req[s].target)
  BY <1>1, <1>2 DEF IInv, TargetOpen, Goto
<1>8. QED
  BY <1>1, <1>2, <1>4, <1>5, <1>6, <1>7, MoveInv

\* The two statements of a reversal move on without changing what others see.
LEMMA ReversalMoves ==
  ASSUME IInv, NEW s \in Sessions, StampOriginal(s) \/ InsertReversal(s)
  PROVE  IInv'
<1>1. PICK from \in {"writing", "stamped"}, to \in {"stamped", "inserted"} :
        Goto(s, from, to)
  BY DEF StampOriginal, InsertReversal
<1>2. UNCHANGED <<book, lock, req, seen, answer>>
  BY DEF StampOriginal, InsertReversal
<1>3. Busy(s) /\ Holds(s) /\ pc[s] # "checking"
  BY <1>1 DEF Goto, Busy, Holds
<1>4. req[s].kind = "reverse"
  BY <1>3, HolderFacts DEF StampOriginal, InsertReversal, Goto, ValidRequest
<1>5. TypeOK'
  BY <1>1, <1>2 DEF IInv, TypeOK, Goto
<1>6. \A t \in Sessions : Holds(t) => lock'[req[t].contact] = t
  BY <1>2 DEF IInv, LocksHeld
<1>7. /\ seen'[s] = Balance(book[req[s].contact])
      /\ ~HasReversal(book[req[s].contact], req[s].target)
  BY <1>1, <1>2, <1>3, <1>4 DEF IInv, SeenFresh, TargetOpen, Goto
<1>8. ~IsOfferTrade(req[s])
  BY <1>4 DEF IsOfferTrade
<1>9. from # "idle"
  OBVIOUS
<1>10. QED
  BY <1>1, <1>2, <1>3, <1>4, <1>5, <1>6, <1>7, <1>8, MoveInv

-----------------------------------------------------------------------------
(* The step that writes: COMMIT *)

\* What s commits: its log grown by a row that continues the balance it read,
\* with its target stamped when it is a reversal.
Stamped(s) == IF req[s].kind = "reverse" THEN req[s].target ELSE 0

LEMMA CommitGrows ==
  ASSUME IInv, NEW s \in Sessions, pc[s] = "inserted"
  PROVE  LET old == book[req[s].contact] IN
         /\ NewRow(s) \in Entry
         /\ NewLog(s) \in Seq(Entry)
         /\ NewRow(s).after = Balance(old) + NewRow(s).delta
         /\ Grown(old, NewLog(s), NewRow(s), Stamped(s))
         /\ Paired(NewLog(s))
<1> DEFINE r == req[s]
           old == book[r.contact]
<1>1. /\ r \in Request /\ old \in Seq(Entry) /\ ValidRequest(s) /\ r.contact \in Contacts
      /\ Holds(s) /\ seen[s] = Balance(old)
  BY HolderFacts DEF Busy, Holds, IInv, SeenFresh
<1>2. Balance(old) \in Int /\ Paired(old)
  BY <1>1, BalanceInt DEF IInv, ReversalPaired
<1>3. CASE r.kind = "reverse"
  <2> DEFINE k == r.target
             row == ReversalRow(seen[s], old, k, r.day)
  <2>1. /\ k \in DOMAIN old /\ old[k].type # "reversal" /\ ~HasReversal(old, k)
        /\ NewRow(s) = row /\ NewLog(s) = WithReversal(old, k, row) /\ Stamped(s) = k
    BY <1>1, <1>3 DEF ValidRequest, IInv, TargetOpen, NewRow, NewLog, Stamped
  <2>2. old[k] \in Entry /\ k \in Nat
    BY <1>1, <2>1
  <2>3. row \in Entry /\ row.after = Balance(old) + row.delta
    <3>1. row = [type |-> "reversal", amount |-> old[k].amount, delta |-> -old[k].delta,
                 after |-> Balance(old) - old[k].delta, offer |-> NoOffer, day |-> r.day,
                 reverses |-> k, reversed |-> FALSE]
      BY <1>1 DEF ReversalRow
    <3>2. old[k].amount \in Int /\ old[k].delta \in Int /\ r.day \in Int
      BY <1>1, <2>2 DEF Entry, Request
    <3> HIDE DEF row
    <3>3. row \in Entry
      <4>1. Balance(old) - old[k].delta \in Int /\ -old[k].delta \in Int
        BY <1>2, <3>2
      <4> HIDE DEF k
      <4>2. QED
        BY <2>2, <3>1, <3>2, <4>1 DEF Entry
    <3>4. row.after = Balance(old) + row.delta
      BY <1>2, <3>1, <3>2
    <3>5. QED
      BY <3>3, <3>4
  <2>4. Grown(old, WithReversal(old, k, row), row, k)
    BY <1>1, <2>1, <2>3, ReversalGrows
  <2>5. Paired(WithReversal(old, k, row))
    BY <1>1, <1>2, <2>1, <2>4, ReversedPaired
  <2>6. WithReversal(old, k, row) \in Seq(Entry)
    BY <2>4 DEF Grown
  <2>7. QED
    BY <2>1, <2>3, <2>4, <2>5, <2>6
<1>4. CASE r.kind # "reverse"
  <2> DEFINE row == PostedRow(seen[s], r.type, r.amount, r.offer, r.day)
  <2>1. NewRow(s) = row /\ NewLog(s) = Append(old, row) /\ Stamped(s) = 0
    BY <1>4 DEF NewRow, NewLog, Stamped
  <2>2. Direction(r.type) * r.amount \in Int
    BY <1>1 DEF Direction, Request
  <2> DEFINE delta == Direction(r.type) * r.amount
  <2>3. /\ row \in Entry /\ row.after = Balance(old) + row.delta
        /\ row.type # "reversal" /\ row.reverses = 0 /\ ~row.reversed
    <3>1. row = [type |-> r.type, amount |-> r.amount, delta |-> delta,
                 after |-> Balance(old) + delta, offer |-> r.offer, day |-> r.day,
                 reverses |-> 0, reversed |-> FALSE]
      BY <1>1 DEF PostedRow
    <3>2. r.type \in PostTypes /\ r.type # "reversal"
      BY <1>1 DEF Request, PostTypes, DebitTypes, CreditTypes
    <3>3. r.amount \in Int /\ r.offer \in Offers \cup {NoOffer} /\ r.day \in Int /\ delta \in Int
      BY <1>1, <2>2 DEF Request
    <3> HIDE DEF delta, row
    <3>4. row \in Entry
      BY <1>2, <3>1, <3>2, <3>3 DEF Entry
    <3>5. row.after = Balance(old) + row.delta
      BY <1>2, <3>1, <3>3
    <3>6. row.type # "reversal" /\ row.reverses = 0 /\ ~row.reversed
      BY <3>1, <3>2
    <3>7. QED
      BY <3>4, <3>5, <3>6
  <2>4. Grown(old, Append(old, row), row, 0)
    BY <1>1, <2>3, AppendGrows
  <2>5. Paired(Append(old, row))
    BY <1>1, <1>2, <2>3, <2>4, PostedPaired
  <2>6. Append(old, row) \in Seq(Entry)
    BY <1>1, <2>3
  <2>7. QED
    BY <2>1, <2>3, <2>4, <2>5, <2>6
<1>5. QED
  BY <1>3, <1>4

\* The only trade that a commit makes live is the one its session inserted.
LEMMA CommitLive ==
  ASSUME IInv, NEW s \in Sessions, Commit(s), NEW o \in Offers,
         NEW d \in Contacts, NEW j \in DOMAIN book'[d], IsLiveTrade(book'[d][j], o)
  PROVE  \/ j \in DOMAIN book[d] /\ IsLiveTrade(book[d][j], o)
         \/ d = req[s].contact /\ j = Len(book[d]) + 1 /\ HasSlot(s, o)
<1> DEFINE c == req[s].contact
<1>1. pc[s] = "inserted" /\ Busy(s) /\ book' = [book EXCEPT ![c] = NewLog(s)]
  BY DEF Commit, Busy
<1>2. c \in Contacts /\ book \in [Contacts -> Seq(Entry)] /\ ValidRequest(s)
  BY <1>1, HolderFacts DEF IInv, TypeOK
<1>3. CASE d # c
  BY <1>1, <1>2, <1>3
<1>4. CASE d = c
  <2>1. book'[d] = NewLog(s) /\ Grown(book[d], book'[d], NewRow(s), Stamped(s))
    BY <1>1, <1>2, <1>4, CommitGrows
  <2>2. CASE ~IsLiveTrade(NewRow(s), o)
    BY <1>2, <2>1, <2>2, GrownLive
  <2>3. CASE IsLiveTrade(NewRow(s), o)
    <3>1. HasSlot(s, o)
      BY <1>1, <1>2, <2>3, LedgerConstants
         DEF IsLiveTrade, NewRow, ReversalRow, PostedRow, HasSlot, IsOfferTrade, ValidRequest
    <3>2. CASE j \in 1..Len(book[d])
      BY <1>2, <2>1, <3>2, GrownRows DEF IsLiveTrade
    <3>3. CASE j = Len(book[d]) + 1
      BY <1>4, <3>1, <3>3
    <3>4. j \in 1..(Len(book[d]) + 1) /\ Len(book[d]) \in Nat
      BY <1>2, <2>1, GrownRows
    <3>5. QED
      BY <3>2, <3>3, <3>4
  <2>4. QED
    BY <2>2, <2>3
<1>5. QED
  BY <1>3, <1>4

LEMMA CommitInv ==
  ASSUME IInv, NEW s \in Sessions, Commit(s)
  PROVE  IInv'
<1> DEFINE c == req[s].contact
<1>1. /\ pc[s] = "inserted" /\ Busy(s) /\ Holds(s)
      /\ book' = [book EXCEPT ![c] = NewLog(s)] /\ End(s, req[s].offer)
  BY DEF Commit, Busy, Holds
<1>2. /\ c \in Contacts /\ book \in [Contacts -> Seq(Entry)] /\ lock[c] = s
      /\ Owner[c] = Works[s]
  BY <1>1, HolderFacts DEF IInv, TypeOK
<1>3. /\ NewRow(s) \in Entry /\ NewLog(s) \in Seq(Entry)
      /\ NewRow(s).after = Balance(book[c]) + NewRow(s).delta
      /\ Grown(book[c], NewLog(s), NewRow(s), Stamped(s))
      /\ Paired(NewLog(s))
  BY <1>1, CommitGrows
<1>4. book'[c] = NewLog(s) /\ \A d \in Contacts : d # c => book'[d] = book[d]
  BY <1>1, <1>2
<1>5. TypeOK'
  BY <1>1, <1>2, <1>3, HolderFacts DEF IInv, TypeOK, End
<1>6. /\ pc'[s] = "idle"
      /\ \A t \in Sessions : t # s => pc'[t] = pc[t] /\ req'[t] = req[t] /\ seen'[t] = seen[t]
  BY <1>1 DEF End, IInv, TypeOK
\* The other sessions past their SELECT ... FOR UPDATE are on other contacts.
<1>7. ASSUME NEW t \in Sessions, t # s, Holds(t)
      PROVE  /\ req[t].contact \in Contacts /\ req[t].contact # c
             /\ lock[req[t].contact] = t /\ Busy(t)
  BY <1>2, <1>7, HolderFacts DEF Holds, Busy
<1>8. RequestsValid'
  <2> SUFFICES ASSUME NEW t \in Sessions, t # s, Busy(t)
               PROVE  ValidRequest(t)'
    BY <1>6 DEF RequestsValid, Busy
  <2>1. pc'[t] = pc[t] /\ req'[t] = req[t] /\ ValidRequest(t) /\ req[t].contact \in Contacts
    BY <1>6, HolderFacts
  <2>2. CASE req[t].contact # c
    BY <1>4, <2>1, <2>2 DEF ValidRequest
  <2>3. CASE req[t].contact = c
    <3> DEFINE old == book[c]
               new == book'[c]
    <3>1. old \in Seq(Entry) /\ Grown(old, new, NewRow(s), Stamped(s))
      BY <1>2, <1>3, <1>4
    <3> HIDE DEF old, new
    <3>2. \A k \in DOMAIN old : k \in DOMAIN new /\ new[k].type = old[k].type
      BY <3>1, GrownRows
    <3>3. QED
      BY <2>1, <2>3, <3>2 DEF ValidRequest, old, new
  <2>4. QED
    BY <2>2, <2>3
<1>9. LocksHeld'
  <2> SUFFICES ASSUME NEW t \in Sessions, t # s, Holds(t)
               PROVE  lock'[req[t].contact] = t
    BY <1>6 DEF LocksHeld, Holds
  <2>1. QED
    BY <1>1, <1>7 DEF End
<1>10. SeenFresh'
  BY <1>4, <1>6, <1>7 DEF IInv, SeenFresh, Holds
<1>11. TargetOpen'
  BY <1>4, <1>6, <1>7 DEF IInv, TargetOpen, Holds
<1>12. SlotFree'
  <2> SUFFICES ASSUME NEW t \in Sessions, NEW o \in Offers, HasSlot(t, o)'
               PROVE  /\ ~TradeRecorded(book', Works[t], o)
                      /\ \A u \in Sessions : HasSlot(u, o)' /\ Works[u] = Works[t] => u = t
    BY DEF SlotFree
  <2>1. t # s /\ HasSlot(t, o)
    BY <1>6 DEF HasSlot
  <2>2. /\ ~TradeRecorded(book, Works[t], o)
        /\ \A u \in Sessions : HasSlot(u, o) /\ Works[u] = Works[t] => u = t
    BY <2>1 DEF IInv, SlotFree
  <2>3. \A u \in Sessions : HasSlot(u, o)' => HasSlot(u, o)
    BY <1>6 DEF HasSlot
  <2>4. ~TradeRecorded(book', Works[t], o)
    <3> SUFFICES ASSUME NEW d \in Contacts, Owner[d] = Works[t],
                        NEW j \in DOMAIN book'[d], IsLiveTrade(book'[d][j], o)
                 PROVE  FALSE
      BY DEF TradeRecorded
    <3>1. CASE j \in DOMAIN book[d] /\ IsLiveTrade(book[d][j], o)
      BY <2>2, <3>1 DEF TradeRecorded
    <3>2. CASE d = c /\ HasSlot(s, o)
      BY <1>2, <2>1, <2>2, <3>2
    <3>3. QED
      BY <3>1, <3>2, CommitLive
  <2>5. QED
    BY <2>2, <2>3, <2>4
<1>13. RunningBalance'
  <2>1. Running(book[c])
    BY <1>2 DEF IInv, RunningBalance
  <2>2. Running(NewLog(s))
    BY <1>2, <1>3, <2>1, GrownRunning
  <2>3. QED
    BY <1>4, <2>2 DEF IInv, RunningBalance
<1>14. OneLiveTrade'
  <2> SUFFICES ASSUME NEW o \in Offers, NEW d \in Contacts, NEW e \in Contacts,
                      Owner[d] = Owner[e],
                      NEW i \in DOMAIN book'[d], NEW j \in DOMAIN book'[e],
                      IsLiveTrade(book'[d][i], o), IsLiveTrade(book'[e][j], o)
               PROVE  d = e /\ i = j
    BY DEF OneLiveTrade
  <2> DEFINE Old(x, k) == k \in DOMAIN book[x] /\ IsLiveTrade(book[x][k], o)
             New(x, k) == x = c /\ k = Len(book[x]) + 1 /\ HasSlot(s, o)
  <2>1. (Old(d, i) \/ New(d, i)) /\ (Old(e, j) \/ New(e, j))
    BY CommitLive
  <2>2. ASSUME HasSlot(s, o), NEW x \in Contacts, Owner[x] = Works[s], NEW k
        PROVE  ~Old(x, k)
    BY <2>2 DEF IInv, SlotFree, TradeRecorded
  <2>3. CASE Old(d, i) /\ Old(e, j)
    BY <2>3 DEF IInv, OneLiveTrade
  <2>4. CASE New(d, i) \/ New(e, j)
    BY <1>2, <2>1, <2>2, <2>4
  <2>5. QED
    BY <2>1, <2>3, <2>4
<1>15. ReversalPaired'
  BY <1>3, <1>4 DEF IInv, ReversalPaired
<1>16. QED
  BY <1>5, <1>8, <1>9, <1>10, <1>11, <1>12, <1>13, <1>14, <1>15 DEF IInv

-----------------------------------------------------------------------------
(* Theorems *)

LEMMA NextInv == IInv /\ [Next]_vars => IInv'
<1> SUFFICES ASSUME IInv, [Next]_vars
             PROVE  IInv'
  OBVIOUS
<1>1. CASE UNCHANGED vars
  BY <1>1 DEF vars, IInv, TypeOK, RequestsValid, Busy, ValidRequest, LocksHeld, Holds,
              SeenFresh, TargetOpen, SlotFree, HasSlot, RunningBalance, OneLiveTrade,
              ReversalPaired
<1>2. ASSUME NEW s \in Sessions, Proceed(s)
      PROVE  IInv'
  BY <1>2, ReadBalanceInv, ReversalMoves, CommitInv DEF Proceed
<1>3. QED
  BY <1>1, <1>2, AnswerInv, ArriveInv, LockContactInv, CheckInv, InsertInv, AbortInv DEF Next

\* The invariant holds in every reachable state.
THEOREM LedgerInvariant == Spec => []IInv
BY InitInv, NextInv, PTL DEF Spec

\* Every variable keeps its type.
THEOREM LedgerTypes == Spec => []TypeOK
<1>1. IInv => TypeOK
  BY DEF IInv
<1>2. QED
  BY <1>1, LedgerInvariant, PTL

\* balance_after is the running balance of every contact, however many requests
\* post to it at once.
THEOREM BalancesRun == Spec => []RunningBalance
<1>1. IInv => RunningBalance
  BY DEF IInv
<1>2. QED
  BY <1>1, LedgerInvariant, PTL

\* No accepted offer is ever live twice in the ledger of one business.
THEOREM TradesAreSingle == Spec => []OneLiveTrade
<1>1. IInv => OneLiveTrade
  BY DEF IInv
<1>2. QED
  BY <1>1, LedgerInvariant, PTL

\* Stamps and reversals come in pairs, at most one pair for a row.
THEOREM ReversalsArePaired == Spec => []ReversalPaired
<1>1. IInv => ReversalPaired
  BY DEF IInv
<1>2. QED
  BY <1>1, LedgerInvariant, PTL

\* The committed books change only by a commit, that appends one row to one log.
LEMMA BooksGrow ==
  ASSUME IInv, [Next]_vars
  PROVE  \/ UNCHANGED book
         \/ \E s \in Sessions : Commit(s)
BY DEF vars, Next, Answer, AnswerRecorded, Arrive, BeginPost, BeginTrade, BeginReverse,
       Begin, LockContact, Check, FindDuplicate, FindReversal, FindNothing, Insert, InsertEntry, InsertConflicts,
       Proceed, ReadBalance, StampOriginal, InsertReversal, Abort

\* No request, finished or rolled back, edits or deletes a posted row.
THEOREM EntriesStay == Spec => EntriesImmutable
<1>1. ASSUME IInv, [Next]_vars
      PROVE  [\A c \in Contacts : Immutable(book[c], book'[c])]_book
  <2> SUFFICES ASSUME NEW s \in Sessions, Commit(s), NEW c \in Contacts
               PROVE  Immutable(book[c], book'[c])
    BY <1>1, BooksGrow
  <2> DEFINE d == req[s].contact
  <2>1. pc[s] = "inserted" /\ Busy(s) /\ book' = [book EXCEPT ![d] = NewLog(s)]
    BY DEF Commit, Busy
  <2>2. d \in Contacts /\ book \in [Contacts -> Seq(Entry)]
    BY <1>1, <2>1, HolderFacts DEF IInv, TypeOK
  <2>3. CASE c = d
    <3>1. Grown(book[c], book'[c], NewRow(s), Stamped(s))
      BY <1>1, <2>1, <2>2, <2>3, CommitGrows
    <3>2. QED
      BY <2>2, <3>1, GrownImmutable
  <2>4. CASE c # d
    BY <2>1, <2>2, <2>4 DEF Immutable
  <2>5. QED
    BY <2>3, <2>4
<1>2. QED
  BY <1>1, LedgerInvariant, PTL DEF Spec, EntriesImmutable

\* A trade on the books stays there: its row is not edited, and a stamp comes with the
\* reversal.
LEMMA BooksKeepTrades ==
  ASSUME IInv, [Next]_vars, IInv', NEW b, NEW o, OnTheBooks(b, o)
  PROVE  OnTheBooks(b, o)'
<1> PICK c \in Contacts : /\ Owner[c] = b
                          /\ \E k \in DOMAIN book[c] :
                               /\ book[c][k].type \in TradeTypes
                               /\ book[c][k].offer = o
  BY DEF OnTheBooks
<1>1. PICK k \in DOMAIN book[c] : book[c][k].type \in TradeTypes /\ book[c][k].offer = o
  OBVIOUS
<1>2. k \in DOMAIN book'[c] /\ book'[c][k].type \in TradeTypes /\ book'[c][k].offer = o
  <2>1. CASE UNCHANGED book
    BY <1>1, <2>1
  <2>2. ASSUME NEW s \in Sessions, Commit(s)
        PROVE  k \in DOMAIN book'[c] /\ book'[c][k].type = book[c][k].type
                                     /\ book'[c][k].offer = book[c][k].offer
    <3> DEFINE d == req[s].contact
    <3>1. pc[s] = "inserted" /\ Busy(s) /\ book' = [book EXCEPT ![d] = NewLog(s)]
      BY <2>2 DEF Commit, Busy
    <3>2. d \in Contacts /\ book \in [Contacts -> Seq(Entry)]
      BY <3>1, HolderFacts DEF IInv, TypeOK
    <3>3. CASE c = d
      <4>1. Grown(book[c], book'[c], NewRow(s), Stamped(s))
        BY <3>1, <3>2, <3>3, CommitGrows
      <4>2. QED
        BY <3>2, <4>1, GrownRows
    <3>4. CASE c # d
      BY <3>1, <3>2, <3>4
    <3>5. QED
      BY <3>3, <3>4
  <2>3. QED
    BY <1>1, <2>1, <2>2, BooksGrow
<1>3. book'[c][k].reversed => HasReversal(book'[c], k)
  BY <1>2 DEF IInv, ReversalPaired, Paired
<1>4. QED
  BY <1>2, <1>3 DEF OnTheBooks

\* A live trade is on the books.
LEMMA RecordedOnBooks ==
  ASSUME NEW b, NEW o, TradeRecorded(book, b, o)
  PROVE  OnTheBooks(b, o)
BY DEF TradeRecorded, IsLiveTrade, OnTheBooks

\* A committed trade is on the books.
LEMMA CommitOnBooks ==
  ASSUME IInv, NEW s \in Sessions, Commit(s), NEW o, o # NoOffer, req[s].offer = o
  PROVE  OnTheBooks(Works[s], o)'
<1> DEFINE r == req[s]
           c == r.contact
           n == Len(book[c]) + 1
<1>1. /\ pc[s] = "inserted" /\ Busy(s) /\ book' = [book EXCEPT ![c] = NewLog(s)]
  BY DEF Commit, Busy
<1>2. /\ c \in Contacts /\ book \in [Contacts -> Seq(Entry)] /\ Owner[c] = Works[s]
      /\ r.kind = "trade" /\ r.type \in TradeTypes
  BY <1>1, HolderFacts DEF IInv, TypeOK, ValidRequest
<1>3. book'[c] = NewLog(s) /\ Grown(book[c], NewLog(s), NewRow(s), Stamped(s))
  BY <1>1, <1>2, CommitGrows
<1>4. n \in DOMAIN book'[c] /\ book'[c][n] = NewRow(s)
  BY <1>2, <1>3, GrownRows
<1>5. NewRow(s).type = r.type /\ NewRow(s).offer = o /\ ~NewRow(s).reversed
  BY <1>2 DEF NewRow, PostedRow
<1> HIDE DEF n
<1>6. QED
  BY <1>2, <1>4, <1>5 DEF OnTheBooks

\* Whoever is told that the trade of an offer is on the books finds it there ever after.
THEOREM AnswersStand == Spec => []NoTradeDropped
<1>1. Init => NoTradeDropped
  BY DEF Init, NoTradeDropped
<1>2. ASSUME IInv, IInv', NoTradeDropped, [Next]_vars
      PROVE  NoTradeDropped'
  <2> SUFFICES ASSUME NEW s \in Sessions, NEW o, answer'[s] = o, o # NoOffer
               PROVE  OnTheBooks(Works[s], o)'
    BY DEF NoTradeDropped
  <2>1. answer \in [Sessions -> Offers \cup {NoOffer}]
    BY <1>2 DEF IInv, TypeOK
  <2>2. CASE o = answer[s]
    BY <1>2, <2>2, BooksKeepTrades DEF NoTradeDropped
  <2>3. CASE Commit(s)
    <3>1. req[s].offer = o
      BY <2>1, <2>3 DEF Commit, End
    <3>2. QED
      BY <1>2, <2>3, <3>1, CommitOnBooks
  <2>4. CASE TradeRecorded(book, Works[s], o)
    BY <1>2, <2>4, RecordedOnBooks, BooksKeepTrades
  <2>5. ASSUME NEW t \in Sessions,
               \/ Answer(t) \/ Arrive(t) \/ LockContact(t)
               \/ Check(t) \/ Insert(t) \/ Proceed(t) \/ Abort(t)
        PROVE  \/ o = answer[s]
               \/ Commit(s)
               \/ TradeRecorded(book, Works[s], o)
    <3>1. CASE Answer(t)
      BY <2>1, <2>5, <3>1 DEF Answer, AnswerRecorded
    <3>2. CASE Arrive(t) \/ LockContact(t)
      BY <2>1, <2>5, <3>2
         DEF Arrive, BeginPost, BeginTrade, BeginReverse, Begin, LockContact
    <3>3. CASE Check(t) \/ Insert(t)
      BY <2>1, <2>5, <3>3
         DEF Check, FindDuplicate, FindReversal, FindNothing, Insert, InsertEntry,
             InsertConflicts, End
    <3>4. CASE Proceed(t) \/ Abort(t)
      BY <2>1, <2>5, <3>4
         DEF Proceed, ReadBalance, StampOriginal, InsertReversal, Commit, Abort, End
    <3>5. QED
      BY <2>5, <3>1, <3>2, <3>3, <3>4
  <2>6. QED
    BY <1>2, <2>2, <2>3, <2>4, <2>5 DEF Next, vars
<1>3. QED
  BY <1>1, <1>2, LedgerInvariant, PTL DEF Spec

-----------------------------------------------------------------------------
(* Waits *)

\* A contact is locked by a session that has locked it and has not ended.
LocksOwned ==
  \A c \in Contacts :
    lock[c] # NoSession => Holds(lock[c]) /\ req[lock[c]].contact = c

\* A request arrives or moves on and no lock changes hands, or it takes the free lock of
\* its contact, or it ends.
LEMMA LockSteps ==
  ASSUME NEW s \in Sessions,
         \/ Answer(s) \/ Arrive(s) \/ LockContact(s)
         \/ Check(s) \/ Insert(s) \/ Proceed(s) \/ Abort(s)
  PROVE  \/ /\ pc[s] = "idle"
            /\ UNCHANGED lock
            /\ \E to, r : pc' = [pc EXCEPT ![s] = to] /\ req' = [req EXCEPT ![s] = r]
         \/ LockContact(s)
         \/ \E reply : End(s, reply)
         \/ UNCHANGED <<lock, req, pc>>
         \/ /\ UNCHANGED <<lock, req>>
            /\ \E to \in {"reading", "writing", "stamped", "inserted"} :
                 pc' = [pc EXCEPT ![s] = to]
<1>1. CASE Arrive(s)
  BY <1>1 DEF Arrive, BeginPost, BeginTrade, BeginReverse, Begin, Goto
<1>2. CASE Check(s)
  BY <1>2 DEF Check, FindDuplicate, FindReversal, FindNothing, Goto
<1>3. CASE Insert(s)
  BY <1>3 DEF Insert, InsertEntry, InsertConflicts, Goto
<1>4. CASE Proceed(s)
  BY <1>4 DEF Proceed, ReadBalance, StampOriginal, InsertReversal, Commit, Goto
<1>5. CASE Abort(s)
  BY <1>5 DEF Abort
<1>6. CASE Answer(s)
  BY <1>6 DEF Answer, AnswerRecorded
<1>. QED
  BY <1>1, <1>2, <1>3, <1>4, <1>5, <1>6

\* A lock stays with the session that took it until that session ends.
LEMMA LocksOwnedNext ==
  ASSUME TypeOK, LocksOwned, [Next]_vars
  PROVE  LocksOwned'
<1> SUFFICES ASSUME NEW c \in Contacts, lock'[c] # NoSession
             PROVE  Holds(lock[c])' /\ req'[lock'[c]].contact = c
  BY DEF LocksOwned
<1>1. CASE UNCHANGED vars
  BY <1>1 DEF vars, LocksOwned, Holds
<1>2. ASSUME NEW s \in Sessions,
             \/ Answer(s) \/ Arrive(s) \/ LockContact(s)
             \/ Check(s) \/ Insert(s) \/ Proceed(s) \/ Abort(s)
      PROVE  Holds(lock[c])' /\ req'[lock'[c]].contact = c
  <2>1. /\ lock \in [Contacts -> Sessions \cup {NoSession}]
        /\ pc \in [Sessions -> {"idle", "locking", "checking", "reading",
                                "writing", "stamped", "inserted"}]
        /\ req \in [Sessions -> Request \cup {NoRequest}]
    BY DEF TypeOK
  <2>2. CASE /\ pc[s] = "idle"
             /\ UNCHANGED lock
             /\ \E to, r : pc' = [pc EXCEPT ![s] = to] /\ req' = [req EXCEPT ![s] = r]
    <3>1. lock[c] \in Sessions /\ Holds(lock[c]) /\ req[lock[c]].contact = c
      BY <2>1, <2>2 DEF LocksOwned
    <3>2. lock[c] # s
      BY <2>2, <3>1 DEF Holds
    <3>. QED BY <2>1, <2>2, <3>1, <3>2 DEF Holds
  <2>3. CASE LockContact(s)
    <3>1. /\ lock' = [lock EXCEPT ![req[s].contact] = s]
          /\ req' = req
          /\ \E to \in {"reading", "checking"} : pc' = [pc EXCEPT ![s] = to]
      BY <2>3 DEF LockContact, Goto
    <3>2. pc'[s] \in {"reading", "checking"}
      BY <2>1, <3>1
    <3>3. CASE req[s].contact = c
      <4>1. lock'[c] = s
        BY <2>1, <3>1, <3>3
      <4>. QED BY <3>1, <3>2, <3>3, <4>1 DEF Holds
    <3>4. CASE req[s].contact # c
      <4>1. lock'[c] = lock[c]
        BY <2>1, <3>1, <3>4
      <4>2. lock[c] \in Sessions /\ Holds(lock[c]) /\ req[lock[c]].contact = c
        BY <2>1, <4>1 DEF LocksOwned
      <4>. QED BY <2>1, <3>1, <3>2, <4>1, <4>2 DEF Holds
    <3>. QED BY <3>3, <3>4
  <2>4. ASSUME NEW reply, End(s, reply)
        PROVE  Holds(lock[c])' /\ req'[lock'[c]].contact = c
    <3>1. /\ lock'[c] = IF lock[c] = s THEN NoSession ELSE lock[c]
          /\ pc' = [pc EXCEPT ![s] = "idle"]
          /\ req' = [req EXCEPT ![s] = NoRequest]
      BY <2>4 DEF End
    <3>2. lock'[c] = lock[c] /\ lock[c] # s
      BY <3>1
    <3>3. lock[c] \in Sessions /\ Holds(lock[c]) /\ req[lock[c]].contact = c
      BY <2>1, <3>2 DEF LocksOwned
    <3>. QED BY <2>1, <3>1, <3>2, <3>3 DEF Holds
  <2>5. ASSUME UNCHANGED <<lock, req>>,
               NEW to \in {"reading", "writing", "stamped", "inserted"},
               pc' = [pc EXCEPT ![s] = to]
        PROVE  Holds(lock[c])' /\ req'[lock'[c]].contact = c
    <3>1. lock[c] \in Sessions /\ Holds(lock[c]) /\ req[lock[c]].contact = c
      BY <2>1, <2>5 DEF LocksOwned
    <3>. QED BY <2>1, <2>5, <3>1 DEF Holds
  <2>6. CASE UNCHANGED <<lock, req, pc>>
    BY <2>6 DEF LocksOwned, Holds
  <2>. QED BY <1>2, <2>2, <2>3, <2>4, <2>5, <2>6, LockSteps
<1>. QED
  BY <1>1, <1>2 DEF Next

\* Whoever waits for a lock waits for a session that has one, and whoever has one waits
\* only for sessions that wait for nobody: two waits in a row at most.
LEMMA WaitsAreShort ==
  ASSUME IInv, LocksOwned, NEW s \in Sessions, NEW t \in WaitsFor(s)
  PROVE  /\ t \in Sessions
         /\ pc[t] # "locking"
         /\ pc[s] # "locking" => WaitsFor(t) = {}
<1>1. /\ t \in Sessions
      /\ \/ pc[s] = "locking" /\ lock[req[s].contact] = t
         \/ pc[s] = "writing" /\ Contests(t, Works[s], req[s].offer)
  BY DEF WaitsFor
<1>2. CASE pc[s] = "locking" /\ lock[req[s].contact] = t
  <2>1. req[s].contact \in Contacts
    BY <1>2, HolderFacts DEF Busy
  <2>2. Holds(t)
    BY <1>1, <1>2, <2>1, SessionConstants DEF LocksOwned
  <2>. QED BY <1>1, <1>2, <2>2 DEF Holds
<1>3. CASE pc[s] = "writing" /\ Contests(t, Works[s], req[s].offer)
  <2>1. pc[t] \in {"stamped", "inserted"}
    BY <1>3 DEF Contests
  <2>2. WaitsFor(t) = {}
    BY <2>1 DEF WaitsFor
  <2>. QED BY <1>1, <2>1, <2>2
<1>. QED
  BY <1>1, <1>2, <1>3

\* Requests never wait for each other, neither two nor any number of them.
THEOREM WaitsEnd == Spec => []NoCircularWait
<1>1. Init => LocksOwned
  BY DEF Init, LocksOwned
<1>2. IInv /\ LocksOwned /\ [Next]_vars => LocksOwned'
  BY LocksOwnedNext DEF IInv
<1>3. ASSUME IInv, LocksOwned
      PROVE  NoCircularWait
  <2> SUFFICES ASSUME NEW D \in SUBSET Sessions, NEW r \in D,
                      \A s \in D : WaitsFor(s) \cap D # {}
               PROVE  FALSE
    BY DEF NoCircularWait
  <2>1. PICK s \in D : s \in WaitsFor(r)
    OBVIOUS
  <2>2. PICK t \in D : t \in WaitsFor(s)
    OBVIOUS
  <2>3. pc[s] # "locking"
    BY <1>3, <2>1, WaitsAreShort
  <2>4. WaitsFor(t) = {}
    BY <1>3, <2>2, <2>3, WaitsAreShort
  <2>. QED BY <2>4
<1>. QED
  BY <1>1, <1>2, <1>3, LedgerInvariant, PTL DEF Spec

-----------------------------------------------------------------------------
(* Refinement *)

\* The operators of the abstract book are those of the ledger.
LEMMA SameRows ==
  /\ \A log : Abstract!Balance(log) = Balance(log)
  /\ \A p, type, amount, o, day :
       Abstract!PostedRow(p, type, amount, o, day) = PostedRow(p, type, amount, o, day)
  /\ \A p, log, k, day : Abstract!ReversalRow(p, log, k, day) = ReversalRow(p, log, k, day)
  /\ \A log, k, row : Abstract!WithReversal(log, k, row) = WithReversal(log, k, row)
  /\ \A log, k : Abstract!HasReversal(log, k) <=> HasReversal(log, k)
  /\ \A b, o : Abstract!TradeRecorded(book, b, o) <=> TradeRecorded(book, b, o)
  /\ Abstract!TradeTypes = TradeTypes /\ Abstract!PostTypes = PostTypes
<1>1. Abstract!DebitTypes = DebitTypes /\ Abstract!CreditTypes = CreditTypes
  BY DEF DebitTypes, CreditTypes, Abstract!DebitTypes, Abstract!CreditTypes
<1>2. \A type : Abstract!Direction(type) = Direction(type)
  BY <1>1 DEF Direction, Abstract!Direction
<1>3. QED
  BY <1>1, <1>2
     DEF Balance, PostedRow, ReversalRow, WithReversal, HasReversal, TradeRecorded,
         IsLiveTrade, TradeTypes, PostTypes, Abstract!Balance, Abstract!PostedRow,
         Abstract!ReversalRow, Abstract!WithReversal, Abstract!HasReversal,
         Abstract!TradeRecorded, Abstract!IsLiveTrade, Abstract!TradeTypes,
         Abstract!PostTypes

\* A commit is one step of the abstract book on the contact of its request.
LEMMA CommitRefines ==
  ASSUME IInv, NEW s \in Sessions, Commit(s)
  PROVE  Abstract!BookNext
<1> DEFINE r == req[s]
           c == r.contact
           old == book[c]
<1>1. /\ pc[s] = "inserted" /\ Busy(s) /\ Holds(s)
      /\ book' = [book EXCEPT ![c] = NewLog(s)]
  BY DEF Commit, Busy, Holds
<1>2. /\ c \in Contacts /\ r \in Request /\ ValidRequest(s) /\ seen[s] = Balance(old)
      /\ Owner[c] = Works[s]
  BY <1>1, HolderFacts DEF IInv, SeenFresh
<1>3. r.day \in Days
  BY <1>2 DEF ValidRequest
<1> SUFFICES Abstract!BookStep(c)
  BY <1>2 DEF Abstract!BookNext
<1>4. CASE r.kind = "reverse"
  <2> DEFINE k == r.target
  <2>1. /\ k \in DOMAIN old /\ old[k].type # "reversal" /\ ~HasReversal(old, k)
    BY <1>1, <1>2, <1>4 DEF ValidRequest, IInv, TargetOpen
  <2>2. NewLog(s) = WithReversal(old, k, ReversalRow(Balance(old), old, k, r.day))
    BY <1>2, <1>4 DEF NewLog, NewRow
  <2>3. Abstract!ReverseRow(c, k, r.day)
    BY <1>1, <2>1, <2>2, SameRows DEF Abstract!ReverseRow
  <2>4. QED
    BY <1>3, <2>1, <2>3 DEF Abstract!BookStep
<1>5. CASE r.kind # "reverse"
  <2> DEFINE row == PostedRow(Balance(old), r.type, r.amount, r.offer, r.day)
  <2>1. NewLog(s) = Append(old, row)
    BY <1>2, <1>5 DEF NewLog, NewRow
  <2>2. r.amount \in Amounts /\ r.amount > 0 /\ r.type \in PostTypes
    BY <1>2, <1>5 DEF ValidRequest, Request
  <2>3. CASE r.offer = NoOffer
    <3>1. Abstract!Post(c, r.type, r.amount, r.day)
      BY <1>1, <2>1, <2>2, <2>3, SameRows DEF Abstract!Post
    <3>2. QED
      BY <1>3, <2>2, <3>1, SameRows DEF Abstract!BookStep
  <2>4. CASE r.offer # NoOffer
    <3>1. /\ r.kind = "trade" /\ r.type \in TradeTypes /\ r.offer \in Offers
          /\ Works[s] \in Parties[r.offer]
      BY <1>2, <2>4 DEF ValidRequest, Request
    <3>2. ~TradeRecorded(book, Owner[c], r.offer)
      BY <1>1, <1>2, <2>4, <3>1 DEF IInv, SlotFree, HasSlot, IsOfferTrade
    <3>3. Abstract!RecordTrade(c, r.type, r.amount, r.day, r.offer)
      BY <1>1, <1>2, <2>1, <2>2, <3>1, <3>2, SameRows DEF Abstract!RecordTrade
    <3>4. QED
      BY <1>3, <2>2, <3>1, <3>3, SameRows DEF Abstract!BookStep
  <2>5. QED
    BY <2>3, <2>4
<1>6. QED
  BY <1>4, <1>5

\* The interleaved transactions implement the book of indivisible postings.
THEOREM LedgerImplementsBook == Spec => ImplementsBook
<1>1. Init => Abstract!BookInit
  BY DEF Init, Abstract!BookInit
<1>2. IInv /\ [Next]_vars => [Abstract!BookNext]_book
  BY BooksGrow, CommitRefines
<1>3. QED
  BY <1>1, <1>2, LedgerInvariant, PTL DEF Spec, ImplementsBook, Abstract!BookSpec
===============================================================================
