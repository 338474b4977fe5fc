--------------------------- MODULE AccountingProofs ---------------------------
(***************************************************************************)
(* Proofs about what is read off the books: the statement of a contact, the *)
(* balances, the summaries and the aging, for any contacts, businesses,     *)
(* rows, amounts, days and filters.                                         *)
(*                                                                          *)
(* Everything read is a sum of amounts or a pass over the rows. The first   *)
(* section proves what sums over finite sets obey and how an induction over *)
(* numbers or finite sets runs: the predicate is given as a set.            *)
(***************************************************************************)
EXTENDS Statement, Reports, FiniteSetTheorems, SequenceTheorems, TLAPS

\* Induction over the numbers, for a predicate given as the set of the numbers it
\* holds of.
LEMMA NatSetInduction ==
  ASSUME NEW S, 0 \in S, \A n \in Nat : n \in S => n + 1 \in S
  PROVE  \A n \in Nat : n \in S
<1> DEFINE R == OpToRel(<, Nat)
           T == {n \in Nat : n \notin S}
<1>1. IsWellFoundedOn(R, Nat)
  BY NatLessThanWellFounded
<1>2. SUFFICES ASSUME T # {} PROVE FALSE
  OBVIOUS
<1> HIDE DEF R
<1>3. T \subseteq Nat
  OBVIOUS
<1>4. PICK x \in T : \A y \in T : ~ (<<y, x>> \in R)
  BY <1>1, <1>2, <1>3, WFMin
<1>5. \A y \in Nat : y < x => <<y, x>> \in R
  BY DEF R, OpToRel
<1>6. x \in Nat /\ x # 0 /\ x - 1 \in Nat /\ x - 1 < x
  BY SMT
<1>7. x - 1 \notin T
  BY <1>4, <1>5, <1>6
<1>. QED
  BY <1>6, <1>7

\* f[n] is what n rounds make of v0.
IsIteration(f, N, V, v0, round) ==
  /\ f \in [0..N -> V]
  /\ f[0] = v0
  /\ \A n \in 1..N : f[n] = round[n][f[n-1]]

\* A value can be put through any number of rounds: recursion over the numbers has
\* a solution.
LEMMA Iterates ==
  ASSUME NEW N \in Nat, NEW V, NEW v0 \in V, NEW round \in [1..N -> [V -> V]]
  PROVE  \E f : IsIteration(f, N, V, v0, round)
<1> DEFINE Reached(k, f) == IsIteration(f, k, V, v0, round)
           S == {k \in Nat : k <= N => \E f \in [0..k -> V] : Reached(k, f)}
<1>1. 0 \in S
  <2>1. Reached(0, [n \in 0..0 |-> v0])
    BY DEF IsIteration
  <2>. QED BY <2>1
<1>2. ASSUME NEW k \in Nat, k \in S
      PROVE  k + 1 \in S
  <2> SUFFICES ASSUME k + 1 <= N
               PROVE  \E f \in [0..(k+1) -> V] : Reached(k + 1, f)
    OBVIOUS
  <2> USE DEF IsIteration
  <2>1. PICK f \in [0..k -> V] : Reached(k, f)
    BY <1>2
  <2> DEFINE g == [n \in 0..(k+1) |-> IF n <= k THEN f[n] ELSE round[k+1][f[k]]]
  <2>2. round[k+1] \in [V -> V] /\ f[k] \in V
    BY <2>1
  <2>3. g \in [0..(k+1) -> V]
    BY <2>1, <2>2
  <2>4. g[0] = v0
    BY <2>1
  <2>5. ASSUME NEW n \in 1..(k+1) PROVE g[n] = round[n][g[n-1]]
    <3>1. CASE n <= k
      BY <3>1, <2>1
    <3>2. CASE n = k + 1
      BY <3>2
    <3>. QED BY <3>1, <3>2
  <2>. QED BY <2>3, <2>4, <2>5
<1> HIDE DEF S
<1>3. N \in S
  BY <1>1, <1>2, NatSetInduction
<1>. QED
  BY <1>3 DEF S

\* The element a sum takes next.
Pick(s) == CHOOSE x \in s : TRUE

\* g gives the sum of f over every subset of S, one picked element at a time.
IsSummation(g, f, S) ==
  g = [s \in SUBSET S |-> IF s = {} THEN 0 ELSE f[Pick(s)] + g[s \ {Pick(s)}]]

\* The element picked is one of the set.
LEMMA PickIn ==
  ASSUME NEW s, s # {}
  PROVE  Pick(s) \in s
BY DEF Pick

\* Integers indexed by a finite set have sums over all its subsets.
LEMMA SummationExists ==
  ASSUME NEW S, IsFiniteSet(S), NEW f, \A x \in S : f[x] \in Int
  PROVE  \E g \in [SUBSET S -> Int] : IsSummation(g, f, S)
<1> DEFINE V == [SUBSET S -> Int]
           N == Cardinality(S)
           Next1(v) == [s \in SUBSET S |-> IF s = {} THEN 0 ELSE f[Pick(s)] + v[s \ {Pick(s)}]]
           zero == [s \in SUBSET S |-> 0]
<1>1. N \in Nat
  BY FS_CardinalityType
<1>2. ASSUME NEW v \in V PROVE Next1(v) \in V
  <2> SUFFICES ASSUME NEW s \in SUBSET S, s # {}
               PROVE  f[Pick(s)] + v[s \ {Pick(s)}] \in Int
    OBVIOUS
  <2>. QED BY PickIn
<1>3. zero \in V
  OBVIOUS
<1> DEFINE round == [n \in 1..N |-> [v \in V |-> Next1(v)]]
<1>4. round \in [1..N -> [V -> V]]
  BY <1>2
<1> HIDE DEF V, N, Next1, zero
<1>5. PICK iter : IsIteration(iter, N, V, zero, round)
  <2> HIDE DEF round
  <2>. QED BY <1>1, <1>3, <1>4, Iterates
<1>6. ASSUME NEW n \in 1..N PROVE iter[n] = Next1(iter[n-1])
  <2>1. n - 1 \in 0..N
    BY <1>1
  <2>2. iter[n-1] \in V
    BY <2>1, <1>5 DEF IsIteration
  <2>3. round[n][iter[n-1]] = Next1(iter[n-1])
    BY <2>2
  <2>. QED BY <2>3, <1>5 DEF IsIteration
<1> HIDE DEF round
\* A set of at most n elements has its sum after n rounds.
<1> DEFINE Fixed(n) == \A s \in SUBSET S : Cardinality(s) <= n => iter[n][s] = Next1(iter[n])[s]
           T == {n \in Nat : n <= N => Fixed(n)}
<1>7. 0 \in T
  <2> SUFFICES ASSUME NEW s \in SUBSET S, Cardinality(s) <= 0
               PROVE  iter[0][s] = Next1(iter[0])[s]
    OBVIOUS
  <2>1. s = {}
    BY FS_Subset, FS_CardinalityType, FS_EmptySet
  <2>. QED BY <2>1, <1>5 DEF Next1, zero, IsIteration
<1>8. ASSUME NEW n \in Nat, n \in T PROVE n + 1 \in T
  <2> SUFFICES ASSUME n + 1 <= N, NEW s \in SUBSET S, Cardinality(s) <= n + 1
               PROVE  iter[n+1][s] = Next1(iter[n+1])[s]
    OBVIOUS
  <2>1. iter[n+1] = Next1(iter[n])
    BY <1>6, <1>1
  <2>2. CASE s = {}
    BY <2>1, <2>2 DEF Next1
  <2>3. CASE s # {}
    <3> DEFINE r == s \ {Pick(s)}
    <3>1. r \in SUBSET S /\ Cardinality(r) <= n
      <4>1. IsFiniteSet(s)
        BY FS_Subset
      <4>2. Cardinality(r) = Cardinality(s) - 1
        BY <4>1, <2>3, PickIn, FS_RemoveElement
      <4>3. Cardinality(s) \in Nat
        BY <4>1, FS_CardinalityType
      <4>. QED BY <4>2, <4>3
    <3>2. iter[n][r] = Next1(iter[n])[r]
      BY <1>8, <3>1, <1>1
    <3>3. iter[n+1][s] = f[Pick(s)] + iter[n][r]
      BY <2>1, <2>3 DEF Next1
    <3>4. Next1(iter[n+1])[s] = f[Pick(s)] + iter[n+1][r]
      BY <2>3 DEF Next1
    <3>. QED BY <3>2, <3>3, <3>4, <2>1
  <2>. QED BY <2>2, <2>3
<1> HIDE DEF T
<1>9. N \in T
  BY <1>1, <1>7, <1>8, NatSetInduction
<1>10. \A s \in SUBSET S : Cardinality(s) <= N
  BY FS_Subset DEF N
<1>11. iter[N] \in V /\ \A s \in SUBSET S : iter[N][s] = Next1(iter[N])[s]
  BY <1>1, <1>5, <1>9, <1>10 DEF T, IsIteration
<1>12. iter[N] = Next1(iter[N])
  BY <1>11 DEF V, Next1
<1>. QED
  BY <1>11, <1>12 DEF V, Next1, IsSummation

\* Induction over a finite set, one element more at a time.
LEMMA FiniteInduction ==
  ASSUME NEW S, IsFiniteSet(S), NEW P, {} \in P,
         \A T \in SUBSET S : \A x \in S \ T : T \in P => T \cup {x} \in P
  PROVE  S \in P
<1> DEFINE N == {n \in Nat : \A T \in SUBSET S : Cardinality(T) = n => T \in P}
<1>1. 0 \in N
  <2> SUFFICES ASSUME NEW T \in SUBSET S, Cardinality(T) = 0
               PROVE  T \in P
    OBVIOUS
  <2>. QED BY FS_Subset, FS_EmptySet
<1>2. ASSUME NEW n \in Nat, n \in N PROVE n + 1 \in N
  <2> SUFFICES ASSUME NEW T \in SUBSET S, Cardinality(T) = n + 1
               PROVE  T \in P
    OBVIOUS
  <2> HIDE DEF N
  <2>1. IsFiniteSet(T)
    BY FS_Subset
  <2>2. PICK x : x \in T
    <3>1. T # {}
      BY <2>1, FS_EmptySet
    <3>. QED BY <3>1
  <2>3. T \ {x} \in SUBSET S /\ x \in S \ (T \ {x}) /\ T = (T \ {x}) \cup {x}
    BY <2>2
  <2>4. Cardinality(T \ {x}) = n
    <3>1. Cardinality(T \ {x}) = Cardinality(T) - 1
      BY <2>1, <2>2, FS_RemoveElement
    <3>. QED BY <3>1
  <2>5. T \ {x} \in P
    BY <1>2, <2>3, <2>4 DEF N
  <2>. QED BY <2>3, <2>5
<1> HIDE DEF N
<1>3. Cardinality(S) \in N
  BY <1>1, <1>2, FS_CardinalityType, NatSetInduction
<1>. QED
  BY <1>3 DEF N

\* The sums over the subsets of T are the same within a larger set.
LEMMA SummationsAgree ==
  ASSUME NEW S, IsFiniteSet(S), NEW T, T \subseteq S, NEW f, NEW g, NEW h,
         IsSummation(g, f, S), IsSummation(h, f, T)
  PROVE  \A s \in SUBSET T : g[s] = h[s]
<1> DEFINE N == {n \in Nat : \A s \in SUBSET T : Cardinality(s) = n => g[s] = h[s]}
<1>1. \A s \in SUBSET T :
        /\ g[s] = IF s = {} THEN 0 ELSE f[Pick(s)] + g[s \ {Pick(s)}]
        /\ h[s] = IF s = {} THEN 0 ELSE f[Pick(s)] + h[s \ {Pick(s)}]
  BY DEF IsSummation
<1>2. 0 \in N
  <2> SUFFICES ASSUME NEW s \in SUBSET T, Cardinality(s) = 0
               PROVE  g[s] = h[s]
    OBVIOUS
  <2>1. s = {}
    BY FS_Subset, FS_EmptySet
  <2>. QED BY <1>1, <2>1
<1>3. ASSUME NEW n \in Nat, n \in N PROVE n + 1 \in N
  <2> SUFFICES ASSUME NEW s \in SUBSET T, Cardinality(s) = n + 1
               PROVE  g[s] = h[s]
    OBVIOUS
  <2> HIDE DEF N
  <2>1. IsFiniteSet(s)
    BY FS_Subset
  <2>2. s # {}
    BY FS_EmptySet
  <2>3. Cardinality(s \ {Pick(s)}) = n /\ s \ {Pick(s)} \in SUBSET T
    <3>1. Cardinality(s \ {Pick(s)}) = Cardinality(s) - 1
      BY <2>1, <2>2, PickIn, FS_RemoveElement
    <3>. QED BY <3>1
  <2>4. g[s \ {Pick(s)}] = h[s \ {Pick(s)}]
    BY <1>3, <2>3 DEF N
  <2>. QED BY <1>1, <2>2, <2>4
<1> HIDE DEF N
<1>4. \A n \in Nat : n \in N
  BY <1>2, <1>3, NatSetInduction
<1>5. \A s \in SUBSET T : Cardinality(s) \in Nat
  BY FS_Subset, FS_CardinalityType
<1>. QED
  BY <1>4, <1>5 DEF N

\* SumFunctionOnSet is a sum in this sense: its fold has a solution.
LEMMA SumIsSummation ==
  ASSUME NEW S, IsFiniteSet(S), NEW f, \A x \in S : f[x] \in Int
  PROVE  \E g \in [SUBSET S -> Int] :
           IsSummation(g, f, S) /\ SumFunctionOnSet(f, S) = g[S]
<1> DEFINE sum == CHOOSE g : IsSummation(g, f, S)
<1>1. PICK g \in [SUBSET S -> Int] : IsSummation(g, f, S)
  BY SummationExists
<1>2. IsSummation(sum, f, S)
  BY <1>1
<1>3. SumFunctionOnSet(f, S) = sum[S]
  BY DEF SumFunctionOnSet, FoldFunctionOnSet, MapThenFoldSet, IsSummation, Pick
<1>4. sum[S] = g[S]
  <2> HIDE DEF sum
  <2>. QED BY <1>1, <1>2, SummationsAgree
<1>. QED
  BY <1>1, <1>3, <1>4

\* A sum is that of the empty set, or the element picked and the sum of the rest.
LEMMA SumUnfolds ==
  ASSUME NEW S, IsFiniteSet(S), NEW f, \A x \in S : f[x] \in Int
  PROVE  /\ SumFunctionOnSet(f, S) \in Int
         /\ S = {} => SumFunctionOnSet(f, S) = 0
         /\ S # {} => SumFunctionOnSet(f, S) =
                        f[Pick(S)] + SumFunctionOnSet(f, S \ {Pick(S)})
<1>1. PICK g \in [SUBSET S -> Int] :
        IsSummation(g, f, S) /\ SumFunctionOnSet(f, S) = g[S]
  BY SumIsSummation
<1>2. g[S] = IF S = {} THEN 0 ELSE f[Pick(S)] + g[S \ {Pick(S)}]
  BY <1>1 DEF IsSummation
<1>3. g[S] \in Int
  BY <1>1
<1>4. ASSUME S # {} PROVE SumFunctionOnSet(f, S \ {Pick(S)}) = g[S \ {Pick(S)}]
  <2> DEFINE T == S \ {Pick(S)}
  <2>1. IsFiniteSet(T) /\ T \subseteq S
    BY FS_Subset
  <2> HIDE DEF T
  <2>2. PICK h : IsSummation(h, f, T) /\ SumFunctionOnSet(f, T) = h[T]
    BY <2>1, SumIsSummation
  <2>3. g[T] = h[T]
    BY <1>1, <2>1, <2>2, SummationsAgree
  <2>. QED BY <2>2, <2>3 DEF T
<1>. QED
  BY <1>1, <1>2, <1>3, <1>4

\* Any element may be taken out of a sum first: the order does not matter.
LEMMA SumRemove ==
  ASSUME NEW S, IsFiniteSet(S), NEW f, \A x \in S : f[x] \in Int, NEW x \in S
  PROVE  SumFunctionOnSet(f, S) = f[x] + SumFunctionOnSet(f, S \ {x})
<1> DEFINE Sum(s) == SumFunctionOnSet(f, s)
           N == {n \in Nat : \A T \in SUBSET S : Cardinality(T) = n =>
                               \A y \in T : Sum(T) = f[y] + Sum(T \ {y})}
<1>1. 0 \in N
  <2> SUFFICES ASSUME NEW T \in SUBSET S, Cardinality(T) = 0, NEW y \in T
               PROVE  FALSE
    OBVIOUS
  <2>. QED BY FS_Subset, FS_EmptySet
<1>2. ASSUME NEW n \in Nat, n \in N PROVE n + 1 \in N
  <2> SUFFICES ASSUME NEW T \in SUBSET S, Cardinality(T) = n + 1, NEW y \in T
               PROVE  Sum(T) = f[y] + Sum(T \ {y})
    OBVIOUS
  <2> DEFINE p == Pick(T)
             both == T \ {p, y}
  <2>1. /\ IsFiniteSet(T) /\ IsFiniteSet(T \ {p}) /\ IsFiniteSet(T \ {y}) /\ IsFiniteSet(both)
    BY FS_Subset
  <2>2. p \in T
    BY PickIn
  <2>3. Cardinality(T \ {p}) = n /\ Cardinality(T \ {y}) = n
    <3> HIDE DEF p, N
    <3>1. Cardinality(T \ {p}) = Cardinality(T) - 1 /\ Cardinality(T \ {y}) = Cardinality(T) - 1
      BY <2>1, <2>2, FS_RemoveElement
    <3>. QED BY <3>1
  <2>4. Sum(T) = f[p] + Sum(T \ {p})
    BY <2>1, SumUnfolds
  <2>5. CASE p = y
    BY <2>4, <2>5
  <2>6. CASE p # y
    <3>1. (T \ {p}) \ {y} = both /\ (T \ {y}) \ {p} = both
      OBVIOUS
    <3>2. Sum(T \ {p}) = f[y] + Sum(both)
      BY <1>2, <2>3, <2>6, <3>1
    <3>3. Sum(T \ {y}) = f[p] + Sum(both)
      BY <1>2, <2>2, <2>3, <2>6, <3>1
    <3>4. Sum(both) \in Int /\ f[p] \in Int /\ f[y] \in Int
      BY <2>1, <2>2, SumUnfolds
    <3> HIDE DEF Sum, both, p, N
    <3>. QED BY <2>4, <3>2, <3>3, <3>4
  <2>. QED BY <2>5, <2>6
<1> HIDE DEF N
<1>3. Cardinality(S) \in N
  BY <1>1, <1>2, FS_CardinalityType, NatSetInduction
<1>. QED
  BY <1>3 DEF N

\* A sum of integers is an integer.
LEMMA SumType ==
  ASSUME NEW S, IsFiniteSet(S), NEW f, \A x \in S : f[x] \in Int
  PROVE  SumFunctionOnSet(f, S) \in Int
BY SumUnfolds

\* The empty sum is 0.
LEMMA SumEmpty ==
  ASSUME NEW f
  PROVE  SumFunctionOnSet(f, {}) = 0
BY SumUnfolds, FS_EmptySet

\* One element more adds its value.
LEMMA SumAdd ==
  ASSUME NEW S, IsFiniteSet(S), NEW x, x \notin S,
         NEW f, \A y \in S \cup {x} : f[y] \in Int
  PROVE  SumFunctionOnSet(f, S \cup {x}) = SumFunctionOnSet(f, S) + f[x]
<1>1. IsFiniteSet(S \cup {x})
  BY FS_AddElement
<1>2. (S \cup {x}) \ {x} = S
  OBVIOUS
<1>3. SumFunctionOnSet(f, S \cup {x}) = f[x] + SumFunctionOnSet(f, S)
  BY <1>1, <1>2, SumRemove
<1>. QED
  BY <1>3, SumType

\* A sum depends on the values summed and nothing else.
LEMMA SumSame ==
  ASSUME NEW S, IsFiniteSet(S), NEW f, NEW g,
         \A x \in S : f[x] \in Int /\ f[x] = g[x]
  PROVE  SumFunctionOnSet(f, S) = SumFunctionOnSet(g, S)
<1> DEFINE P == {T \in SUBSET S : SumFunctionOnSet(f, T) = SumFunctionOnSet(g, T)}
<1>1. {} \in P
  BY SumEmpty
<1>2. ASSUME NEW T \in SUBSET S, NEW x \in S \ T, T \in P
      PROVE  T \cup {x} \in P
  <2>1. IsFiniteSet(T)
    BY FS_Subset
  <2>2. /\ SumFunctionOnSet(f, T \cup {x}) = SumFunctionOnSet(f, T) + f[x]
        /\ SumFunctionOnSet(g, T \cup {x}) = SumFunctionOnSet(g, T) + g[x]
    BY <2>1, SumAdd
  <2>. QED BY <1>2, <2>2
<1> HIDE DEF P
<1>3. S \in P
  BY <1>1, <1>2, FiniteInduction
<1>. QED
  BY <1>3 DEF P

\* The sum over two disjoint sets is the sum of their sums.
LEMMA SumUnion ==
  ASSUME NEW S, IsFiniteSet(S), NEW T, IsFiniteSet(T), S \cap T = {},
         NEW f, \A x \in S \cup T : f[x] \in Int
  PROVE  SumFunctionOnSet(f, S \cup T) = SumFunctionOnSet(f, S) + SumFunctionOnSet(f, T)
<1> DEFINE Sum(s) == SumFunctionOnSet(f, s)
           P == {U \in SUBSET T : Sum(S \cup U) = Sum(S) + Sum(U)}
<1>1. {} \in P
  <2>1. Sum(S \cup {}) = Sum(S) /\ Sum({}) = 0 /\ Sum(S) \in Int
    BY SumEmpty, SumType
  <2>. QED BY <2>1
<1>2. ASSUME NEW U \in SUBSET T, NEW x \in T \ U, U \in P
      PROVE  U \cup {x} \in P
  <2>1. IsFiniteSet(U) /\ IsFiniteSet(S \cup U)
    BY FS_Subset, FS_Union
  <2>2. Sum(U \cup {x}) = Sum(U) + f[x]
    BY <2>1, SumAdd
  <2>3. (S \cup U) \cup {x} = S \cup (U \cup {x})
    OBVIOUS
  <2>4. Sum(S \cup (U \cup {x})) = Sum(S \cup U) + f[x]
    BY <2>1, <2>3, SumAdd
  <2>5. Sum(S) \in Int /\ Sum(U) \in Int /\ f[x] \in Int
    BY <2>1, SumType
  <2>6. Sum(S \cup U) = Sum(S) + Sum(U)
    BY <1>2
  <2> HIDE DEF Sum, P
  <2>7. Sum(S \cup (U \cup {x})) = Sum(S) + Sum(U \cup {x})
    BY <2>2, <2>4, <2>5, <2>6
  <2>. QED BY <2>7 DEF Sum, P
<1> HIDE DEF P
<1>3. T \in P
  BY <1>1, <1>2, FiniteInduction
<1>. QED
  BY <1>3 DEF P

\* The sum of sums, value by value, is the sum of both.
LEMMA SumPlus ==
  ASSUME NEW S, IsFiniteSet(S), NEW f, NEW g, NEW h,
         \A x \in S : f[x] \in Int /\ g[x] \in Int /\ h[x] = f[x] + g[x]
  PROVE  SumFunctionOnSet(h, S) = SumFunctionOnSet(f, S) + SumFunctionOnSet(g, S)
<1>0. \A x \in S : h[x] \in Int
  OBVIOUS
<1> DEFINE P == {T \in SUBSET S :
                   SumFunctionOnSet(h, T) = SumFunctionOnSet(f, T) + SumFunctionOnSet(g, T)}
<1>1. {} \in P
  BY SumEmpty
<1>2. ASSUME NEW T \in SUBSET S, NEW x \in S \ T, T \in P
      PROVE  T \cup {x} \in P
  <2>1. IsFiniteSet(T)
    BY FS_Subset
  <2>2. /\ SumFunctionOnSet(f, T \cup {x}) = SumFunctionOnSet(f, T) + f[x]
        /\ SumFunctionOnSet(g, T \cup {x}) = SumFunctionOnSet(g, T) + g[x]
        /\ SumFunctionOnSet(h, T \cup {x}) = SumFunctionOnSet(h, T) + h[x]
    BY <1>0, <2>1, SumAdd
  <2>3. SumFunctionOnSet(f, T) \in Int /\ SumFunctionOnSet(g, T) \in Int
    BY <2>1, SumType
  <2>4. SumFunctionOnSet(h, T) = SumFunctionOnSet(f, T) + SumFunctionOnSet(g, T)
    BY <1>2
  <2>5. f[x] \in Int /\ g[x] \in Int /\ h[x] = f[x] + g[x]
    OBVIOUS
  <2> HIDE DEF P
  <2>6. SumFunctionOnSet(h, T \cup {x}) =
          SumFunctionOnSet(f, T \cup {x}) + SumFunctionOnSet(g, T \cup {x})
    BY <2>2, <2>3, <2>4, <2>5
  <2>. QED BY <2>6 DEF P
<1> HIDE DEF P
<1>3. S \in P
  BY <1>1, <1>2, FiniteInduction
<1>. QED
  BY <1>3 DEF P

\* The sum of the negated values is the negated sum.
LEMMA SumNegated ==
  ASSUME NEW S, IsFiniteSet(S), NEW f, NEW g,
         \A x \in S : f[x] \in Int /\ g[x] = -f[x]
  PROVE  SumFunctionOnSet(g, S) = -SumFunctionOnSet(f, S)
<1>0. \A x \in S : g[x] \in Int
  OBVIOUS
<1> DEFINE P == {T \in SUBSET S : SumFunctionOnSet(g, T) = -SumFunctionOnSet(f, T)}
<1>1. {} \in P
  BY SumEmpty
<1>2. ASSUME NEW T \in SUBSET S, NEW x \in S \ T, T \in P
      PROVE  T \cup {x} \in P
  <2>1. IsFiniteSet(T)
    BY FS_Subset
  <2>2. /\ SumFunctionOnSet(f, T \cup {x}) = SumFunctionOnSet(f, T) + f[x]
        /\ SumFunctionOnSet(g, T \cup {x}) = SumFunctionOnSet(g, T) + g[x]
    BY <1>0, <2>1, SumAdd
  <2>3. SumFunctionOnSet(f, T) \in Int /\ f[x] \in Int /\ g[x] = -f[x]
    BY <2>1, SumType
  <2>4. SumFunctionOnSet(g, T) = -SumFunctionOnSet(f, T)
    BY <1>2
  <2> HIDE DEF P
  <2>5. SumFunctionOnSet(g, T \cup {x}) = -SumFunctionOnSet(f, T \cup {x})
    BY <2>2, <2>3, <2>4
  <2>. QED BY <2>5 DEF P
<1> HIDE DEF P
<1>3. S \in P
  BY <1>1, <1>2, FiniteInduction
<1>. QED
  BY <1>3 DEF P

\* Values that grow have a sum that does not shrink.
LEMMA SumAtMost ==
  ASSUME NEW S, IsFiniteSet(S), NEW f, NEW g,
         \A x \in S : f[x] \in Int /\ g[x] \in Int /\ f[x] <= g[x]
  PROVE  SumFunctionOnSet(f, S) <= SumFunctionOnSet(g, S)
<1> DEFINE P == {T \in SUBSET S : SumFunctionOnSet(f, T) <= SumFunctionOnSet(g, T)}
<1>1. {} \in P
  BY SumEmpty
<1>2. ASSUME NEW T \in SUBSET S, NEW x \in S \ T, T \in P
      PROVE  T \cup {x} \in P
  <2>1. IsFiniteSet(T)
    BY FS_Subset
  <2>2. /\ SumFunctionOnSet(f, T \cup {x}) = SumFunctionOnSet(f, T) + f[x]
        /\ SumFunctionOnSet(g, T \cup {x}) = SumFunctionOnSet(g, T) + g[x]
    BY <2>1, SumAdd
  <2>3. /\ SumFunctionOnSet(f, T) \in Int /\ SumFunctionOnSet(g, T) \in Int
        /\ f[x] \in Int /\ g[x] \in Int /\ f[x] <= g[x]
    BY <2>1, SumType
  <2>4. SumFunctionOnSet(f, T) <= SumFunctionOnSet(g, T)
    BY <1>2
  <2> HIDE DEF P
  <2>5. SumFunctionOnSet(f, T \cup {x}) <= SumFunctionOnSet(g, T \cup {x})
    BY <2>2, <2>3, <2>4
  <2>. QED BY <2>5 DEF P
<1> HIDE DEF P
<1>3. S \in P
  BY <1>1, <1>2, FiniteInduction
<1>. QED
  BY <1>3 DEF P

\* Zeros sum to 0.
LEMMA SumOfZeros ==
  ASSUME NEW S, IsFiniteSet(S), NEW f, \A x \in S : f[x] = 0
  PROVE  SumFunctionOnSet(f, S) = 0
<1>1. SumFunctionOnSet(f, S) = -SumFunctionOnSet(f, S)
  BY SumNegated
<1>2. SumFunctionOnSet(f, S) \in Int
  BY SumType
<1>. QED
  BY <1>1, <1>2

\* What is 0 outside T is summed over T.
LEMMA SumWhere ==
  ASSUME NEW S, IsFiniteSet(S), NEW T \in SUBSET S, NEW f, NEW g,
         \A x \in T : f[x] \in Int /\ f[x] = g[x],
         \A x \in S \ T : f[x] = 0
  PROVE  SumFunctionOnSet(f, S) = SumFunctionOnSet(g, T)
<1>1. IsFiniteSet(T) /\ IsFiniteSet(S \ T) /\ S = T \cup (S \ T) /\ T \cap (S \ T) = {}
  BY FS_Subset
<1>2. \A x \in T \cup (S \ T) : f[x] \in Int
  OBVIOUS
<1>3. SumFunctionOnSet(f, T \cup (S \ T)) = SumFunctionOnSet(f, T) + SumFunctionOnSet(f, S \ T)
  BY <1>1, <1>2, SumUnion
<1>4. SumFunctionOnSet(f, S \ T) = 0
  BY <1>1, SumOfZeros
<1>5. SumFunctionOnSet(f, T) = SumFunctionOnSet(g, T)
  BY <1>1, SumSame
<1>6. SumFunctionOnSet(f, T) \in Int
  BY <1>1, SumType
<1>7. SumFunctionOnSet(f, S) = SumFunctionOnSet(f, T) + SumFunctionOnSet(f, S \ T)
  BY <1>1, <1>3
<1>. QED
  BY <1>4, <1>5, <1>6, <1>7

\* g is f on S but for r more at x.
Raised(f, g, S, x, r) == \A y \in S : g[y] = IF y = x THEN f[y] + r ELSE f[y]

\* r more at one element is r more in the sum.
LEMMA SumRaise ==
  ASSUME NEW S, IsFiniteSet(S), NEW f, NEW g, NEW x \in S, NEW r \in Int,
         \A y \in S : f[y] \in Int,
         Raised(f, g, S, x, r)
  PROVE  SumFunctionOnSet(g, S) = SumFunctionOnSet(f, S) + r
<1> USE DEF Raised
<1>1. \A y \in S : g[y] \in Int
  OBVIOUS
<1>2. IsFiniteSet(S \ {x})
  BY FS_Subset
<1>3. /\ SumFunctionOnSet(f, S) = f[x] + SumFunctionOnSet(f, S \ {x})
      /\ SumFunctionOnSet(g, S) = g[x] + SumFunctionOnSet(g, S \ {x})
  BY <1>1, SumRemove
<1>4. SumFunctionOnSet(f, S \ {x}) = SumFunctionOnSet(g, S \ {x})
  BY <1>2, SumSame
<1>5. SumFunctionOnSet(f, S \ {x}) \in Int /\ f[x] \in Int /\ g[x] = f[x] + r
  BY <1>2, SumType
<1>. QED
  BY <1>3, <1>4, <1>5

\* r more at one element is r more in the sums over the sets that hold it.
LEMMA SumPart ==
  ASSUME NEW S, IsFiniteSet(S), NEW f, NEW g, NEW x, NEW r \in Int,
         \A y \in S : f[y] \in Int,
         Raised(f, g, S, x, r)
  PROVE  /\ SumFunctionOnSet(f, S) \in Int
         /\ x \in S => SumFunctionOnSet(g, S) = SumFunctionOnSet(f, S) + r
         /\ x \notin S => SumFunctionOnSet(g, S) = SumFunctionOnSet(f, S)
<1>1. ASSUME x \notin S
      PROVE  SumFunctionOnSet(g, S) = SumFunctionOnSet(f, S)
  <2>1. \A y \in S : f[y] \in Int /\ f[y] = g[y]
    BY <1>1 DEF Raised
  <2>. QED BY <2>1, SumSame
<1>. QED
  BY <1>1, SumRaise, SumType

\* The row sums of a table.
ByRow(F, S, T) == [x \in S |-> SumFunctionOnSet(F[x], T)]

\* The column sums of a table.
ByColumn(F, S, T) == [y \in T |-> SumFunctionOnSet([x \in S |-> F[x][y]], S)]

\* A table adds up to the same by its columns as by its rows.
LEMMA SumSwap ==
  ASSUME NEW S, IsFiniteSet(S), NEW T, IsFiniteSet(T), NEW F,
         \A x \in S, y \in T : F[x][y] \in Int
  PROVE  SumFunctionOnSet(ByColumn(F, S, T), T) = SumFunctionOnSet(ByRow(F, S, T), S)
<1> DEFINE byS == ByRow(F, S, T)
           column(y) == [x \in S |-> F[x][y]]
           part(U) == [y \in T |-> SumFunctionOnSet(column(y), U)]
           P == {U \in SUBSET S : SumFunctionOnSet(part(U), T) = SumFunctionOnSet(byS, U)}
<1>1. {} \in P
  <2>1. \A y \in T : part({})[y] = 0
    BY SumEmpty
  <2>2. SumFunctionOnSet(part({}), T) = 0
    <3> HIDE DEF part
    <3>. QED BY <2>1, SumOfZeros
  <2>. QED BY <2>2, SumEmpty
<1>2. ASSUME NEW U \in SUBSET S, NEW x \in S \ U, U \in P
      PROVE  U \cup {x} \in P
  <2>1. IsFiniteSet(U)
    BY FS_Subset
  <2>2. ASSUME NEW y \in T
        PROVE  /\ part(U)[y] \in Int
               /\ F[x][y] \in Int
               /\ part(U \cup {x})[y] = part(U)[y] + F[x][y]
    <3> DEFINE col == column(y)
    <3>1. \A z \in U \cup {x} : col[z] \in Int
      OBVIOUS
    <3>2. col[x] = F[x][y]
      OBVIOUS
    <3> HIDE DEF col
    <3>3. SumFunctionOnSet(col, U \cup {x}) = SumFunctionOnSet(col, U) + col[x]
      BY <2>1, <3>1, SumAdd
    <3>4. SumFunctionOnSet(col, U) \in Int
      BY <2>1, <3>1, SumType
    <3>5. part(U)[y] = SumFunctionOnSet(col, U)
          /\ part(U \cup {x})[y] = SumFunctionOnSet(col, U \cup {x})
      BY DEF col
    <3>. QED BY <3>2, <3>3, <3>4, <3>5
  <2>3. SumFunctionOnSet(part(U \cup {x}), T) =
          SumFunctionOnSet(part(U), T) + SumFunctionOnSet(F[x], T)
    <3> HIDE DEF part
    <3>. QED BY <2>2, SumPlus
  <2>4. \A z \in S : byS[z] \in Int
    BY SumType DEF ByRow
  <2>5. byS[x] = SumFunctionOnSet(F[x], T)
    BY DEF ByRow
  <2>6. SumFunctionOnSet(byS, U \cup {x}) = SumFunctionOnSet(byS, U) + byS[x]
    BY <2>1, <2>4, SumAdd
  <2>7. SumFunctionOnSet(part(U), T) = SumFunctionOnSet(byS, U)
    BY <1>2
  <2> HIDE DEF part, P
  <2>8. SumFunctionOnSet(part(U \cup {x}), T) = SumFunctionOnSet(byS, U \cup {x})
    BY <2>3, <2>5, <2>6, <2>7
  <2>. QED BY <2>8 DEF P
<1> HIDE DEF P, part
<1>3. S \in P
  BY <1>1, <1>2, FiniteInduction
<1>4. part(S) = ByColumn(F, S, T)
  BY DEF part, ByColumn
<1>. QED
  BY <1>3, <1>4 DEF P

-----------------------------------------------------------------------------
(* The books *)

\* balance_delta of each row.
Deltas(log) == [k \in DOMAIN log |-> log[k].delta]

\* What holds of the log of a contact whatever was posted to it: every row moves
\* the balance by its amount, and the last balance_after is the sum of the deltas,
\* over all the rows as over the live ones.
LogOK(log) ==
  /\ log \in Seq(Entry)
  /\ \A n \in DOMAIN log :
       /\ log[n].amount > 0
       /\ log[n].delta \in {log[n].amount, -log[n].amount}
       /\ log[n].reversed => HasReversal(log, n)
       /\ log[n].after = (IF n = 1 THEN 0 ELSE log[n - 1].after) + log[n].delta
  /\ SumFunctionOnSet(Deltas(log), DOMAIN log) = Balance(log)
  /\ SumFunctionOnSet(Deltas(log), Live(log)) = Balance(log)

\* What holds of the books at every moment.
BooksOK ==
  /\ book \in [Contacts -> Seq(Entry)]
  /\ \A c \in Contacts : LogOK(book[c])

\* One row is posted to the log, for an accepted offer or for none.
Posted(log, log2) ==
  \E type \in PostTypes, amount \in Int, day \in Int, offer \in Offers \cup {NoOffer} :
    amount > 0 /\ log2 = Append(log, PostedRow(Balance(log), type, amount, offer, day))

\* One row of the log is reversed.
Reversed(log, log2, k) ==
  \E day \in Int :
    /\ k \in DOMAIN log
    /\ log[k].type # "reversal"
    /\ ~HasReversal(log, k)
    /\ log2 = WithReversal(log, k, ReversalRow(Balance(log), log, k, day))

\* What a step may do to the log of a contact.
LogStep(log, log2) ==
  \/ log2 = log
  \/ Posted(log, log2)
  \/ \E k \in DOMAIN log : Reversed(log, log2, k)

\* The balance of a log is an integer.
LEMMA BalanceType ==
  ASSUME NEW log, LogOK(log)
  PROVE  Balance(log) \in Int
<1>1. ASSUME NEW n \in DOMAIN log PROVE log[n].after \in Int
  <2>1. log[n] \in Entry
    BY DEF LogOK
  <2>. QED BY <2>1 DEF Entry
<1>2. log # <<>> => Len(log) \in DOMAIN log
  BY DEF LogOK
<1>. QED
  BY <1>1, <1>2 DEF Balance

\* A posting keeps the log in order: its row is live, so both sums grow by its delta.
LEMMA PostedOK ==
  ASSUME NEW log, LogOK(log), NEW log2, Posted(log, log2)
  PROVE  LogOK(log2)
<1> DEFINE n == Len(log)
<1>1. PICK type \in PostTypes, amount \in Int, day \in Int, offer \in Offers \cup {NoOffer} :
        amount > 0 /\ log2 = Append(log, PostedRow(Balance(log), type, amount, offer, day))
  BY DEF Posted
<1> DEFINE row == PostedRow(Balance(log), type, amount, offer, day)
<1>2. /\ log \in Seq(Entry) /\ n \in Nat
      /\ DOMAIN log = 1..n
  BY DEF LogOK
<1>3. /\ row \in Entry
      /\ row.amount > 0 /\ row.delta \in {row.amount, -row.amount}
      /\ ~row.reversed /\ row.type # "reversal" /\ row.reverses = 0
      /\ row.after = Balance(log) + row.delta
  BY <1>1, BalanceType DEF PostedRow, Entry, Direction, PostTypes, DebitTypes, CreditTypes
<1> HIDE DEF row
<1>4. /\ log2 \in Seq(Entry)
      /\ DOMAIN log2 = 1..(n + 1)
      /\ log2[n + 1] = row
      /\ \A k \in 1..n : log2[k] = log[k]
  BY <1>1, <1>2, <1>3 DEF row
<1>5. \A k \in DOMAIN log : HasReversal(log, k) => HasReversal(log2, k)
  BY <1>2, <1>4 DEF HasReversal
<1>6. Balance(log) = IF n = 0 THEN 0 ELSE log[n].after
  BY <1>2 DEF Balance
<1>7. Balance(log2) = row.after
  BY <1>4 DEF Balance
<1>8. ASSUME NEW k \in DOMAIN log2
      PROVE  /\ log2[k].amount > 0
             /\ log2[k].delta \in {log2[k].amount, -log2[k].amount}
             /\ log2[k].reversed => HasReversal(log2, k)
             /\ log2[k].after = (IF k = 1 THEN 0 ELSE log2[k - 1].after) + log2[k].delta
  <2>1. CASE k = n + 1
    BY <2>1, <1>2, <1>3, <1>4, <1>6
  <2>2. CASE k \in 1..n
    <3>1. k # 1 => k - 1 \in 1..n
      BY <2>2, <1>2
    <3>. QED BY <2>2, <3>1, <1>2, <1>4, <1>5 DEF LogOK
  <2>. QED BY <2>1, <2>2, <1>2, <1>4
<1>9. ASSUME NEW S \in SUBSET DOMAIN log
      PROVE  /\ IsFiniteSet(S)
             /\ SumFunctionOnSet(Deltas(log2), S \cup {n + 1}) =
                  SumFunctionOnSet(Deltas(log), S) + row.delta
  <2>1. IsFiniteSet(S)
    <3>1. IsFiniteSet(1..n)
      BY <1>2, FS_Interval
    <3>. QED BY <3>1, <1>2, FS_Subset
  <2>2. ASSUME NEW k \in S
        PROVE  Deltas(log)[k] \in Int /\ Deltas(log)[k] = Deltas(log2)[k]
    <3>1. k \in 1..n /\ k \in DOMAIN log2 /\ log[k] \in Entry /\ log2[k] = log[k]
      BY <1>2, <1>4
    <3>. QED BY <3>1, <1>2 DEF Deltas, Entry
  <2>3. n + 1 \notin S /\ Deltas(log2)[n + 1] = row.delta /\ row.delta \in Int
    <3>1. n + 1 \notin S /\ n + 1 \in DOMAIN log2
      BY <1>2, <1>4
    <3>2. row.delta \in Int
      BY <1>3 DEF Entry
    <3>. QED BY <1>4, <3>1, <3>2 DEF Deltas
  <2>4. SumFunctionOnSet(Deltas(log), S) = SumFunctionOnSet(Deltas(log2), S)
    BY <2>1, <2>2, SumSame
  <2>5. \A k \in S \cup {n + 1} : Deltas(log2)[k] \in Int
    BY <2>2, <2>3
  <2>6. SumFunctionOnSet(Deltas(log2), S \cup {n + 1}) =
          SumFunctionOnSet(Deltas(log2), S) + Deltas(log2)[n + 1]
    BY <2>1, <2>3, <2>5, SumAdd
  <2>. QED BY <2>1, <2>3, <2>4, <2>6
<1>10. DOMAIN log2 = DOMAIN log \cup {n + 1}
  BY <1>2, <1>4
<1>11. Live(log2) = Live(log) \cup {n + 1}
  BY <1>2, <1>3, <1>4 DEF Live
<1>12. Live(log) \in SUBSET DOMAIN log
  BY DEF Live
<1>13. /\ SumFunctionOnSet(Deltas(log2), DOMAIN log2) = Balance(log2)
       /\ SumFunctionOnSet(Deltas(log2), Live(log2)) = Balance(log2)
  <2>1. /\ SumFunctionOnSet(Deltas(log), DOMAIN log) = Balance(log)
        /\ SumFunctionOnSet(Deltas(log), Live(log)) = Balance(log)
    BY DEF LogOK
  <2>2. /\ SumFunctionOnSet(Deltas(log2), DOMAIN log2) = Balance(log) + row.delta
        /\ SumFunctionOnSet(Deltas(log2), Live(log2)) = Balance(log) + row.delta
    BY <2>1, <1>9, <1>10, <1>11, <1>12
  <2>. QED BY <2>2, <1>3, <1>7
<1>. QED
  BY <1>4, <1>8, <1>13 DEF LogOK

\* A reversal keeps the log in order: the row it reverses leaves the live ones, and
\* the reversal, which is none of them, moves the balance back by the same delta.
LEMMA ReversedOK ==
  ASSUME NEW log, LogOK(log), NEW log2, NEW k, Reversed(log, log2, k)
  PROVE  /\ LogOK(log2)
         /\ k \in Live(log)
         /\ Live(log2) = Live(log) \ {k}
<1> DEFINE n == Len(log)
<1>1. PICK day \in Int :
        /\ k \in DOMAIN log
        /\ log[k].type # "reversal"
        /\ ~HasReversal(log, k)
        /\ log2 = WithReversal(log, k, ReversalRow(Balance(log), log, k, day))
  BY DEF Reversed
<1> DEFINE row == ReversalRow(Balance(log), log, k, day)
           stamped == [log[k] EXCEPT !.reversed = TRUE]
<1>2. /\ log \in Seq(Entry) /\ n \in Nat
      /\ DOMAIN log = 1..n
      /\ k \in 1..n /\ n >= 1
      /\ log[k] \in Entry
  BY <1>1 DEF LogOK
<1>3. log[k].amount \in Int /\ log[k].delta \in Int
  BY <1>2 DEF Entry
<1>4. log[k].amount > 0 /\ log[k].delta \in {log[k].amount, -log[k].amount} /\ ~log[k].reversed
  BY <1>1 DEF LogOK
<1>5. /\ row \in Entry
      /\ row.amount > 0 /\ row.delta \in {row.amount, -row.amount}
      /\ ~row.reversed /\ row.type = "reversal" /\ row.reverses = k
      /\ row.delta = -log[k].delta
      /\ row.after = Balance(log) + row.delta
  <2>1. Balance(log) \in Int
    BY BalanceType
  <2>2. row.amount = log[k].amount /\ row.delta = -log[k].delta
    BY DEF ReversalRow
  <2>3. row \in Entry
    <3>1. /\ -log[k].delta \in Int /\ Balance(log) - log[k].delta \in Int
          /\ k \in Nat /\ day \in Int
      BY <1>2, <1>3, <2>1
    <3>. QED BY <1>3, <3>1 DEF ReversalRow, Entry
  <2>4. row.delta \in {row.amount, -row.amount} /\ row.amount > 0
    BY <1>3, <1>4, <2>2
  <2>. QED BY <1>3, <2>1, <2>2, <2>3, <2>4 DEF ReversalRow
<1>6. stamped \in Entry
  BY <1>2 DEF Entry
<1>7. stamped = [log[k] EXCEPT !.reversed = TRUE] /\ stamped.reversed
      /\ stamped.amount = log[k].amount /\ stamped.delta = log[k].delta
      /\ stamped.after = log[k].after /\ stamped.type = log[k].type
      /\ stamped.reverses = log[k].reverses /\ stamped.day = log[k].day
  BY <1>2 DEF Entry
<1>8. log2 = Append([log EXCEPT ![k] = stamped], row)
  BY <1>1 DEF WithReversal
<1> HIDE DEF row, stamped
<1>9. /\ log2 \in Seq(Entry)
      /\ DOMAIN log2 = 1..(n + 1)
      /\ log2[n + 1] = row
      /\ log2[k] = stamped
      /\ \A j \in 1..n : j # k => log2[j] = log[j]
  BY <1>2, <1>5, <1>6, <1>8
<1>10. \A j \in 1..n : /\ log2[j].amount = log[j].amount /\ log2[j].delta = log[j].delta
                       /\ log2[j].after = log[j].after /\ log2[j].type = log[j].type
                       /\ log2[j].reverses = log[j].reverses
                       /\ log2[j].reversed <=> log[j].reversed \/ j = k
  BY <1>2, <1>7, <1>9
<1>11. /\ \A j \in DOMAIN log : HasReversal(log, j) => HasReversal(log2, j)
       /\ HasReversal(log2, k)
  BY <1>2, <1>5, <1>9, <1>10 DEF HasReversal
<1>12. Balance(log) = log[n].after /\ Balance(log2) = row.after
  BY <1>2, <1>9 DEF Balance
<1>13. ASSUME NEW j \in DOMAIN log2
       PROVE  /\ log2[j].amount > 0
              /\ log2[j].delta \in {log2[j].amount, -log2[j].amount}
              /\ log2[j].reversed => HasReversal(log2, j)
              /\ log2[j].after = (IF j = 1 THEN 0 ELSE log2[j - 1].after) + log2[j].delta
  <2>1. CASE j = n + 1
    BY <2>1, <1>2, <1>5, <1>9, <1>10, <1>12
  <2>2. CASE j \in 1..n
    <3>1. j # 1 => j - 1 \in 1..n
      BY <2>2, <1>2
    <3>2. /\ log[j].amount > 0
          /\ log[j].delta \in {log[j].amount, -log[j].amount}
          /\ log[j].reversed => HasReversal(log, j)
          /\ log[j].after = (IF j = 1 THEN 0 ELSE log[j - 1].after) + log[j].delta
      BY <2>2, <1>2 DEF LogOK
    <3>. QED BY <2>2, <3>1, <3>2, <1>2, <1>10, <1>11
  <2>. QED BY <2>1, <2>2, <1>9
<1>14. ASSUME NEW S \in SUBSET DOMAIN log
       PROVE  /\ IsFiniteSet(S)
              /\ SumFunctionOnSet(Deltas(log2), S) = SumFunctionOnSet(Deltas(log), S)
              /\ \A j \in S : Deltas(log2)[j] \in Int /\ Deltas(log)[j] \in Int
  <2>1. IsFiniteSet(S)
    <3>1. IsFiniteSet(1..n)
      BY <1>2, FS_Interval
    <3>. QED BY <3>1, <1>2, FS_Subset
  <2>2. ASSUME NEW j \in S
        PROVE  Deltas(log)[j] \in Int /\ Deltas(log)[j] = Deltas(log2)[j]
    <3>1. j \in 1..n /\ j \in DOMAIN log2 /\ log[j] \in Entry /\ log2[j].delta = log[j].delta
      BY <1>2, <1>9, <1>10
    <3>. QED BY <3>1, <1>2 DEF Deltas, Entry
  <2>. QED BY <2>1, <2>2, SumSame
<1>15. DOMAIN log2 = DOMAIN log \cup {n + 1} /\ n + 1 \notin DOMAIN log
  BY <1>2, <1>9
<1>16. k \in Live(log) /\ Live(log2) = Live(log) \ {k}
  BY <1>1, <1>2, <1>4, <1>5, <1>9, <1>10 DEF Live
<1>17. Live(log) \in SUBSET DOMAIN log
  BY DEF Live
<1>18. SumFunctionOnSet(Deltas(log2), DOMAIN log2) = Balance(log2)
  <2>1. Deltas(log2)[n + 1] = row.delta /\ row.delta \in Int
    BY <1>2, <1>3, <1>5, <1>9 DEF Deltas
  <2>2. \A j \in DOMAIN log \cup {n + 1} : Deltas(log2)[j] \in Int
    BY <2>1, <1>14
  <2>3. SumFunctionOnSet(Deltas(log2), DOMAIN log2) =
          SumFunctionOnSet(Deltas(log2), DOMAIN log) + Deltas(log2)[n + 1]
    <3>1. IsFiniteSet(DOMAIN log)
      BY <1>14
    <3>2. SumFunctionOnSet(Deltas(log2), DOMAIN log \cup {n + 1}) =
            SumFunctionOnSet(Deltas(log2), DOMAIN log) + Deltas(log2)[n + 1]
      <4> DEFINE D == DOMAIN log
                 d == Deltas(log2)
                 z == n + 1
      <4>1. IsFiniteSet(D) /\ z \notin D /\ \A j \in D \cup {z} : d[j] \in Int
        BY <2>2, <3>1, <1>15
      <4> HIDE DEF D, d, z
      <4>2. SumFunctionOnSet(d, D \cup {z}) = SumFunctionOnSet(d, D) + d[z]
        BY <4>1, SumAdd
      <4>. QED BY <4>2 DEF D, d, z
    <3>. QED BY <3>2, <1>15
  <2>. QED BY <2>1, <2>3, <1>5, <1>12, <1>14 DEF LogOK
<1>19. SumFunctionOnSet(Deltas(log2), Live(log2)) = Balance(log2)
  <2>1. SumFunctionOnSet(Deltas(log), Live(log)) =
          Deltas(log)[k] + SumFunctionOnSet(Deltas(log), Live(log) \ {k})
    BY <1>14, <1>16, <1>17, SumRemove
  <2>2. Live(log) \ {k} \in SUBSET DOMAIN log
    BY <1>17
  <2>3. SumFunctionOnSet(Deltas(log2), Live(log2)) =
          SumFunctionOnSet(Deltas(log), Live(log) \ {k})
    BY <1>14, <1>16, <2>2
  <2>4. Deltas(log)[k] = log[k].delta
    BY <1>1 DEF Deltas
  <2>5. SumFunctionOnSet(Deltas(log), Live(log) \ {k}) \in Int
    BY <1>14, <2>2, SumType
  <2>6. SumFunctionOnSet(Deltas(log), Live(log)) = Balance(log)
    BY DEF LogOK
  <2>. QED BY <2>1, <2>3, <2>4, <2>5, <2>6, <1>3, <1>5, <1>12
<1>. QED
  BY <1>9, <1>13, <1>16, <1>18, <1>19 DEF LogOK

\* So the log is in order after any step.
LEMMA LogStepOK ==
  ASSUME NEW log, LogOK(log), NEW log2, LogStep(log, log2)
  PROVE  LogOK(log2)
BY PostedOK, ReversedOK DEF LogStep

\* The empty log is in order.
LEMMA EmptyLogOK == LogOK(<<>>)
<1>1. Live(<<>>) = {} /\ DOMAIN <<>> = {}
  BY DEF Live
<1>2. <<>> \in Seq(Entry) /\ Balance(<<>>) = 0
  BY DEF Balance
<1>3. /\ SumFunctionOnSet(Deltas(<<>>), DOMAIN <<>>) = 0
      /\ SumFunctionOnSet(Deltas(<<>>), Live(<<>>)) = 0
  BY <1>1, SumEmpty
<1>. QED
  BY <1>1, <1>2, <1>3 DEF LogOK

\* A step of the books is a step of each log, and leaves them in order: postings, trades
\* and reversals alike.
LEMMA BookNextOK ==
  ASSUME BooksOK, BookNext
  PROVE  /\ BooksOK'
         /\ \A c \in Contacts : LogStep(book[c], book'[c])
<1>1. PICK c \in Contacts : BookStep(c)
  BY DEF BookNext
<1>2. book \in [Contacts -> Seq(Entry)]
  BY DEF BooksOK
<1> DEFINE Moved == LogStep(book[c], book'[c]) /\ book' = [book EXCEPT ![c] = book'[c]]
<1>3. Moved
  <2>1. ASSUME NEW type \in PostTypes, NEW amount \in Amounts, NEW day \in Days,
               Post(c, type, amount, day)
        PROVE  Moved
    <3>1. amount \in Int /\ day \in Int
      BY LedgerConstants
    <3>2. /\ book'[c] = Append(book[c], PostedRow(Balance(book[c]), type, amount, NoOffer, day))
          /\ book' = [book EXCEPT ![c] = book'[c]]
          /\ amount > 0
      BY <1>2, <2>1 DEF Post
    <3>. QED BY <3>1, <3>2 DEF LogStep, Posted
  <2>2. ASSUME NEW type \in TradeTypes, NEW amount \in Amounts, NEW day \in Days,
               NEW o \in Offers, RecordTrade(c, type, amount, day, o)
        PROVE  Moved
    <3>1. amount \in Int /\ day \in Int /\ type \in PostTypes
      BY LedgerConstants DEF TradeTypes, PostTypes, DebitTypes, CreditTypes
    <3>2. /\ book'[c] = Append(book[c], PostedRow(Balance(book[c]), type, amount, o, day))
          /\ book' = [book EXCEPT ![c] = book'[c]]
          /\ amount > 0
      BY <1>2, <2>2 DEF RecordTrade
    <3>. QED BY <3>1, <3>2 DEF LogStep, Posted
  <2>3. ASSUME NEW k \in DOMAIN book[c], NEW day \in Days, ReverseRow(c, k, day)
        PROVE  Moved
    <3>1. day \in Int
      BY LedgerConstants
    <3>2. /\ book'[c] = WithReversal(book[c], k, ReversalRow(Balance(book[c]), book[c], k, day))
          /\ book' = [book EXCEPT ![c] = book'[c]]
          /\ book[c][k].type # "reversal"
          /\ ~HasReversal(book[c], k)
      BY <1>2, <2>3 DEF ReverseRow
    <3>. QED BY <3>1, <3>2 DEF LogStep, Reversed
  <2>. QED BY <1>1, <2>1, <2>2, <2>3 DEF BookStep
<1>4. LogOK(book'[c])
  BY <1>3, LogStepOK DEF BooksOK
<1>5. \A d \in Contacts : d # c => book'[d] = book[d]
  BY <1>2, <1>3
<1>6. \A d \in Contacts : LogOK(book'[d]) /\ LogStep(book[d], book'[d])
  BY <1>3, <1>4, <1>5 DEF BooksOK, LogStep
<1>7. book' \in [Contacts -> Seq(Entry)]
  <2>1. book'[c] \in Seq(Entry)
    BY <1>4 DEF LogOK
  <2>. QED BY <1>2, <1>3, <2>1
<1>. QED
  BY <1>6, <1>7 DEF BooksOK

\* What moves the books under a screen is a step of the abstract book.
LEMMA BooksMoveByTheBook ==
  ASSUME BooksMove
  PROVE  BookNext
<1>1. PICK c \in Contacts : PostEntry(c) \/ ReverseEntry(c)
  BY DEF BooksMove
<1>2. BookStep(c)
  BY <1>1, PostingConstants DEF PostEntry, ReverseEntry, BookStep
<1>. QED
  BY <1>2 DEF BookNext

\* The books are in order before the first posting.
LEMMA BookInitOK ==
  ASSUME BookInit
  PROVE  BooksOK
BY EmptyLogOK DEF BookInit, BooksOK

\* The books that Ledger implements are in order at all times, trades included: the last
\* balance_after of a contact is the sum of all its deltas, and that of the live ones.
THEOREM BooksStayInOrder == BookSpec => []BooksOK
<1>1. BookInit => BooksOK
  BY BookInitOK
<1>2. BooksOK /\ [BookNext]_book => BooksOK'
  BY BookNextOK DEF BooksOK
<1>. QED
  BY <1>1, <1>2, PTL DEF BookSpec

-----------------------------------------------------------------------------
(* The statement *)

\* What the statement shows of a row: is_reversed is not a column.
Shown(row) == [type |-> row.type, day |-> row.day, amount |-> row.amount,
               delta |-> row.delta, after |-> row.after]

\* Every row of s stands at the same place of t, and shows the same.
Keeps(s, t) ==
  /\ Len(s) <= Len(t)
  /\ \A n \in 1..Len(s) : Shown(t[n]) = Shown(s[n])

\* A row that shows the same has the same figures.
LEMMA KeptFields ==
  ASSUME NEW r, NEW q, Shown(r) = Shown(q)
  PROVE  /\ r.type = q.type /\ r.day = q.day /\ r.amount = q.amount
         /\ r.delta = q.delta /\ r.after = q.after
BY DEF Shown

\* A row appended to two tables alike leaves them alike.
LEMMA AppendKeeps ==
  ASSUME NEW s \in Seq(Entry), NEW t \in Seq(Entry), Len(s) = Len(t), Keeps(s, t),
         NEW r \in Entry, NEW q \in Entry, Shown(q) = Shown(r)
  PROVE  Len(Append(s, r)) = Len(Append(t, q)) /\ Keeps(Append(s, r), Append(t, q))
<1> DEFINE s2 == Append(s, r)
           t2 == Append(t, q)
           n == Len(s)
<1>1. n \in Nat /\ Len(s2) = n + 1 /\ Len(t2) = n + 1
  OBVIOUS
<1>2. s2[n + 1] = r /\ t2[n + 1] = q
  OBVIOUS
<1>3. \A j \in 1..n : s2[j] = s[j] /\ t2[j] = t[j]
  OBVIOUS
<1>4. \A j \in 1..n : Shown(t[j]) = Shown(s[j])
  BY DEF Keeps
<1> HIDE DEF s2, t2, n
<1>5. ASSUME NEW j \in 1..(n + 1) PROVE Shown(t2[j]) = Shown(s2[j])
  <2>1. CASE j \in 1..n
    BY <1>3, <1>4, <2>1
  <2>2. CASE j = n + 1
    BY <1>2, <2>2
  <2>. QED BY <1>1, <2>1, <2>2
<1>6. Keeps(s2, t2)
  BY <1>1, <1>5 DEF Keeps
<1>. QED
  BY <1>1, <1>6 DEF s2, t2

\* Whatever is posted, the rows of a log keep their places and what they show.
LEMMA LogStepKeeps ==
  ASSUME NEW log, LogOK(log), NEW log2, LogStep(log, log2)
  PROVE  Keeps(log, log2)
<1>0. log \in Seq(Entry)
  BY DEF LogOK
<1>1. CASE log2 = log
  BY <1>0, <1>1 DEF Keeps
<1>2. CASE Posted(log, log2)
  <2>1. PICK row : log2 = Append(log, row)
    BY <1>2 DEF Posted
  <2>. QED BY <1>0, <2>1 DEF Keeps
<1>3. ASSUME NEW k \in DOMAIN log, Reversed(log, log2, k)
      PROVE  Keeps(log, log2)
  <2>1. PICK row : log2 = WithReversal(log, k, row)
    BY <1>3 DEF Reversed
  <2> DEFINE stamped == [log[k] EXCEPT !.reversed = TRUE]
  <2>2. stamped \in Entry /\ Shown(stamped) = Shown(log[k])
    <3>1. log[k] \in Entry
      BY <1>0
    <3>. QED BY <3>1 DEF Entry, Shown
  <2>3. log2 = Append([log EXCEPT ![k] = stamped], row)
    BY <2>1 DEF WithReversal
  <2> HIDE DEF stamped
  <2>4. ASSUME NEW n \in 1..Len(log)
        PROVE  Shown(log2[n]) = Shown(log[n])
    <3>1. log2[n] = IF n = k THEN stamped ELSE log[n]
      BY <1>0, <2>2, <2>3
    <3>. QED BY <2>2, <3>1
  <2>5. Len(log) <= Len(log2)
    BY <1>0, <2>2, <2>3
  <2>. QED BY <2>4, <2>5 DEF Keeps
<1>. QED
  BY <1>1, <1>2, <1>3 DEF LogStep

\* m satisfies the recursive definition of MatchingUpTo.
IsMatchingUpTo(m, log, filter) ==
  m = [n \in 0 .. Len(log) |->
         IF n = 0 THEN <<>>
         ELSE IF Matches(log[n], filter) THEN Append(m[n - 1], log[n])
         ELSE m[n - 1]]

\* The recursive definition has a solution: MatchingUpTo satisfies it.
LEMMA MatchingUpToUnfolds ==
  ASSUME NEW log \in Seq(Entry), NEW filter
  PROVE  /\ IsMatchingUpTo(MatchingUpTo(log, filter), log, filter)
         /\ MatchingUpTo(log, filter) \in [0 .. Len(log) -> Seq(Entry)]
<1> DEFINE N == Len(log)
           V == Seq(Entry)
           Add(n, rows) == IF Matches(log[n], filter) THEN Append(rows, log[n]) ELSE rows
           round == [n \in 1..N |-> [rows \in V |-> Add(n, rows)]]
           Chosen == CHOOSE m : IsMatchingUpTo(m, log, filter)
<1>1. N \in Nat /\ <<>> \in V
  OBVIOUS
<1>2. ASSUME NEW n \in 1..N, NEW rows \in V PROVE Add(n, rows) \in V
  <2>1. log[n] \in Entry
    OBVIOUS
  <2>. QED BY <2>1
<1>3. round \in [1..N -> [V -> V]]
  BY <1>2
<1> HIDE DEF V, N, Add
<1>4. PICK m : IsIteration(m, N, V, <<>>, round)
  <2> HIDE DEF round
  <2>. QED BY <1>1, <1>3, Iterates
<1>5. ASSUME NEW n \in 1..N PROVE m[n] = Add(n, m[n - 1])
  <2>1. n - 1 \in 0..N
    BY <1>1
  <2>2. m[n - 1] \in V
    BY <2>1, <1>4 DEF IsIteration
  <2>. QED BY <2>2, <1>4 DEF IsIteration
<1>6. IsMatchingUpTo(m, log, filter)
  <2>1. m \in [0..N -> V] /\ m[0] = <<>>
    BY <1>4 DEF IsIteration
  <2> DEFINE Body(n) == IF n = 0 THEN <<>> ELSE Add(n, m[n - 1])
  <2>2. \A n \in 0..N : m[n] = Body(n)
    BY <1>1, <1>5, <2>1
  <2> HIDE DEF Body
  <2>3. m = [n \in 0..N |-> Body(n)]
    BY <2>1, <2>2
  <2>. QED BY <2>3 DEF Body, Add, N, IsMatchingUpTo
<1>7. IsMatchingUpTo(Chosen, log, filter)
  BY <1>6
<1>8. MatchingUpTo(log, filter) = Chosen
  BY DEF MatchingUpTo, IsMatchingUpTo
<1> HIDE DEF Chosen
<1>9. Chosen \in [0..N -> V]
  <2>1. DOMAIN Chosen = 0..N /\ Chosen = [n \in 0..N |-> Chosen[n]]
    BY <1>7 DEF IsMatchingUpTo, N
  <2>2. Chosen[0] \in V
    BY <1>1, <1>7 DEF IsMatchingUpTo, N
  <2> DEFINE S == {n \in Nat : n <= N => Chosen[n] \in V}
  <2>3. 0 \in S
    BY <2>2
  <2>4. ASSUME NEW n \in Nat, n \in S PROVE n + 1 \in S
    <3> SUFFICES ASSUME n + 1 <= N PROVE Chosen[n + 1] \in V
      OBVIOUS
    <3>1. Chosen[n] \in V /\ n + 1 \in 1..N
      BY <2>4, <1>1
    <3>2. Chosen[n + 1] = Add(n + 1, Chosen[n])
      <4>1. n + 1 \in 0..Len(log) /\ n + 1 # 0 /\ (n + 1) - 1 = n
        BY <3>1, <1>1 DEF N
      <4>2. Chosen[n + 1] = IF Matches(log[n + 1], filter)
                            THEN Append(Chosen[(n + 1) - 1], log[n + 1])
                            ELSE Chosen[(n + 1) - 1]
        BY <4>1, <1>7 DEF IsMatchingUpTo
      <4>. QED BY <4>1, <4>2 DEF Add
    <3>. QED BY <3>1, <3>2, <1>2
  <2> HIDE DEF S
  <2>5. \A n \in Nat : n \in S
    BY <2>3, <2>4, NatSetInduction
  <2>6. \A n \in 0..N : Chosen[n] \in V
    BY <2>5, <1>1 DEF S
  <2>. QED BY <2>1, <2>6
<1>. QED
  BY <1>7, <1>8, <1>9 DEF V, N

\* MatchingUpTo, one row at a time.
LEMMA MatchingSteps ==
  ASSUME NEW log \in Seq(Entry), NEW filter
  PROVE  /\ MatchingUpTo(log, filter)[0] = <<>>
         /\ \A n \in 0 .. Len(log) : MatchingUpTo(log, filter)[n] \in Seq(Entry)
         /\ \A n \in Nat : n < Len(log) =>
              MatchingUpTo(log, filter)[n + 1] =
                IF Matches(log[n + 1], filter)
                THEN Append(MatchingUpTo(log, filter)[n], log[n + 1])
                ELSE MatchingUpTo(log, filter)[n]
<1> DEFINE m == MatchingUpTo(log, filter)
<1>1. IsMatchingUpTo(m, log, filter) /\ m \in [0 .. Len(log) -> Seq(Entry)]
  BY MatchingUpToUnfolds
<1> HIDE DEF m
<1>2. ASSUME NEW n \in Nat, n < Len(log)
      PROVE  m[n + 1] = IF Matches(log[n + 1], filter) THEN Append(m[n], log[n + 1]) ELSE m[n]
  <2>1. n + 1 \in 0..Len(log) /\ n + 1 # 0 /\ (n + 1) - 1 = n
    BY <1>2
  <2>2. m[n + 1] = IF Matches(log[n + 1], filter)
                   THEN Append(m[(n + 1) - 1], log[n + 1]) ELSE m[(n + 1) - 1]
    BY <2>1, <1>1 DEF IsMatchingUpTo
  <2>. QED BY <2>1, <2>2
<1>3. m[0] = <<>>
  <2>1. 0 \in 0..Len(log)
    OBVIOUS
  <2>. QED BY <2>1, <1>1 DEF IsMatchingUpTo
<1>. QED
  BY <1>1, <1>2, <1>3 DEF m

\* A statement is made of rows of the log.
LEMMA StatementRows ==
  ASSUME NEW log \in Seq(Entry), NEW filter
  PROVE  /\ ContactStatement(log, filter) \in Seq(Entry)
         /\ \A j \in DOMAIN ContactStatement(log, filter) :
              \E k \in DOMAIN log : ContactStatement(log, filter)[j] = log[k]
<1> DEFINE m == MatchingUpTo(log, filter)
           FromLog(rows) == \A j \in DOMAIN rows : \E k \in DOMAIN log : rows[j] = log[k]
           S == {n \in Nat : n <= Len(log) => FromLog(m[n])}
<1>1. /\ m[0] = <<>>
      /\ \A n \in 0 .. Len(log) : m[n] \in Seq(Entry)
      /\ \A n \in Nat : n < Len(log) =>
           m[n + 1] = IF Matches(log[n + 1], filter) THEN Append(m[n], log[n + 1]) ELSE m[n]
  BY MatchingSteps
<1> HIDE DEF m
<1>2. 0 \in S
  BY <1>1
<1>3. ASSUME NEW n \in Nat, n \in S PROVE n + 1 \in S
  <2> SUFFICES ASSUME n + 1 <= Len(log) PROVE FromLog(m[n + 1])
    OBVIOUS
  <2>1. n < Len(log) /\ m[n] \in Seq(Entry) /\ FromLog(m[n]) /\ n + 1 \in DOMAIN log
    BY <1>1, <1>3
  <2>2. log[n + 1] \in Entry
    BY <2>1
  <2>3. CASE Matches(log[n + 1], filter)
    <3>1. m[n + 1] = Append(m[n], log[n + 1])
      BY <1>1, <2>1, <2>3
    <3>2. ASSUME NEW j \in DOMAIN m[n + 1]
          PROVE  \E k \in DOMAIN log : m[n + 1][j] = log[k]
      <4>1. CASE j \in DOMAIN m[n]
        BY <4>1, <2>1, <3>1
      <4>2. CASE j = Len(m[n]) + 1
        BY <4>2, <2>1, <3>1
      <4>3. j \in DOMAIN m[n] \/ j = Len(m[n]) + 1
        BY <2>1, <3>1
      <4>. QED BY <4>1, <4>2, <4>3
    <3>. QED BY <3>2
  <2>4. CASE ~Matches(log[n + 1], filter)
    BY <1>1, <2>1, <2>4
  <2>. QED BY <2>3, <2>4
<1> HIDE DEF S
<1>4. Len(log) \in S
  BY <1>2, <1>3, NatSetInduction
<1>. QED
  BY <1>1, <1>4 DEF S, ContactStatement, m

\* Without a filter the statement is the log.
LEMMA StatementOfEverything ==
  ASSUME NEW log \in Seq(Entry)
  PROVE  ContactStatement(log, Everything) = log
<1> DEFINE m == MatchingUpTo(log, Everything)
           S == {n \in Nat : n <= Len(log) =>
                   Len(m[n]) = n /\ \A j \in 1..n : m[n][j] = log[j]}
<1>1. /\ m[0] = <<>>
      /\ \A n \in 0 .. Len(log) : m[n] \in Seq(Entry)
      /\ \A n \in Nat : n < Len(log) =>
           m[n + 1] = IF Matches(log[n + 1], Everything) THEN Append(m[n], log[n + 1]) ELSE m[n]
  BY MatchingSteps
<1>2. \A row : Matches(row, Everything)
  BY DEF Matches
<1> HIDE DEF m
<1>3. 0 \in S
  BY <1>1
<1>4. ASSUME NEW n \in Nat, n \in S PROVE n + 1 \in S
  <2> SUFFICES ASSUME n + 1 <= Len(log)
               PROVE  Len(m[n + 1]) = n + 1 /\ \A j \in 1..(n + 1) : m[n + 1][j] = log[j]
    OBVIOUS
  <2>1. n < Len(log) /\ m[n] \in Seq(Entry) /\ Len(m[n]) = n /\ \A j \in 1..n : m[n][j] = log[j]
    BY <1>1, <1>4
  <2>2. m[n + 1] = Append(m[n], log[n + 1])
    BY <1>1, <1>2, <2>1
  <2>. QED BY <2>1, <2>2
<1> HIDE DEF S
<1>5. Len(log) \in S
  BY <1>3, <1>4, NatSetInduction
<1>6. /\ m[Len(log)] \in Seq(Entry) /\ Len(m[Len(log)]) = Len(log)
      /\ \A j \in 1..Len(log) : m[Len(log)][j] = log[j]
  <2>1. Len(log) \in Nat /\ Len(log) \in 0..Len(log)
    OBVIOUS
  <2>. QED BY <2>1, <1>1, <1>5 DEF S
<1>7. m[Len(log)] = log
  BY <1>6, SeqEqual
<1>. QED
  BY <1>7 DEF m, ContactStatement

\* If a log keeps its rows, so does its statement under any filter: a row that
\* matches goes on matching, and a later one comes after it.
LEMMA StatementKeeps ==
  ASSUME NEW log \in Seq(Entry), NEW log2 \in Seq(Entry), Keeps(log, log2), NEW filter
  PROVE  Keeps(ContactStatement(log, filter), ContactStatement(log2, filter))
<1> DEFINE m == MatchingUpTo(log, filter)
           m2 == MatchingUpTo(log2, filter)
           S == {n \in Nat : n <= Len(log) => Len(m[n]) = Len(m2[n]) /\ Keeps(m[n], m2[n])}
           T == {n \in Nat : Len(log) <= n /\ n <= Len(log2) => Keeps(m[Len(log)], m2[n])}
<1>1. /\ m[0] = <<>>
      /\ \A n \in 0 .. Len(log) : m[n] \in Seq(Entry)
      /\ \A n \in Nat : n < Len(log) =>
           m[n + 1] = IF Matches(log[n + 1], filter) THEN Append(m[n], log[n + 1]) ELSE m[n]
  BY MatchingSteps
<1>2. /\ m2[0] = <<>>
      /\ \A n \in 0 .. Len(log2) : m2[n] \in Seq(Entry)
      /\ \A n \in Nat : n < Len(log2) =>
           m2[n + 1] = IF Matches(log2[n + 1], filter) THEN Append(m2[n], log2[n + 1]) ELSE m2[n]
  BY MatchingSteps
<1>3. /\ Len(log) \in Nat /\ Len(log2) \in Nat /\ Len(log) <= Len(log2)
      /\ \A n \in 1..Len(log) : /\ Shown(log2[n]) = Shown(log[n])
                                /\ Matches(log2[n], filter) <=> Matches(log[n], filter)
  <2>1. ASSUME NEW n \in 1..Len(log)
        PROVE  /\ Shown(log2[n]) = Shown(log[n])
               /\ Matches(log2[n], filter) <=> Matches(log[n], filter)
    <3>1. Shown(log2[n]) = Shown(log[n])
      BY DEF Keeps
    <3>2. log2[n].type = log[n].type /\ log2[n].day = log[n].day
      BY <3>1, KeptFields
    <3>. QED BY <3>1, <3>2 DEF Matches
  <2>. QED BY <2>1 DEF Keeps
<1> HIDE DEF m, m2
<1>4. 0 \in S
  BY <1>1, <1>2 DEF Keeps
<1>5. ASSUME NEW n \in Nat, n \in S PROVE n + 1 \in S
  <2> SUFFICES ASSUME n + 1 <= Len(log)
               PROVE  Len(m[n + 1]) = Len(m2[n + 1]) /\ Keeps(m[n + 1], m2[n + 1])
    OBVIOUS
  <2>1. /\ n < Len(log) /\ n < Len(log2) /\ n + 1 \in 1..Len(log)
        /\ m[n] \in Seq(Entry) /\ m2[n] \in Seq(Entry)
        /\ Len(m[n]) = Len(m2[n]) /\ Keeps(m[n], m2[n])
    BY <1>1, <1>2, <1>3, <1>5
  <2>2. CASE Matches(log[n + 1], filter)
    <3>1. m[n + 1] = Append(m[n], log[n + 1]) /\ m2[n + 1] = Append(m2[n], log2[n + 1])
      BY <1>1, <1>2, <1>3, <2>1, <2>2
    <3>2. Shown(log2[n + 1]) = Shown(log[n + 1])
      BY <1>3, <2>1
    <3>3. log[n + 1] \in Entry /\ log2[n + 1] \in Entry
      BY <2>1
    <3> DEFINE s == m[n]
               t == m2[n]
               r == log[n + 1]
               q == log2[n + 1]
    <3>4. /\ s \in Seq(Entry) /\ t \in Seq(Entry) /\ Len(s) = Len(t) /\ Keeps(s, t)
          /\ r \in Entry /\ q \in Entry /\ Shown(q) = Shown(r)
      BY <2>1, <3>2, <3>3
    <3> HIDE DEF s, t, r, q
    <3>5. Len(Append(s, r)) = Len(Append(t, q)) /\ Keeps(Append(s, r), Append(t, q))
      BY <3>4, AppendKeeps
    <3>. QED BY <3>1, <3>5 DEF s, t, r, q
  <2>3. CASE ~Matches(log[n + 1], filter)
    <3>1. m[n + 1] = m[n] /\ m2[n + 1] = m2[n]
      BY <1>1, <1>2, <1>3, <2>1, <2>3
    <3>. QED BY <2>1, <3>1
  <2>. QED BY <2>2, <2>3
<1> HIDE DEF S
<1>6. Len(log) \in S
  BY <1>3, <1>4, <1>5, NatSetInduction
<1>7. 0 \in T
  BY <1>3, <1>6 DEF S
<1>8. ASSUME NEW n \in Nat, n \in T PROVE n + 1 \in T
  <2> SUFFICES ASSUME Len(log) <= n + 1, n + 1 <= Len(log2)
               PROVE  Keeps(m[Len(log)], m2[n + 1])
    OBVIOUS
  <2>1. CASE n + 1 = Len(log)
    BY <2>1, <1>6 DEF S
  <2>2. CASE Len(log) <= n
    <3>1. /\ n < Len(log2) /\ m[Len(log)] \in Seq(Entry) /\ m2[n] \in Seq(Entry)
          /\ Keeps(m[Len(log)], m2[n])
      BY <1>1, <1>2, <1>3, <1>8, <2>2
    <3>2. CASE m2[n + 1] = m2[n]
      BY <3>1, <3>2
    <3>3. CASE m2[n + 1] = Append(m2[n], log2[n + 1])
      BY <3>1, <3>3 DEF Keeps
    <3>. QED BY <1>2, <3>1, <3>2, <3>3
  <2>. QED BY <1>3, <2>1, <2>2
<1> HIDE DEF T
<1>9. Len(log2) \in T
  BY <1>3, <1>7, <1>8, NatSetInduction
<1>. QED
  BY <1>3, <1>9 DEF T, ContactStatement, m, m2

\* The footer in p counts a leading part of the rows, and its columns add up.
Counted(p, rows) ==
  /\ p.row_count \in 0 .. Len(rows)
  /\ p.debit + p.credit = SumOfAmounts(rows, 1 .. p.row_count)
  /\ p.filter = Everything =>
       p.debit - p.credit = Balance(SubSeq(rows, 1, p.row_count))

\* Its closing balance is that of a row at or after the last one counted.
Closed(p, rows) ==
  \/ p.closing = NoRow /\ p.row_count = 0
  \/ \E n \in DOMAIN rows : n >= p.row_count /\ p.closing = rows[n].after

\* What a view may have read.
Pages == [contact : Contacts, filter : Filters \cup {Everything}, balance : Int,
          row_count : Nat, debit : Int, credit : Int, closing : Int \cup {NoRow},
          rows : Seq(Entry)]

\* The invariant of the statement: what the view has read so far fits the rows as
\* they stand now, and once they are shown, the rows it shows.
StatementOK ==
  /\ BooksOK
  /\ step \in {"closed", "balance", "sums", "closing", "rows", "shown"}
  /\ page \in Pages
  /\ step \in {"closing", "rows"} => Counted(page, Now)
  /\ step = "rows" => Closed(page, Now)
  /\ step = "shown" => Counted(page, page.rows) /\ Closed(page, page.rows)

\* The amounts at places of a table have a sum.
LEMMA PlacesOK ==
  ASSUME NEW rows \in Seq(Entry), NEW S \in SUBSET DOMAIN rows
  PROVE  /\ IsFiniteSet(S)
         /\ SumOfAmounts(rows, S) \in Int
<1>1. IsFiniteSet(S)
  <2>1. IsFiniteSet(1..Len(rows)) /\ DOMAIN rows = 1..Len(rows)
    BY FS_Interval
  <2>. QED BY <2>1, FS_Subset
<1>2. ASSUME NEW n \in S PROVE [j \in DOMAIN rows |-> rows[j].amount][n] \in Int
  <2>1. rows[n] \in Entry
    OBVIOUS
  <2>. QED BY <2>1 DEF Entry
<1>. QED
  BY <1>1, <1>2, SumType DEF SumOfAmounts

\* The balance after the first n rows is what the last of them says.
LEMMA BalanceOfPart ==
  ASSUME NEW rows \in Seq(Entry), NEW n \in 0..Len(rows)
  PROVE  Balance(SubSeq(rows, 1, n)) = IF n = 0 THEN 0 ELSE rows[n].after
<1>1. SubSeq(rows, 1, n) \in Seq(Entry) /\ Len(SubSeq(rows, 1, n)) = n
  BY SubSeqProperties
<1>2. n # 0 => SubSeq(rows, 1, n)[n] = rows[n]
  BY SubSeqProperties
<1>. QED
  BY <1>1, <1>2 DEF Balance

\* A footer that fits a table fits it after further postings.
LEMMA CountKept ==
  ASSUME NEW rows \in Seq(Entry), NEW rows2 \in Seq(Entry), Keeps(rows, rows2),
         NEW p \in Pages
  PROVE  /\ Counted(p, rows) => Counted(p, rows2)
         /\ Closed(p, rows) => Closed(p, rows2)
<1>1. /\ Len(rows) \in Nat /\ Len(rows2) \in Nat /\ Len(rows) <= Len(rows2)
      /\ \A n \in 1..Len(rows) : rows2[n].amount = rows[n].amount /\ rows2[n].after = rows[n].after
  <2>1. \A n \in 1..Len(rows) : Shown(rows2[n]) = Shown(rows[n])
    BY DEF Keeps
  <2>2. \A n \in 1..Len(rows) : rows2[n].amount = rows[n].amount /\ rows2[n].after = rows[n].after
    BY <2>1, KeptFields
  <2>. QED BY <2>2 DEF Keeps
<1>2. ASSUME Counted(p, rows) PROVE Counted(p, rows2)
  <2> DEFINE n == p.row_count
  <2>1. n \in 0..Len(rows) /\ n \in 0..Len(rows2)
    BY <1>1, <1>2 DEF Counted
  <2>2. SumOfAmounts(rows, 1..n) = SumOfAmounts(rows2, 1..n)
    <3>1. 1..n \in SUBSET DOMAIN rows /\ 1..n \in SUBSET DOMAIN rows2
      BY <2>1
    <3>2. IsFiniteSet(1..n)
      BY <3>1, PlacesOK
    <3>3. ASSUME NEW j \in 1..n
          PROVE  /\ [k \in DOMAIN rows |-> rows[k].amount][j] \in Int
                 /\ [k \in DOMAIN rows |-> rows[k].amount][j] =
                      [k \in DOMAIN rows2 |-> rows2[k].amount][j]
      <4>1. /\ rows[j] \in Entry /\ j \in DOMAIN rows /\ j \in DOMAIN rows2
            /\ rows2[j].amount = rows[j].amount
        BY <1>1, <2>1
      <4>2. rows[j].amount \in Int
        BY <4>1 DEF Entry
      <4>. QED BY <4>1, <4>2
    <3> HIDE DEF n
    <3>. QED BY <3>2, <3>3, SumSame DEF SumOfAmounts
  <2>3. Balance(SubSeq(rows, 1, n)) = Balance(SubSeq(rows2, 1, n))
    <3>1. n # 0 => rows2[n].after = rows[n].after
      BY <1>1, <2>1
    <3>. QED BY <2>1, <3>1, BalanceOfPart
  <2>. QED BY <1>2, <2>1, <2>2, <2>3 DEF Counted
<1>3. ASSUME Closed(p, rows) PROVE Closed(p, rows2)
  BY <1>1, <1>3 DEF Closed
<1>. QED
  BY <1>2, <1>3

\* A footer read from the table fits it.
LEMMA FreshCount ==
  ASSUME NEW log, LogOK(log), NEW filter, NEW p \in Pages, p.filter = filter,
         p.row_count = Len(ContactStatement(log, filter)),
         p.debit = SumOfAmounts(ContactStatement(log, filter),
                     {n \in DOMAIN ContactStatement(log, filter) :
                        IsDebit(ContactStatement(log, filter)[n])}),
         p.credit = SumOfAmounts(ContactStatement(log, filter),
                      {n \in DOMAIN ContactStatement(log, filter) :
                         IsCredit(ContactStatement(log, filter)[n])})
  PROVE  Counted(p, ContactStatement(log, filter))
<1> DEFINE rows == ContactStatement(log, filter)
           Debits == {n \in DOMAIN rows : IsDebit(rows[n])}
           Credits == {n \in DOMAIN rows : IsCredit(rows[n])}
           amounts == [n \in DOMAIN rows |-> rows[n].amount]
           deltas == [n \in DOMAIN rows |-> rows[n].delta]
<1>1. /\ log \in Seq(Entry)
      /\ rows \in Seq(Entry)
      /\ \A j \in DOMAIN rows : \E k \in DOMAIN log : rows[j] = log[k]
  BY StatementRows DEF LogOK
<1>2. p.row_count = Len(rows) /\ p.debit = SumOfAmounts(rows, Debits)
      /\ p.credit = SumOfAmounts(rows, Credits)
  OBVIOUS
<1>3. filter = Everything => rows = log
  BY <1>1, StatementOfEverything
<1> HIDE DEF rows
<1>4. ASSUME NEW j \in DOMAIN rows
      PROVE  /\ rows[j].amount \in Int /\ rows[j].delta \in Int /\ rows[j].amount > 0
             /\ rows[j].delta \in {rows[j].amount, -rows[j].amount}
  <2>1. rows[j] \in Entry
    BY <1>1
  <2>2. PICK k \in DOMAIN log : rows[j] = log[k]
    BY <1>1
  <2>3. log[k].amount > 0 /\ log[k].delta \in {log[k].amount, -log[k].amount}
    BY DEF LogOK
  <2>. QED BY <2>1, <2>2, <2>3 DEF Entry
<1>5. /\ Debits \cup Credits = DOMAIN rows
      /\ Debits \cap Credits = {}
  <2>1. ASSUME NEW j \in DOMAIN rows PROVE ~(j \in Debits <=> j \in Credits)
    BY <1>4 DEF IsDebit, IsCredit
  <2>2. Debits \subseteq DOMAIN rows /\ Credits \subseteq DOMAIN rows
    OBVIOUS
  <2> HIDE DEF Debits, Credits
  <2>. QED BY <2>1, <2>2
<1>6. /\ Debits \in SUBSET DOMAIN rows /\ Credits \in SUBSET DOMAIN rows
      /\ DOMAIN rows = 1..Len(rows)
  BY <1>1
<1>7. \A j \in DOMAIN rows :
        /\ amounts[j] \in Int /\ deltas[j] \in Int
        /\ j \in Debits => deltas[j] = amounts[j]
        /\ j \in Credits => deltas[j] = -amounts[j]
  BY <1>4 DEF IsDebit, IsCredit
<1>8. IsFiniteSet(Debits) /\ IsFiniteSet(Credits)
  BY <1>1, <1>6, PlacesOK
<1> HIDE DEF Debits, Credits, deltas
<1>9. /\ p.debit = SumFunctionOnSet(amounts, Debits)
      /\ p.credit = SumFunctionOnSet(amounts, Credits)
      /\ SumOfAmounts(rows, 1..Len(rows)) = SumFunctionOnSet(amounts, DOMAIN rows)
  BY <1>2, <1>6 DEF SumOfAmounts
<1> HIDE DEF amounts
<1>10. p.debit + p.credit = SumOfAmounts(rows, 1 .. p.row_count)
  <2>1. \A j \in Debits \cup Credits : amounts[j] \in Int
    BY <1>5, <1>7
  <2>2. SumFunctionOnSet(amounts, Debits \cup Credits) =
          SumFunctionOnSet(amounts, Debits) + SumFunctionOnSet(amounts, Credits)
    BY <1>5, <1>8, <2>1, SumUnion
  <2>. QED BY <2>2, <1>2, <1>5, <1>9
<1>11. ASSUME filter = Everything
       PROVE  p.debit - p.credit = Balance(SubSeq(rows, 1, p.row_count))
  <2>1. \A j \in Debits \cup Credits : deltas[j] \in Int
    BY <1>5, <1>7
  <2>2. SumFunctionOnSet(deltas, Debits \cup Credits) =
          SumFunctionOnSet(deltas, Debits) + SumFunctionOnSet(deltas, Credits)
    BY <1>5, <1>8, <2>1, SumUnion
  <2>3. SumFunctionOnSet(deltas, Debits) = SumFunctionOnSet(amounts, Debits)
    BY <1>6, <1>7, <1>8, SumSame
  <2>4. SumFunctionOnSet(deltas, Credits) = -SumFunctionOnSet(amounts, Credits)
    BY <1>6, <1>7, <1>8, SumNegated
  <2>5. SumFunctionOnSet(deltas, DOMAIN rows) = Balance(log)
    BY <1>3, <1>11 DEF LogOK, Deltas, deltas
  <2>6. Balance(SubSeq(rows, 1, p.row_count)) = Balance(log)
    <3>1. SubSeq(rows, 1, Len(rows)) = rows
      BY <1>1, SubSeqFull
    <3>. QED BY <3>1, <1>2, <1>3, <1>11
  <2>7. SumFunctionOnSet(amounts, Debits) \in Int /\ SumFunctionOnSet(amounts, Credits) \in Int
    BY <1>6, <1>7, <1>8, SumType
  <2>. QED BY <2>2, <2>3, <2>4, <2>5, <2>6, <2>7, <1>5, <1>9
<1>. QED
  BY <1>1, <1>2, <1>10, <1>11 DEF Counted, rows

\* The invariant holds before anybody opens a statement.
LEMMA StatementInitOK ==
  ASSUME StatementInit
  PROVE  StatementOK
<1>1. PICK c \in Contacts : page = BlankPage(c, Everything)
  BY DEF StatementInit
<1>2. page \in Pages
  BY <1>1 DEF BlankPage, Pages
<1>. QED
  BY <1>2, BookInitOK DEF StatementInit, StatementOK

\* Every step of the view and of the books keeps the invariant.
LEMMA StatementNextOK ==
  ASSUME StatementOK, [StatementNext]_statementVars
  PROVE  StatementOK'
<1> USE DEF StatementOK
<1>1. page.contact \in Contacts
  BY DEF Pages
<1>2. /\ LogOK(book[page.contact]) /\ book[page.contact] \in Seq(Entry)
      /\ Now \in Seq(Entry)
  <2>1. LogOK(book[page.contact])
    BY <1>1 DEF BooksOK
  <2>. QED BY <2>1, StatementRows DEF LogOK, Now
<1>3. CASE OpenStatement
  <2>1. PICK c \in Contacts, filter \in Filters : page' = BlankPage(c, filter)
    BY <1>3 DEF OpenStatement
  <2>2. page' \in Pages
    BY <2>1 DEF BlankPage, Pages
  <2>. QED BY <1>3, <2>2 DEF OpenStatement, BooksOK
<1>4. CASE ReadBalance
  <2>1. Balance(book[page.contact]) \in Int
    BY <1>2, BalanceType
  <2>2. page' \in Pages
    BY <1>4, <2>1 DEF ReadBalance, Pages
  <2>. QED BY <1>4, <2>2 DEF ReadBalance, BooksOK
<1>5. CASE ReadSums
  <2> DEFINE Debits == {n \in DOMAIN Now : IsDebit(Now[n])}
             Credits == {n \in DOMAIN Now : IsCredit(Now[n])}
  <2>1. /\ page' = [page EXCEPT !.row_count = Len(Now),
                                !.debit     = SumOfAmounts(Now, Debits),
                                !.credit    = SumOfAmounts(Now, Credits)]
        /\ step' = "closing" /\ book' = book
    BY <1>5 DEF ReadSums
  <2>2. SumOfAmounts(Now, Debits) \in Int /\ SumOfAmounts(Now, Credits) \in Int /\ Len(Now) \in Nat
    BY <1>2, PlacesOK
  <2> HIDE DEF Debits, Credits
  <2>3. /\ page' \in Pages
        /\ page'.contact = page.contact /\ page'.filter = page.filter
        /\ page'.row_count = Len(Now)
        /\ page'.debit = SumOfAmounts(Now, Debits) /\ page'.credit = SumOfAmounts(Now, Credits)
    BY <2>1, <2>2 DEF Pages
  <2>4. Now' = Now
    BY <2>1, <2>3 DEF Now
  <2>5. Counted(page', Now)
    BY <1>2, <2>3, FreshCount DEF Now, Debits, Credits
  <2>. QED BY <2>1, <2>3, <2>4, <2>5 DEF BooksOK
<1>6. CASE ReadClosing
  <2>1. /\ page' = [page EXCEPT !.closing = IF Now = <<>> THEN NoRow ELSE Balance(Now)]
        /\ step = "closing" /\ step' = "rows" /\ book' = book
    BY <1>6 DEF ReadClosing
  <2>2. Now # <<>> => /\ Len(Now) \in DOMAIN Now
                      /\ Balance(Now) = Now[Len(Now)].after
                      /\ Now[Len(Now)].after \in Int
    <3>1. ASSUME Now # <<>>
          PROVE  Len(Now) \in DOMAIN Now /\ Now[Len(Now)] \in Entry
      BY <1>2, <3>1
    <3>. QED BY <3>1 DEF Balance, Entry
  <2>3. /\ page' \in Pages
        /\ page'.contact = page.contact /\ page'.filter = page.filter
        /\ page'.row_count = page.row_count
        /\ page'.debit = page.debit /\ page'.credit = page.credit
        /\ page'.closing = IF Now = <<>> THEN NoRow ELSE Balance(Now)
    BY <2>1, <2>2 DEF Pages
  <2>4. Now' = Now
    BY <2>1, <2>3 DEF Now
  <2>5. Counted(page, Now)
    BY <2>1
  <2>6. Counted(page', Now)
    BY <2>3, <2>5 DEF Counted
  <2>7. Closed(page', Now)
    BY <1>2, <2>2, <2>3, <2>5 DEF Closed, Counted
  <2>. QED BY <2>1, <2>3, <2>4, <2>6, <2>7 DEF BooksOK
<1>7. CASE RenderRows
  <2>1. /\ page' = [page EXCEPT !.rows = Now]
        /\ step = "rows" /\ step' = "shown" /\ book' = book
    BY <1>7 DEF RenderRows
  <2>2. /\ page' \in Pages
        /\ page'.filter = page.filter /\ page'.row_count = page.row_count
        /\ page'.debit = page.debit /\ page'.credit = page.credit
        /\ page'.closing = page.closing /\ page'.rows = Now
    BY <1>2, <2>1 DEF Pages
  <2>3. Counted(page, Now) /\ Closed(page, Now)
    BY <2>1
  <2>4. Counted(page', page'.rows) /\ Closed(page', page'.rows)
    BY <2>2, <2>3 DEF Counted, Closed
  <2>. QED BY <2>1, <2>2, <2>4 DEF BooksOK
<1>8. CASE LeaveStatement
  BY <1>8 DEF LeaveStatement, BooksOK
<1>9. CASE BooksMove /\ UNCHANGED <<step, page>>
  <2>1. BooksOK' /\ LogStep(book[page.contact], book'[page.contact])
    BY <1>1, <1>9, BooksMoveByTheBook, BookNextOK
  <2>2. Keeps(book[page.contact], book'[page.contact])
    BY <1>2, <2>1, LogStepKeeps
  <2>3. book'[page.contact] \in Seq(Entry)
    BY <1>1, <2>1 DEF BooksOK
  <2>4. Now' = ContactStatement(book'[page.contact], page.filter)
    BY <1>9 DEF Now
  <2>5. Keeps(Now, Now') /\ Now' \in Seq(Entry)
    BY <1>2, <2>2, <2>3, <2>4, StatementKeeps, StatementRows DEF Now
  <2>6. /\ Counted(page, Now) => Counted(page, Now')
        /\ Closed(page, Now) => Closed(page, Now')
    BY <1>2, <2>5, CountKept
  <2>. QED BY <1>9, <2>1, <2>6
<1>10. CASE UNCHANGED statementVars
  <2>1. Now' = Now
    BY <1>10 DEF Now, statementVars
  <2>. QED BY <1>10, <2>1 DEF statementVars, BooksOK
<1>. QED
  BY <1>3, <1>4, <1>5, <1>6, <1>7, <1>8, <1>9, <1>10 DEF StatementNext

\* The invariant holds at all times, typing included.
THEOREM StatementInvariant == StatementSpec => []StatementOK
<1>1. StatementInit => StatementOK
  BY StatementInitOK
<1>2. StatementOK /\ [StatementNext]_statementVars => StatementOK'
  BY StatementNextOK
<1>. QED
  BY <1>1, <1>2, PTL DEF StatementSpec

\* The books move under a statement as they move in Ledger, which implements BookSpec.
THEOREM StatementReadsTheBook == StatementSpec => BookSpec
<1>1. StatementInit => BookInit
  BY DEF StatementInit
<1>2. [StatementNext]_statementVars => [BookNext]_book
  BY BooksMoveByTheBook
  DEF StatementNext, statementVars, OpenStatement, ReadBalance, ReadSums, ReadClosing, RenderRows,
      LeaveStatement
<1>. QED
  BY <1>1, <1>2, PTL DEF StatementSpec, BookSpec

\* The footer of a statement describes an earlier moment of the table it stands
\* under, whatever is posted and reversed between the queries of the view.
THEOREM FootersFit == StatementSpec => []FooterIsOfThisTable
<1>1. StatementOK => FooterIsOfThisTable
  BY DEF StatementOK, FooterIsOfThisTable, Counted, Closed
<1>. QED
  BY <1>1, StatementInvariant, PTL

\* The columns of an unfiltered statement add up to the running balance of the last
\* row they count, for any postings and reversals.
THEOREM ColumnsReconcile == StatementSpec => []ColumnsAddUp
<1>1. StatementOK => ColumnsAddUp
  BY DEF StatementOK, ColumnsAddUp, Counted
<1>. QED
  BY <1>1, StatementInvariant, PTL

-----------------------------------------------------------------------------
(* The reports *)

\* s lists the rows by day, then by posting order.
IsOldestFirst(s, log, rows) ==
  /\ s \in [1 .. Cardinality(rows) -> rows]
  /\ Range(s) = rows
  /\ \A m, n \in DOMAIN s : m < n => Older(log, s[m], s[n])

\* Among finitely many rows, one comes after all the others.
LEMMA NewestRow ==
  ASSUME NEW log, \A k \in DOMAIN log : k \in Int /\ log[k].day \in Int,
         NEW S \in SUBSET DOMAIN log, IsFiniteSet(S), S # {}
  PROVE  \E m \in S : \A k \in S \ {m} : Older(log, k, m)
<1> DEFINE HasNewest(T) == \E m \in T : \A k \in T \ {m} : Older(log, k, m)
           P == {T \in SUBSET S : T = {} \/ HasNewest(T)}
<1>1. {} \in P
  OBVIOUS
<1>2. ASSUME NEW T \in SUBSET S, NEW x \in S \ T, T \in P
      PROVE  T \cup {x} \in P
  <2>1. CASE T = {}
    BY <2>1
  <2>2. CASE T # {}
    <3>1. PICK m \in T : \A k \in T \ {m} : Older(log, k, m)
      BY <1>2, <2>2
    <3>2. x # m /\ \A k \in T \cup {x} : k \in Int /\ log[k].day \in Int
      OBVIOUS
    <3>3. Older(log, m, x) \/ Older(log, x, m)
      BY <3>2 DEF Older
    <3>4. CASE Older(log, m, x)
      <4>1. \A k \in (T \cup {x}) \ {x} : Older(log, k, x)
        BY <3>1, <3>2, <3>4 DEF Older
      <4>. QED BY <4>1
    <3>5. CASE Older(log, x, m)
      <4>1. \A k \in (T \cup {x}) \ {m} : Older(log, k, m)
        BY <3>1, <3>5
      <4>. QED BY <4>1
    <3>. QED BY <3>3, <3>4, <3>5
  <2>. QED BY <2>1, <2>2
<1> HIDE DEF P
<1>3. S \in P
  BY <1>1, <1>2, FiniteInduction
<1>. QED
  BY <1>3 DEF P

\* Any rows of a log can be listed oldest first, and OldestFirst lists them so.
LEMMA OldestFirstOK ==
  ASSUME NEW log \in Seq(Entry), NEW rows \in SUBSET DOMAIN log
  PROVE  IsOldestFirst(OldestFirst(log, rows), log, rows)
<1> DEFINE N == {n \in Nat : \A T \in SUBSET DOMAIN log :
                   Cardinality(T) = n => \E s : IsOldestFirst(s, log, T)}
<1>0. /\ \A k \in DOMAIN log : k \in Int /\ log[k].day \in Int
      /\ \A T \in SUBSET DOMAIN log : IsFiniteSet(T)
  <2>1. ASSUME NEW k \in DOMAIN log PROVE k \in Int /\ log[k].day \in Int
    <3>1. log[k] \in Entry
      OBVIOUS
    <3>. QED BY <3>1 DEF Entry
  <2>2. IsFiniteSet(DOMAIN log)
    BY FS_Interval
  <2>. QED BY <2>1, <2>2, FS_Subset
<1>1. 0 \in N
  <2> SUFFICES ASSUME NEW T \in SUBSET DOMAIN log, Cardinality(T) = 0
               PROVE  \E s : IsOldestFirst(s, log, T)
    OBVIOUS
  <2>1. T = {}
    BY <1>0, FS_EmptySet
  <2>2. IsOldestFirst([i \in 1..0 |-> 0], log, T)
    BY <2>1 DEF IsOldestFirst, Range
  <2>. QED BY <2>2
<1>2. ASSUME NEW n \in Nat, n \in N PROVE n + 1 \in N
  <2> SUFFICES ASSUME NEW T \in SUBSET DOMAIN log, Cardinality(T) = n + 1
               PROVE  \E s : IsOldestFirst(s, log, T)
    OBVIOUS
  <2>1. IsFiniteSet(T) /\ T # {}
    BY <1>0, FS_EmptySet
  <2>2. PICK m \in T : \A k \in T \ {m} : Older(log, k, m)
    BY <1>0, <2>1, NewestRow
  <2>3. Cardinality(T \ {m}) = n
    <3>1. Cardinality(T \ {m}) = Cardinality(T) - 1
      BY <2>1, FS_RemoveElement
    <3>. QED BY <3>1
  <2>4. PICK s : IsOldestFirst(s, log, T \ {m})
    BY <1>2, <2>3
  <2> HIDE DEF N
  <2> DEFINE t == [i \in 1..(n + 1) |-> IF i = n + 1 THEN m ELSE s[i]]
  <2>5. s \in [1..n -> T \ {m}] /\ Range(s) = T \ {m}
    BY <2>3, <2>4 DEF IsOldestFirst
  <2>6. t \in [1..(n + 1) -> T]
    BY <2>5
  <2>7. Range(t) = T
    <3>1. ASSUME NEW k \in T PROVE \E i \in DOMAIN t : t[i] = k
      <4>1. CASE k = m
        BY <4>1
      <4>2. CASE k # m
        <5>1. PICK i \in 1..n : s[i] = k
          BY <4>2, <2>5 DEF Range
        <5>. QED BY <5>1
      <4>. QED BY <4>1, <4>2
    <3> HIDE DEF t
    <3>. QED BY <2>6, <3>1 DEF Range
  <2>8. ASSUME NEW i \in DOMAIN t, NEW j \in DOMAIN t, i < j
        PROVE  Older(log, t[i], t[j])
    <3>1. i \in 1..n /\ t[i] = s[i]
      BY <2>8
    <3>2. CASE j = n + 1
      BY <2>2, <2>5, <3>1, <3>2
    <3>3. CASE j # n + 1
      <4>1. j \in 1..n /\ t[j] = s[j]
        BY <3>3
      <4>. QED BY <2>3, <2>4, <2>8, <3>1, <4>1 DEF IsOldestFirst
    <3>. QED BY <3>2, <3>3
  <2> HIDE DEF t
  <2>9. IsOldestFirst(t, log, T)
    BY <2>6, <2>7, <2>8 DEF IsOldestFirst
  <2>. QED BY <2>9
<1> HIDE DEF N
<1>3. Cardinality(rows) \in N
  BY <1>0, <1>1, <1>2, FS_CardinalityType, NatSetInduction
<1>4. \E s : IsOldestFirst(s, log, rows)
  BY <1>3 DEF N
<1>. QED
  BY <1>4 DEF OldestFirst, IsOldestFirst

\* The order depends on the days of the rows alone.
LEMMA SameOrder ==
  ASSUME NEW log, NEW log2, NEW rows,
         \A k \in rows : log2[k].day = log[k].day
  PROVE  OldestFirst(log2, rows) = OldestFirst(log, rows)
<1>1. ASSUME NEW s \in [1 .. Cardinality(rows) -> rows]
      PROVE  (\A m, n \in DOMAIN s : m < n => Older(log2, s[m], s[n])) <=>
             (\A m, n \in DOMAIN s : m < n => Older(log, s[m], s[n]))
  BY DEF Older
<1>. QED
  BY <1>1 DEF OldestFirst

\* What an aging is.
Agings == [unapplied_credit : Int, buckets : [1..4 -> Int]]

\* There are four buckets, every age has one, and a greater age no younger one.
LEMMA FourBuckets ==
  /\ DOMAIN Buckets = 1..4 /\ Len(Buckets) = 4
  /\ IsFiniteSet(1..4)
  /\ \A age \in Int : Bucket(age) \in 1..4
  /\ \A age \in Int, age2 \in Int : age <= age2 => Bucket(age) <= Bucket(age2)
<1>1. DOMAIN Buckets = 1..4 /\ Len(Buckets) = 4
  BY DEF Buckets
<1>2. IsFiniteSet(1..4)
  <2>1. \A n \in Nat : IsFiniteSet(1..n)
    BY FS_Interval
  <2>. QED BY <2>1
<1>3. \A age \in Int : Bucket(age) \in 1..4
  BY DEF Bucket
<1>4. \A age \in Int, age2 \in Int : age <= age2 => Bucket(age) <= Bucket(age2)
  BY DEF Bucket
<1>. QED
  BY <1>1, <1>2, <1>3, <1>4

\* a satisfies the recursive definition of AgingUpTo.
IsAgingUpTo(a, log, entries, asOf) ==
  a = [n \in 0 .. Len(entries) |->
         IF n = 0 THEN PooledCredits(log, entries)
         ELSE LET row == log[entries[n]]
              IN IF row.delta > 0
                 THEN Pay(a[n - 1], row.delta, Bucket(asOf - row.day))
                 ELSE a[n - 1]]

\* Paying a debit makes an aging of an aging.
LEMMA PayType ==
  ASSUME NEW a \in Agings, NEW debit \in Int, NEW i \in 1..4
  PROVE  Pay(a, debit, i) \in Agings
BY DEF Pay, Lesser, Agings

\* The pool of the credits is an aging.
LEMMA PooledType ==
  ASSUME NEW log \in Seq(Entry), NEW entries \in Seq(DOMAIN log)
  PROVE  /\ {k \in Range(entries) : log[k].delta < 0} \in SUBSET DOMAIN log
         /\ \A S \in SUBSET DOMAIN log : IsFiniteSet(S)
         /\ \A k \in DOMAIN log : log[k].delta \in Int /\ log[k].day \in Int
         /\ PooledCredits(log, entries) \in Agings
<1>1. {k \in Range(entries) : log[k].delta < 0} \in SUBSET DOMAIN log
  BY DEF Range
<1>2. \A S \in SUBSET DOMAIN log : IsFiniteSet(S)
  <2>1. IsFiniteSet(DOMAIN log)
    BY FS_Interval
  <2>. QED BY <2>1, FS_Subset
<1>3. ASSUME NEW k \in DOMAIN log PROVE log[k].delta \in Int /\ log[k].day \in Int
  <2>1. log[k] \in Entry
    OBVIOUS
  <2>. QED BY <2>1 DEF Entry
<1> DEFINE S == {k \in Range(entries) : log[k].delta < 0}
           f == [k \in DOMAIN log |-> -log[k].delta]
<1>4. S \in SUBSET DOMAIN log /\ \A k \in DOMAIN log : f[k] \in Int
  BY <1>1, <1>3
<1> HIDE DEF S, f
<1>5. SumFunctionOnSet(f, S) \in Int
  BY <1>2, <1>4, SumType
<1>6. PooledCredits(log, entries) \in Agings
  BY <1>5, FourBuckets DEF PooledCredits, Agings, S, f
<1>. QED
  BY <1>1, <1>2, <1>3, <1>6

\* The recursive definition has a solution: AgingUpTo, one entry at a time.
LEMMA AgingSteps ==
  ASSUME NEW log \in Seq(Entry), NEW entries \in Seq(DOMAIN log), NEW asOf \in Int
  PROVE  /\ AgingUpTo(log, entries, asOf)[0] = PooledCredits(log, entries)
         /\ \A n \in 0 .. Len(entries) : AgingUpTo(log, entries, asOf)[n] \in Agings
         /\ \A n \in Nat : n < Len(entries) =>
              AgingUpTo(log, entries, asOf)[n + 1] =
                IF log[entries[n + 1]].delta > 0
                THEN Pay(AgingUpTo(log, entries, asOf)[n], log[entries[n + 1]].delta,
                         Bucket(asOf - log[entries[n + 1]].day))
                ELSE AgingUpTo(log, entries, asOf)[n]
<1> DEFINE N == Len(entries)
           V == Agings
           v0 == PooledCredits(log, entries)
           Add(n, a) == IF log[entries[n]].delta > 0
                        THEN Pay(a, log[entries[n]].delta, Bucket(asOf - log[entries[n]].day))
                        ELSE a
           round == [n \in 1..N |-> [a \in V |-> Add(n, a)]]
           Chosen == CHOOSE a : IsAgingUpTo(a, log, entries, asOf)
<1>1. N \in Nat /\ v0 \in V
  BY PooledType
<1>2. ASSUME NEW n \in 1..N, NEW a \in V PROVE Add(n, a) \in V
  <2>1. entries[n] \in DOMAIN log
    OBVIOUS
  <2>2. log[entries[n]].delta \in Int /\ log[entries[n]].day \in Int
    BY <2>1, PooledType
  <2>3. Bucket(asOf - log[entries[n]].day) \in 1..4
    BY <2>2, FourBuckets
  <2>. QED BY <2>2, <2>3, PayType
<1>3. round \in [1..N -> [V -> V]]
  BY <1>2
<1> HIDE DEF V, N, Add, v0
<1>4. PICK a : IsIteration(a, N, V, v0, round)
  <2> HIDE DEF round
  <2>. QED BY <1>1, <1>3, Iterates
<1>5. ASSUME NEW n \in 1..N PROVE a[n] = Add(n, a[n - 1])
  <2>1. n - 1 \in 0..N
    BY <1>1
  <2>2. a[n - 1] \in V
    BY <2>1, <1>4 DEF IsIteration
  <2>. QED BY <2>2, <1>4 DEF IsIteration
<1>6. IsAgingUpTo(a, log, entries, asOf)
  <2>1. a \in [0..N -> V] /\ a[0] = v0
    BY <1>4 DEF IsIteration
  <2> DEFINE Body(n) == IF n = 0 THEN v0 ELSE Add(n, a[n - 1])
  <2>2. \A n \in 0..N : a[n] = Body(n)
    BY <1>1, <1>5, <2>1
  <2> HIDE DEF Body
  <2>3. a = [n \in 0..N |-> Body(n)]
    BY <2>1, <2>2
  <2>. QED BY <2>3 DEF Body, Add, N, v0, IsAgingUpTo
<1>7. IsAgingUpTo(Chosen, log, entries, asOf)
  BY <1>6
<1>8. AgingUpTo(log, entries, asOf) = Chosen
  BY DEF AgingUpTo, IsAgingUpTo
<1> HIDE DEF Chosen
<1>9. /\ Chosen[0] = v0
      /\ \A n \in Nat : n < N => Chosen[n + 1] = Add(n + 1, Chosen[n])
  <2>1. \A n \in 0..N : Chosen[n] = IF n = 0 THEN v0 ELSE Add(n, Chosen[n - 1])
    BY <1>7 DEF IsAgingUpTo, Add, N, v0
  <2>2. ASSUME NEW n \in Nat, n < N
        PROVE  n + 1 \in 0..N /\ n + 1 # 0 /\ (n + 1) - 1 = n
    BY <1>1, <2>2
  <2>3. ASSUME NEW n \in Nat, n < N PROVE Chosen[n + 1] = Add(n + 1, Chosen[n])
    <3>1. n + 1 \in 0..N /\ n + 1 # 0 /\ (n + 1) - 1 = n
      BY <2>3, <2>2
    <3>2. Chosen[n + 1] = Add(n + 1, Chosen[(n + 1) - 1])
      BY <2>1, <3>1
    <3>. QED BY <3>1, <3>2
  <2>. QED BY <1>1, <2>1, <2>3
<1>10. \A n \in 0..N : Chosen[n] \in V
  <2> DEFINE S == {n \in Nat : n <= N => Chosen[n] \in V}
  <2>1. 0 \in S
    BY <1>1, <1>9
  <2>2. ASSUME NEW n \in Nat, n \in S PROVE n + 1 \in S
    <3> SUFFICES ASSUME n + 1 <= N PROVE Chosen[n + 1] \in V
      OBVIOUS
    <3>1. Chosen[n] \in V /\ n + 1 \in 1..N /\ n < N
      BY <2>2, <1>1
    <3>. QED BY <3>1, <1>2, <1>9
  <2> HIDE DEF S
  <2>3. \A n \in Nat : n \in S
    BY <2>1, <2>2, NatSetInduction
  <2>. QED BY <2>3, <1>1 DEF S
<1>. QED
  BY <1>8, <1>9, <1>10 DEF V, N, Add, v0

\* Nothing is due in a bucket younger than b.
NoneYounger(due, b) == \A i \in 1..4 : i < b => due[i] = 0

\* What first-in first-out means of the buckets when due[i] was due in bucket i and
\* credit is left: no bucket holds more than was due, credit is left only when
\* nothing is owed, and where an older bucket holds debt, nothing was paid of a
\* younger one.
FIFO(buckets, due, credit) ==
  /\ credit >= 0
  /\ \A i \in 1..4 : buckets[i] >= 0 /\ buckets[i] <= due[i]
  /\ credit > 0 => \A i \in 1..4 : buckets[i] = 0
  /\ \A i, j \in 1..4 : i < j /\ buckets[j] > 0 => buckets[i] = due[i]

\* The bucket of a row.
BucketOf(log, asOf, k) == Bucket(asOf - log[k].day)

\* What the debits come to, bucket by bucket.
Due(log, asOf, debits) ==
  [i \in 1..4 |->
     SumFunctionOnSet(Deltas(log), {k \in debits : BucketOf(log, asOf, k) = i})]

\* a is what a pool of credits leaves of the debits: first-in first-out, and with
\* nothing lost or invented.
Allocated(a, log, asOf, debits, pool) ==
  /\ a \in Agings
  /\ FIFO(a.buckets, Due(log, asOf, debits), a.unapplied_credit)
  /\ SumFunctionOnSet(a.buckets, 1..4) - a.unapplied_credit =
       SumFunctionOnSet(Deltas(log), debits) - pool

\* The deltas of rows have a sum.
LEMMA RowSums ==
  ASSUME NEW log \in Seq(Entry), NEW S \in SUBSET DOMAIN log
  PROVE  /\ IsFiniteSet(S)
         /\ \A k \in DOMAIN log : /\ Deltas(log)[k] = log[k].delta
                                  /\ Deltas(log)[k] \in Int
                                  /\ log[k].delta \in Int /\ log[k].day \in Int
         /\ SumFunctionOnSet(Deltas(log), S) \in Int
<1>1. IsFiniteSet(S)
  <2>1. IsFiniteSet(DOMAIN log)
    BY FS_Interval
  <2>. QED BY <2>1, FS_Subset
<1>2. ASSUME NEW k \in DOMAIN log
      PROVE  /\ Deltas(log)[k] = log[k].delta
             /\ Deltas(log)[k] \in Int
             /\ log[k].delta \in Int /\ log[k].day \in Int
  <2>1. log[k] \in Entry
    OBVIOUS
  <2>. QED BY <2>1 DEF Entry, Deltas
<1>3. SumFunctionOnSet(Deltas(log), S) \in Int
  BY <1>1, <1>2, SumType
<1>. QED
  BY <1>1, <1>2, <1>3

\* None of the rows is of a later day than row k.
NoneLater(log, rows, k) == \A d \in rows : log[d].day <= log[k].day

\* One debit more is due in its bucket, and when none was later, no debit of the
\* others is in a younger one.
LEMMA DueToo ==
  ASSUME NEW log \in Seq(Entry), NEW asOf \in Int, NEW D \in SUBSET DOMAIN log,
         NEW k \in DOMAIN log, k \notin D,
         NoneLater(log, D, k)
  PROVE  /\ BucketOf(log, asOf, k) \in 1..4
         /\ Due(log, asOf, D) \in [1..4 -> Int]
         /\ Raised(Due(log, asOf, D), Due(log, asOf, D \cup {k}), 1..4,
                   BucketOf(log, asOf, k), log[k].delta)
         /\ NoneYounger(Due(log, asOf, D), BucketOf(log, asOf, k))
<1> DEFINE b == BucketOf(log, asOf, k)
           due == Due(log, asOf, D)
           due2 == Due(log, asOf, D \cup {k})
<1>1. b \in 1..4
  BY RowSums, FourBuckets DEF BucketOf
<1> HIDE DEF b, due, due2
<1>2. ASSUME NEW i \in 1..4
      PROVE  /\ due[i] \in Int
             /\ due2[i] = IF i = b THEN due[i] + log[k].delta ELSE due[i]
             /\ i < b => due[i] = 0
  <2> DEFINE Of(S) == {d \in S : BucketOf(log, asOf, d) = i}
  <2>1. /\ Of(D) \in SUBSET DOMAIN log /\ IsFiniteSet(Of(D))
        /\ SumFunctionOnSet(Deltas(log), Of(D)) \in Int
        /\ \A d \in DOMAIN log : /\ Deltas(log)[d] = log[d].delta
                                 /\ Deltas(log)[d] \in Int
                                 /\ log[d].delta \in Int
                                 /\ log[d].day \in Int
    BY RowSums
  <2>2. due[i] = SumFunctionOnSet(Deltas(log), Of(D))
        /\ due2[i] = SumFunctionOnSet(Deltas(log), Of(D \cup {k}))
    BY DEF Due, due, due2
  <2>3. CASE i = b
    <3>1. Of(D \cup {k}) = Of(D) \cup {k} /\ k \notin Of(D)
      BY <2>3 DEF b
    <3> HIDE DEF Of
    <3>2. SumFunctionOnSet(Deltas(log), Of(D) \cup {k}) =
            SumFunctionOnSet(Deltas(log), Of(D)) + Deltas(log)[k]
      BY <2>1, <3>1, SumAdd
    <3>3. ~(i < b)
      BY <1>1, <2>3
    <3>. QED BY <2>1, <2>2, <2>3, <3>1, <3>2, <3>3
  <2>4. CASE i # b
    <3>1. Of(D \cup {k}) = Of(D)
      BY <2>4 DEF b
    <3>2. ASSUME i < b PROVE Of(D) = {}
      <4> SUFFICES ASSUME NEW d \in D, BucketOf(log, asOf, d) = i
                   PROVE  FALSE
        OBVIOUS
      <4>1. /\ log[d].day \in Int /\ log[k].day \in Int
            /\ log[d].day <= log[k].day
        BY <2>1 DEF NoneLater
      <4>2. asOf - log[k].day <= asOf - log[d].day
            /\ asOf - log[k].day \in Int /\ asOf - log[d].day \in Int
        BY <4>1
      <4>3. b <= BucketOf(log, asOf, d)
        BY <4>2, FourBuckets DEF BucketOf, b
      <4>. QED BY <1>1, <3>2, <4>3
    <3> HIDE DEF Of
    <3>3. i < b => due[i] = 0
      BY <2>2, <3>2, SumEmpty
    <3>. QED BY <2>1, <2>2, <2>4, <3>1, <3>3
  <2>. QED BY <2>3, <2>4
<1>3. due \in [1..4 -> Int]
  <2>1. due = [i \in 1..4 |-> due[i]]
    BY DEF Due, due
  <2>. QED BY <1>2, <2>1
<1>4. Raised(due, due2, 1..4, b, log[k].delta) /\ NoneYounger(due, b)
  BY <1>2 DEF Raised, NoneYounger
<1>. QED
  BY <1>1, <1>3, <1>4 DEF b, due, due2

\* What paying a debit does: a rest of it goes to its bucket, none if credit is left
\* and all of it if there was none.
LEMMA PayRest ==
  ASSUME NEW a \in Agings, a.unapplied_credit >= 0,
         NEW debit \in Int, debit > 0, NEW b \in 1..4
  PROVE  /\ Pay(a, debit, b) \in Agings
         /\ \E rest \in 0..debit :
              LET a2 == Pay(a, debit, b)
              IN /\ a2.unapplied_credit = a.unapplied_credit - debit + rest
                 /\ a2.unapplied_credit >= 0
                 /\ a2.unapplied_credit > 0 => rest = 0
                 /\ a.unapplied_credit = 0 => rest = debit
                 /\ Raised(a.buckets, a2.buckets, 1..4, b, rest)
<1> DEFINE u == a.unapplied_credit
           applied == Lesser(u, debit)
           rest == debit - applied
           a2 == Pay(a, debit, b)
<1>1. /\ u \in Int /\ u >= 0 /\ a.buckets \in [1..4 -> Int]
      /\ applied \in Int /\ applied = IF u < debit THEN u ELSE debit
  BY DEF Agings, Lesser
<1>2. a2.unapplied_credit = u - applied
      /\ a2.buckets = [a.buckets EXCEPT ![b] = @ + debit - applied]
  BY DEF Pay
<1>3. Pay(a, debit, b) \in Agings
  BY PayType
<1> HIDE DEF a2, applied, u
<1>4. Raised(a.buckets, a2.buckets, 1..4, b, rest)
  BY <1>1, <1>2 DEF Raised
<1>5. /\ rest \in 0..debit /\ u - applied = u - debit + rest /\ u - applied >= 0
      /\ u - applied > 0 => rest = 0
      /\ u = 0 => rest = debit
  BY <1>1
<1> HIDE DEF rest
<1>. QED
  BY <1>2, <1>3, <1>4, <1>5 DEF a2, u

\* Paying a debit keeps the order, when none due so far is in a younger bucket: were
\* credit to pay it in part while an older bucket holds debt, there would have been
\* credit left beside that debt.
LEMMA FIFOKept ==
  ASSUME NEW a \in Agings, NEW debit \in Int, debit > 0, NEW b \in 1..4,
         NEW due \in [1..4 -> Int], NEW due2,
         FIFO(a.buckets, due, a.unapplied_credit),
         Raised(due, due2, 1..4, b, debit), NoneYounger(due, b)
  PROVE  LET a2 == Pay(a, debit, b)
         IN /\ a2 \in Agings
            /\ FIFO(a2.buckets, due2, a2.unapplied_credit)
            /\ SumFunctionOnSet(a.buckets, 1..4) \in Int
            /\ a2.unapplied_credit \in Int
            /\ SumFunctionOnSet(a2.buckets, 1..4) - a2.unapplied_credit =
                 (SumFunctionOnSet(a.buckets, 1..4) - a.unapplied_credit) + debit
<1> DEFINE a2 == Pay(a, debit, b)
           u == a.unapplied_credit
           u2 == a2.unapplied_credit
           old == a.buckets
           new == a2.buckets
<1>1. u \in Int /\ u >= 0 /\ old \in [1..4 -> Int] /\ FIFO(old, due, u)
  BY DEF Agings, FIFO
<1>2. PICK rest \in 0..debit :
        /\ u2 = u - debit + rest
        /\ u2 >= 0
        /\ u2 > 0 => rest = 0
        /\ u = 0 => rest = debit
        /\ Raised(old, new, 1..4, b, rest)
  BY <1>1, PayRest
<1>3. a2 \in Agings /\ u2 \in Int
  <2>1. a2 \in Agings
    BY <1>1, PayRest
  <2>. QED BY <2>1 DEF Agings
<1> HIDE DEF a2, u, u2, old, new
<1>4. SumFunctionOnSet(new, 1..4) = SumFunctionOnSet(old, 1..4) + rest
      /\ SumFunctionOnSet(old, 1..4) \in Int
  <2> DEFINE I == 1..4
  <2>1. /\ rest \in Int /\ IsFiniteSet(I) /\ b \in I
        /\ \A y \in I : old[y] \in Int
        /\ Raised(old, new, I, b, rest)
    BY <1>1, <1>2, FourBuckets
  <2> HIDE DEF I
  <2>2. SumFunctionOnSet(new, I) = SumFunctionOnSet(old, I) + rest
        /\ SumFunctionOnSet(old, I) \in Int
    BY <2>1, SumRaise, SumType
  <2>. QED BY <2>2 DEF I
<1>5. SumFunctionOnSet(new, 1..4) - u2 = (SumFunctionOnSet(old, 1..4) - u) + debit
  BY <1>1, <1>2, <1>4
<1>6. FIFO(new, due2, u2)
  <2> USE <1>1, <1>2 DEF FIFO, Raised, NoneYounger
  <2>1. ASSUME NEW i \in 1..4 PROVE new[i] >= 0 /\ new[i] <= due2[i]
    OBVIOUS
  <2>2. ASSUME u2 > 0, NEW i \in 1..4 PROVE new[i] = 0
    BY <2>2
  <2>3. ASSUME NEW i \in 1..4, NEW j \in 1..4, i < j, new[j] > 0
        PROVE  new[i] = due2[i]
    <3>1. CASE j = b
      BY <2>3, <3>1
    <3>2. CASE j # b
      <4>1. old[j] > 0 /\ u = 0 /\ rest = debit
        BY <2>3, <3>2
      <4>2. old[i] = due[i]
        BY <2>3, <4>1
      <4>. QED BY <4>1, <4>2
    <3>. QED BY <3>1, <3>2
  <2>. QED BY <2>1, <2>2, <2>3
<1>. QED
  BY <1>3, <1>4, <1>5, <1>6 DEF a2, u, u2, old, new

\* So the allocation stays right when the next debit of the log is paid.
LEMMA PayKeeps ==
  ASSUME NEW log \in Seq(Entry), NEW asOf \in Int, NEW D \in SUBSET DOMAIN log,
         NEW k \in DOMAIN log, k \notin D, log[k].delta > 0,
         NoneLater(log, D, k),
         NEW pool \in Int, NEW a, Allocated(a, log, asOf, D, pool)
  PROVE  Allocated(Pay(a, log[k].delta, BucketOf(log, asOf, k)),
                   log, asOf, D \cup {k}, pool)
<1> DEFINE b == BucketOf(log, asOf, k)
           debit == log[k].delta
           a2 == Pay(a, debit, b)
           due == Due(log, asOf, D)
           due2 == Due(log, asOf, D \cup {k})
           paid == SumFunctionOnSet(Deltas(log), D)
           paid2 == SumFunctionOnSet(Deltas(log), D \cup {k})
<1>1. debit \in Int /\ debit > 0
  BY RowSums
<1>2. /\ b \in 1..4
      /\ due \in [1..4 -> Int]
      /\ Raised(due, due2, 1..4, b, debit)
      /\ NoneYounger(due, b)
  BY DueToo
<1>3. paid2 = paid + debit /\ paid \in Int
  <2>1. /\ IsFiniteSet(D)
        /\ \A d \in D \cup {k} : Deltas(log)[d] \in Int
        /\ Deltas(log)[k] = debit
        /\ paid \in Int
    BY RowSums
  <2>. QED BY <2>1, SumAdd
<1>4. /\ a \in Agings
      /\ FIFO(a.buckets, due, a.unapplied_credit)
      /\ SumFunctionOnSet(a.buckets, 1..4) - a.unapplied_credit = paid - pool
  BY DEF Allocated
<1> HIDE DEF b, debit, due, due2, paid, paid2
<1>5. /\ a2 \in Agings
      /\ FIFO(a2.buckets, due2, a2.unapplied_credit)
      /\ SumFunctionOnSet(a2.buckets, 1..4) - a2.unapplied_credit =
           (SumFunctionOnSet(a.buckets, 1..4) - a.unapplied_credit) + debit
  BY <1>1, <1>2, <1>4, FIFOKept
<1>6. (paid - pool) + debit = paid2 - pool
  BY <1>1, <1>3
<1> HIDE DEF a2
<1>. QED
  BY <1>4, <1>5, <1>6 DEF Allocated, a2, b, debit, due2, paid2

\* The rows that are debits.
Debits(log, rows) == {k \in rows : log[k].delta > 0}

\* The rows listed first.
FirstRows(entries, n) == {entries[m] : m \in 1..n}

\* Before any debit is paid the allocation is right.
LEMMA NothingAllocated ==
  ASSUME NEW log \in Seq(Entry), NEW asOf \in Int, NEW entries \in Seq(DOMAIN log)
  PROVE  Allocated(PooledCredits(log, entries), log, asOf, {},
                   PooledCredits(log, entries).unapplied_credit)
<1> DEFINE a == PooledCredits(log, entries)
           S == {k \in Range(entries) : log[k].delta < 0}
           f == [k \in DOMAIN log |-> -log[k].delta]
           zero == [k \in DOMAIN log |-> 0]
<1>1. a \in Agings /\ IsFiniteSet(S) /\ S \in SUBSET DOMAIN log
  BY PooledType
<1>2. \A k \in S : f[k] \in Int /\ zero[k] \in Int /\ zero[k] <= f[k] /\ zero[k] = 0
  BY <1>1, PooledType
<1> HIDE DEF zero
<1>3. a.unapplied_credit = SumFunctionOnSet(f, S) /\ \A i \in 1..4 : a.buckets[i] = 0
  BY FourBuckets DEF PooledCredits
<1> HIDE DEF a, S, f
<1>4. a.unapplied_credit >= 0 /\ a.unapplied_credit \in Int
  <2>1. SumFunctionOnSet(zero, S) <= SumFunctionOnSet(f, S)
    BY <1>1, <1>2, SumAtMost
  <2>2. SumFunctionOnSet(zero, S) = 0
    BY <1>1, <1>2, SumOfZeros
  <2>3. SumFunctionOnSet(f, S) \in Int
    BY <1>1, <1>2, SumType
  <2>. QED BY <1>3, <2>1, <2>2, <2>3
<1>5. SumFunctionOnSet(a.buckets, 1..4) = 0
  BY <1>3, FourBuckets, SumOfZeros
<1>6. \A i \in 1..4 : Due(log, asOf, {})[i] = 0
  <2>1. \A i \in 1..4 : {k \in {} : BucketOf(log, asOf, k) = i} = {}
    OBVIOUS
  <2>. QED BY <2>1, SumEmpty DEF Due
<1>7. FIFO(a.buckets, Due(log, asOf, {}), a.unapplied_credit)
  BY <1>3, <1>4, <1>6 DEF FIFO
<1>8. SumFunctionOnSet(Deltas(log), {}) = 0
  BY SumEmpty
<1>. QED
  BY <1>1, <1>4, <1>5, <1>7, <1>8 DEF Allocated, a

\* Rows listed oldest first are each listed, in order.
LEMMA OrderedRows ==
  ASSUME NEW log \in Seq(Entry), NEW rows \in SUBSET DOMAIN log,
         NEW entries, IsOldestFirst(entries, log, rows)
  PROVE  /\ entries \in Seq(DOMAIN log)
         /\ entries \in [1..Len(entries) -> rows]
         /\ Len(entries) \in Nat
         /\ FirstRows(entries, Len(entries)) = rows
         /\ \A m, n \in 1..Len(entries) : m < n => Older(log, entries[m], entries[n])
<1>1. Cardinality(rows) \in Nat
  BY RowSums, FS_CardinalityType
<1>2. /\ entries \in Seq(DOMAIN log) /\ Len(entries) = Cardinality(rows)
      /\ Range(entries) = rows
  BY <1>1 DEF IsOldestFirst
<1>3. DOMAIN entries = 1..Len(entries)
  BY <1>2
<1>4. Range(entries) = {entries[m] : m \in 1..Len(entries)}
  BY <1>3 DEF Range
<1>5. FirstRows(entries, Len(entries)) = rows
  BY <1>2, <1>4 DEF FirstRows
<1>. QED
  BY <1>1, <1>2, <1>3, <1>5 DEF IsOldestFirst

\* The allocation is right after any number of entries, by induction.
LEMMA AllocatedUpTo ==
  ASSUME NEW log \in Seq(Entry), NEW rows \in SUBSET DOMAIN log, NEW asOf \in Int,
         NEW entries, IsOldestFirst(entries, log, rows)
  PROVE  \A n \in 0..Len(entries) :
           Allocated(AgingUpTo(log, entries, asOf)[n], log, asOf,
                     Debits(log, FirstRows(entries, n)),
                     PooledCredits(log, entries).unapplied_credit)
<1> DEFINE N == Len(entries)
           D(n) == Debits(log, FirstRows(entries, n))
           up == AgingUpTo(log, entries, asOf)
           pool == PooledCredits(log, entries).unapplied_credit
<1>1. /\ entries \in Seq(DOMAIN log) /\ N \in Nat
      /\ entries \in [1..N -> rows]
      /\ \A m, n \in 1..N : m < n => Older(log, entries[m], entries[n])
  BY OrderedRows
<1>3. /\ up[0] = PooledCredits(log, entries)
      /\ \A n \in Nat : n < N =>
           up[n + 1] = IF log[entries[n + 1]].delta > 0
                       THEN Pay(up[n], log[entries[n + 1]].delta,
                                BucketOf(log, asOf, entries[n + 1]))
                       ELSE up[n]
  BY <1>1, AgingSteps DEF BucketOf
<1>4. pool \in Int
  BY <1>1, PooledType DEF Agings
<1> DEFINE S == {n \in Nat : n <= N => Allocated(up[n], log, asOf, D(n), pool)}
<1> HIDE DEF N, up, pool
<1>5. 0 \in S
  <2>1. D(0) = {}
    BY DEF Debits, FirstRows
  <2>2. Allocated(up[0], log, asOf, {}, pool)
    BY <1>1, <1>3, NothingAllocated DEF pool
  <2>. QED BY <2>1, <2>2
<1>6. ASSUME NEW n \in Nat, n \in S PROVE n + 1 \in S
  <2> SUFFICES ASSUME n + 1 <= N
               PROVE  Allocated(up[n + 1], log, asOf, D(n + 1), pool)
    OBVIOUS
  <2> DEFINE k == entries[n + 1]
  <2>1. Allocated(up[n], log, asOf, D(n), pool) /\ n < N /\ n + 1 \in 1..N
    BY <1>1, <1>6
  <2>2. k \in DOMAIN log
    BY <1>1, <2>1
  <2>3. FirstRows(entries, n + 1) = FirstRows(entries, n) \cup {k}
    <3>1. 1..(n + 1) = 1..n \cup {n + 1}
      OBVIOUS
    <3>. QED BY <3>1 DEF FirstRows
  <2>4. ASSUME NEW d \in FirstRows(entries, n)
        PROVE  d \in DOMAIN log /\ Older(log, d, k)
    <3>1. PICK m \in 1..n : d = entries[m]
      BY DEF FirstRows
    <3>2. m \in 1..N /\ m < n + 1
      BY <2>1, <1>1
    <3>. QED BY <1>1, <2>1, <3>1, <3>2
  <2> HIDE DEF k, S
  <2>5. CASE log[k].delta > 0
    <3>1. D(n + 1) = D(n) \cup {k}
      BY <2>3, <2>5 DEF Debits
    <3>2. D(n) \in SUBSET DOMAIN log
      BY <2>4 DEF Debits
    <3>3. ASSUME NEW d \in D(n) PROVE log[d].day <= log[k].day /\ d # k
      <4>1. Older(log, d, k) /\ d \in DOMAIN log
        BY <2>4 DEF Debits
      <4>2. log[d].day \in Int /\ log[k].day \in Int /\ k \in Int
        BY <2>2, <4>1, RowSums
      <4>. QED BY <4>1, <4>2 DEF Older
    <3> HIDE DEF D
    <3>4. NoneLater(log, D(n), k) /\ k \notin D(n)
      BY <3>3 DEF NoneLater
    <3>5. up[n + 1] = Pay(up[n], log[k].delta, BucketOf(log, asOf, k))
      BY <1>3, <2>1, <2>5 DEF k
    <3>. QED BY <1>4, <2>1, <2>2, <2>5, <3>1, <3>2, <3>4, <3>5, PayKeeps
  <2>6. CASE ~(log[k].delta > 0)
    <3>1. D(n + 1) = D(n)
      BY <2>3, <2>6 DEF Debits
    <3>2. up[n + 1] = up[n]
      BY <1>3, <2>1, <2>6 DEF k
    <3>. QED BY <2>1, <3>1, <3>2
  <2>. QED BY <2>5, <2>6
<1> HIDE DEF S
<1>7. \A n \in Nat : n \in S
  BY <1>5, <1>6, NatSetInduction
<1>8. \A n \in 0..N : Allocated(up[n], log, asOf, D(n), pool)
  BY <1>1, <1>7 DEF S
<1>. QED
  BY <1>1, <1>8 DEF N, up, pool

\* The aging of any rows of a log is first-in first-out, and debt less credit is the
\* sum of their deltas.
LEMMA AgingOfRows ==
  ASSUME NEW log, LogOK(log), NEW rows \in SUBSET DOMAIN log, NEW asOf \in Int
  PROVE  LET a == AgingFromEntries(log, OldestFirst(log, rows), asOf)
         IN /\ a \in Agings
            /\ FIFO(a.buckets, Due(log, asOf, Debits(log, rows)), a.unapplied_credit)
            /\ SumFunctionOnSet(a.buckets, 1..4) - a.unapplied_credit =
                 SumFunctionOnSet(Deltas(log), rows)
<1> DEFINE entries == OldestFirst(log, rows)
           a == AgingFromEntries(log, entries, asOf)
           credits == {k \in rows : log[k].delta < 0}
           debits == Debits(log, rows)
           pool == PooledCredits(log, entries).unapplied_credit
           f == [k \in DOMAIN log |-> -log[k].delta]
<1>1. log \in Seq(Entry) /\ \A k \in DOMAIN log : log[k].delta \in Int /\ log[k].delta # 0
  <2>1. ASSUME NEW k \in DOMAIN log PROVE log[k].delta \in Int /\ log[k].delta # 0
    <3>1. log[k] \in Entry
      BY DEF LogOK
    <3>2. log[k].amount \in Int /\ log[k].delta \in Int
      BY <3>1 DEF Entry
    <3>. QED BY <3>2 DEF LogOK
  <2>. QED BY <2>1 DEF LogOK
<1>2. IsOldestFirst(entries, log, rows)
  BY <1>1, OldestFirstOK
<1> HIDE DEF entries
<1>3. Allocated(a, log, asOf, debits, pool)
  <2>1. Len(entries) \in Nat /\ FirstRows(entries, Len(entries)) = rows
    BY <1>1, <1>2, OrderedRows
  <2>2. Len(entries) \in 0..Len(entries)
    BY <2>1
  <2>. QED BY <1>1, <1>2, <2>1, <2>2, AllocatedUpTo DEF AgingFromEntries
<1>4. pool = SumFunctionOnSet(f, credits)
  BY <1>2 DEF PooledCredits, IsOldestFirst
<1>5. /\ credits \in SUBSET DOMAIN log /\ debits \in SUBSET DOMAIN log
      /\ credits \cap debits = {} /\ credits \cup debits = rows
  <2>1. /\ \A k \in rows : log[k].delta < 0 \/ log[k].delta > 0
        /\ \A k \in rows : ~(log[k].delta < 0 /\ log[k].delta > 0)
    BY <1>1
  <2>. QED BY <2>1 DEF Debits
<1>6. \A k \in DOMAIN log : /\ Deltas(log)[k] \in Int
                            /\ f[k] = -Deltas(log)[k]
  BY <1>1 DEF Deltas
<1> HIDE DEF f, credits, debits, pool, a
<1>7. IsFiniteSet(credits) /\ IsFiniteSet(debits)
      /\ SumFunctionOnSet(Deltas(log), credits) \in Int
      /\ SumFunctionOnSet(Deltas(log), debits) \in Int
  BY <1>1, <1>5, RowSums
<1>8. pool = -SumFunctionOnSet(Deltas(log), credits)
  <2>1. \A k \in credits : Deltas(log)[k] \in Int /\ f[k] = -Deltas(log)[k]
    BY <1>5, <1>6
  <2>. QED BY <1>4, <1>7, <2>1, SumNegated
<1>9. SumFunctionOnSet(Deltas(log), rows) =
        SumFunctionOnSet(Deltas(log), credits) + SumFunctionOnSet(Deltas(log), debits)
  <2>1. \A k \in credits \cup debits : Deltas(log)[k] \in Int
    BY <1>5, <1>6
  <2>2. SumFunctionOnSet(Deltas(log), credits \cup debits) =
        SumFunctionOnSet(Deltas(log), credits) + SumFunctionOnSet(Deltas(log), debits)
    BY <1>5, <1>7, <2>1, SumUnion
  <2>. QED BY <1>5, <2>2
<1>10. SumFunctionOnSet(a.buckets, 1..4) - a.unapplied_credit =
         SumFunctionOnSet(Deltas(log), debits) - pool
  BY <1>3 DEF Allocated
<1>11. SumFunctionOnSet(a.buckets, 1..4) - a.unapplied_credit = SumFunctionOnSet(Deltas(log), rows)
  BY <1>7, <1>8, <1>9, <1>10
<1>. QED
  BY <1>3, <1>11 DEF Allocated, a, debits, entries

\* The invariant of the reports.
ReportsOK ==
  /\ BooksOK
  /\ active \in [Contacts -> BOOLEAN]
  /\ today \in Int

\* The invariant holds at first.
LEMMA ReportsInitOK ==
  ASSUME ReportsInit
  PROVE  ReportsOK
BY BookInitOK, ReportConstants DEF ReportsInit, ReportsOK

\* Every step keeps the invariant.
LEMMA ReportsNextOK ==
  ASSUME ReportsOK, [ReportsNext]_reportVars
  PROVE  ReportsOK'
<1> USE DEF ReportsOK
<1>1. CASE BooksMove /\ UNCHANGED <<active, today>>
  BY <1>1, BooksMoveByTheBook, BookNextOK
<1>2. ASSUME NEW c \in Contacts, ArchiveContact(c) \/ RestoreContact(c)
      PROVE  ReportsOK'
  BY <1>2 DEF ArchiveContact, RestoreContact, BooksOK
<1>3. CASE DaysPass
  BY <1>3, ReportConstants DEF DaysPass, BooksOK
<1>4. CASE UNCHANGED reportVars
  BY <1>4 DEF reportVars, BooksOK
<1>. QED
  BY <1>1, <1>2, <1>3, <1>4 DEF ReportsNext

\* The invariant holds at all times, typing included.
THEOREM ReportsInvariant == ReportsSpec => []ReportsOK
<1>1. ReportsInit => ReportsOK
  BY ReportsInitOK
<1>2. ReportsOK /\ [ReportsNext]_reportVars => ReportsOK'
  BY ReportsNextOK
<1>. QED
  BY <1>1, <1>2, PTL DEF ReportsSpec

\* The aging of a log in order and its last balance_after tell the same.
LEMMA AgingBalances ==
  ASSUME NEW log, LogOK(log), NEW asOf \in Int
  PROVE  LET a == Aging(log, asOf)
         IN /\ a \in Agings
            /\ FIFO(a.buckets, Due(log, asOf, Debits(log, Live(log))), a.unapplied_credit)
            /\ Balance(log) \in Int
            /\ Total(a) = SumFunctionOnSet(a.buckets, 1..4)
            /\ Total(a) = IF Balance(log) > 0 THEN Balance(log) ELSE 0
            /\ a.unapplied_credit = IF Balance(log) < 0 THEN -Balance(log) ELSE 0
<1> DEFINE a == Aging(log, asOf)
           u == a.unapplied_credit
           owed == SumFunctionOnSet(a.buckets, 1..4)
           due == Due(log, asOf, Debits(log, Live(log)))
           zero == [i \in 1..4 |-> 0]
<1>1. /\ a \in Agings
      /\ FIFO(a.buckets, due, u)
      /\ owed - u = SumFunctionOnSet(Deltas(log), Live(log))
  <2>1. Live(log) \in SUBSET DOMAIN log
    BY DEF Live
  <2>. QED BY <2>1, AgingOfRows DEF Aging, LiveEntries
<1>2. SumFunctionOnSet(Deltas(log), Live(log)) = Balance(log) /\ Balance(log) \in Int
  BY BalanceType DEF LogOK
<1> HIDE DEF a, zero, due
<1>3. /\ a.buckets \in [1..4 -> Int] /\ u \in Int /\ u >= 0
      /\ \A i \in 1..4 : a.buckets[i] >= 0
      /\ u > 0 => \A i \in 1..4 : a.buckets[i] = 0
  BY <1>1 DEF Agings, FIFO
<1>4. Total(a) = owed
  BY <1>3 DEF Total, SumFunction
<1>5. owed \in Int /\ owed >= 0
  <2>1. /\ IsFiniteSet(1..4)
        /\ \A i \in 1..4 : zero[i] \in Int /\ zero[i] = 0 /\ a.buckets[i] \in Int
                           /\ zero[i] <= a.buckets[i]
    BY <1>3, FourBuckets DEF zero
  <2>2. SumFunctionOnSet(zero, 1..4) <= owed
    BY <2>1, SumAtMost
  <2>3. SumFunctionOnSet(zero, 1..4) = 0
    BY <2>1, SumOfZeros
  <2>4. owed \in Int
    BY <2>1, SumType
  <2>. QED BY <2>2, <2>3, <2>4
<1>6. u > 0 => owed = 0
  BY <1>3, FourBuckets, SumOfZeros
<1> HIDE DEF u, owed
<1>7. /\ owed = IF Balance(log) > 0 THEN Balance(log) ELSE 0
      /\ u = IF Balance(log) < 0 THEN -Balance(log) ELSE 0
  <2>1. owed - u = Balance(log)
    BY <1>1, <1>2
  <2>. QED BY <1>2, <1>3, <1>5, <1>6, <2>1
<1>. QED
  BY <1>1, <1>2, <1>4, <1>7 DEF a, u, owed, due

\* The aging of a log on a day tells what its last row does.
AgedExactly(log, asOf) ==
  /\ Total(Aging(log, asOf)) = IF Balance(log) > 0 THEN Balance(log) ELSE 0
  /\ Aging(log, asOf).unapplied_credit = IF Balance(log) < 0 THEN -Balance(log) ELSE 0

\* The books that Ledger implements age exactly on every day, trades included.
THEOREM BooksAgeExactly ==
  BookSpec => [](\A c \in Contacts : \A asOf \in Int : AgedExactly(book[c], asOf))
<1>1. BooksOK => \A c \in Contacts : \A asOf \in Int : AgedExactly(book[c], asOf)
  <2> SUFFICES ASSUME BooksOK, NEW c \in Contacts, NEW asOf \in Int
               PROVE  AgedExactly(book[c], asOf)
    OBVIOUS
  <2>1. LogOK(book[c])
    BY DEF BooksOK
  <2>. QED BY <2>1, AgingBalances DEF AgedExactly
<1>. QED
  BY <1>1, BooksStayInOrder, PTL

\* The books move under the reports as they move in Ledger, which implements BookSpec.
THEOREM ReportsReadTheBook == ReportsSpec => BookSpec
<1>1. ReportsInit => BookInit
  BY DEF ReportsInit
<1>2. [ReportsNext]_reportVars => [BookNext]_book
  BY BooksMoveByTheBook DEF ReportsNext, reportVars, ArchiveContact, RestoreContact, DaysPass
<1>. QED
  BY <1>1, <1>2, PTL DEF ReportsSpec, BookSpec

\* The aging of a contact is exactly what the last row of the ledger says, whatever
\* was posted and reversed and on whichever day it is drawn.
THEOREM AgingIsExact == ReportsSpec => []AgingMatchesBalance
<1>1. ASSUME ReportsOK
      PROVE  AgingMatchesBalance
  <2> SUFFICES ASSUME NEW c \in Contacts
               PROVE  /\ Total(ContactAging(c)) =
                           IF CurrentBalance(c) > 0 THEN CurrentBalance(c) ELSE 0
                      /\ ContactAging(c).unapplied_credit =
                           IF CurrentBalance(c) < 0 THEN -CurrentBalance(c) ELSE 0
    BY DEF AgingMatchesBalance
  <2>1. LogOK(book[c]) /\ today \in Int
    BY <1>1 DEF ReportsOK, BooksOK
  <2>. QED BY <2>1, AgingBalances DEF ContactAging, CurrentBalance
<1>. QED
  BY <1>1, ReportsInvariant, PTL

\* Credits pay the oldest debts first: while a bucket holds unpaid debt, nothing of a
\* younger bucket has been paid.
THEOREM OldestDebtsPaidFirst == ReportsSpec => []OldestPaidFirst
<1>1. ASSUME ReportsOK
      PROVE  OldestPaidFirst
  <2> SUFFICES ASSUME NEW c \in Contacts, NEW i \in 1..4, NEW j \in 1..4, i < j,
                      ContactAging(c).buckets[j] > 0
               PROVE  ContactAging(c).buckets[i] = LiveDebits(c, i)
    BY FourBuckets DEF OldestPaidFirst
  <2> DEFINE log == book[c]
             due == Due(log, today, Debits(log, Live(log)))
  <2>1. LogOK(log) /\ today \in Int
    BY <1>1 DEF ReportsOK, BooksOK
  <2>2. FIFO(ContactAging(c).buckets, due, ContactAging(c).unapplied_credit)
    BY <2>1, AgingBalances DEF ContactAging
  <2>3. ContactAging(c).buckets[i] = due[i]
    BY <2>2 DEF FIFO
  <2>4. {k \in Debits(log, Live(log)) : BucketOf(log, today, k) = i} =
          {k \in Live(log) : log[k].delta > 0 /\ Bucket(today - log[k].day) = i}
    BY DEF Debits, BucketOf
  <2>5. due[i] = LiveDebits(c, i)
    BY <2>4 DEF Due, LiveDebits, Deltas
  <2>. QED BY <2>3, <2>5
<1>. QED
  BY <1>1, ReportsInvariant, PTL

\* The summary of a business and its aging report tell the same: a contact left out
\* of the summary is settled, and the rest is a table summed by rows or by columns.
LEMMA SummaryAgrees ==
  ASSUME ReportsOK, NEW b \in Businesses
  PROVE  LET aging   == BusinessAging(b)
             summary == BusinessFinancialSummary(b)
         IN /\ Total(aging) = summary.receivable_total
            /\ aging.unapplied_credit = summary.payable_total
            /\ summary.net_balance = summary.receivable_total - summary.payable_total
<1> DEFINE C == ContactsOf(b)
           aged == [c \in C |-> ContactAging(c)]
           bal == [c \in Contacts |-> SummedBalance(c)]
           rows == ContactBalances(b)
           debtors == {c \in rows : bal[c] > 0}
           creditors == rows \ debtors
           F == [c \in C |-> aged[c].buckets]
           byContact == [c \in C |-> SumFunctionOnSet(F[c], 1..4)]
           byBucket == [i \in 1..4 |-> SumFunctionOnSet([c \in C |-> F[c][i]], C)]
           credit == [c \in C |-> aged[c].unapplied_credit]
           payable == [c \in Contacts |-> -bal[c]]
<1>1. IsFiniteSet(C) /\ C \subseteq Contacts /\ rows \subseteq C
  BY PostingConstants, FS_Subset DEF ContactsOf, ContactBalances
<1>2. ASSUME NEW c \in C
      PROVE  /\ bal[c] \in Int
             /\ F[c] \in [1..4 -> Int]
             /\ byContact[c] = IF bal[c] > 0 THEN bal[c] ELSE 0
             /\ credit[c] = IF bal[c] < 0 THEN -bal[c] ELSE 0
             /\ c \notin rows => bal[c] = 0
  <2>1. c \in Contacts /\ LogOK(book[c]) /\ today \in Int
    BY <1>1 DEF ReportsOK, BooksOK
  <2>2. bal[c] = Balance(book[c])
    BY <2>1 DEF SummedBalance, SumFunction, LogOK, Deltas
  <2>3. aged[c] = Aging(book[c], today)
    BY DEF ContactAging
  <2>4. /\ aged[c] \in Agings
        /\ Balance(book[c]) \in Int
        /\ SumFunctionOnSet(aged[c].buckets, 1..4) =
             IF Balance(book[c]) > 0 THEN Balance(book[c]) ELSE 0
        /\ aged[c].unapplied_credit =
             IF Balance(book[c]) < 0 THEN -Balance(book[c]) ELSE 0
    BY <2>1, <2>3, AgingBalances
  <2>5. c \notin rows => bal[c] = 0
    BY <2>1 DEF ContactBalances
  <2> HIDE DEF bal, aged, rows
  <2>6. F[c] = aged[c].buckets /\ credit[c] = aged[c].unapplied_credit
        /\ byContact[c] = SumFunctionOnSet(aged[c].buckets, 1..4)
    OBVIOUS
  <2>7. aged[c].buckets \in [1..4 -> Int]
    BY <2>4 DEF Agings
  <2> HIDE DEF F, byContact, credit
  <2>. QED BY <2>2, <2>4, <2>5, <2>6, <2>7
<1>3. debtors \subseteq rows /\ creditors \subseteq rows /\ debtors \cap creditors = {}
      /\ debtors \cup creditors = rows
      /\ \A c \in rows : c \in debtors <=> bal[c] > 0
  OBVIOUS
<1>4. \A c \in C : payable[c] = -bal[c]
  BY <1>1
<1>5. /\ BusinessAging(b).unapplied_credit = SumFunctionOnSet(credit, C)
      /\ Total(BusinessAging(b)) = SumFunctionOnSet(byBucket, 1..4)
  <2>1. BusinessAging(b).unapplied_credit = SumFunctionOnSet(credit, C)
    BY DEF BusinessAging, SumFunction
  <2>2. BusinessAging(b).buckets =
          [i \in 1..4 |-> SumFunctionOnSet([c \in C |-> aged[c].buckets[i]], C)]
    BY FourBuckets DEF BusinessAging, SumFunction
  <2>3. \A i \in 1..4 : [c \in C |-> aged[c].buckets[i]] = [c \in C |-> F[c][i]]
    <3> HIDE DEF aged, C
    <3>. QED OBVIOUS
  <2>4. BusinessAging(b).buckets = byBucket
    <3> HIDE DEF aged, F, C
    <3>. QED BY <2>2, <2>3
  <2>. QED BY <2>1, <2>4 DEF Total, SumFunction
<1>6. LET summary == BusinessFinancialSummary(b)
      IN /\ summary.receivable_total = SumFunctionOnSet(bal, debtors)
         /\ summary.payable_total = -SumFunctionOnSet(bal, creditors)
         /\ summary.net_balance = SumFunctionOnSet(bal, rows)
  BY DEF BusinessFinancialSummary
<1> DEFINE I == 1..4
<1>7. IsFiniteSet(I) /\ \A c \in C, i \in I : F[c][i] \in Int
  BY <1>2, FourBuckets
<1>8. byContact = ByRow(F, C, I) /\ byBucket = ByColumn(F, C, I)
  BY DEF ByRow, ByColumn
<1> HIDE DEF C, aged, bal, rows, debtors, creditors, F, byContact, byBucket, credit, payable, I
<1>9. SumFunctionOnSet(byBucket, I) = SumFunctionOnSet(byContact, C)
  BY <1>1, <1>7, <1>8, SumSwap
<1>10. IsFiniteSet(rows) /\ IsFiniteSet(debtors) /\ IsFiniteSet(creditors)
       /\ debtors \in SUBSET C /\ creditors \in SUBSET C
  BY <1>1, <1>3, FS_Subset
<1>11. SumFunctionOnSet(byContact, C) = SumFunctionOnSet(bal, debtors)
  <2>1. \A c \in debtors : byContact[c] \in Int /\ byContact[c] = bal[c]
    BY <1>2, <1>3, <1>10
  <2>2. \A c \in C \ debtors : byContact[c] = 0
    BY <1>2, <1>3
  <2>. QED BY <1>1, <1>10, <2>1, <2>2, SumWhere
<1>12. SumFunctionOnSet(credit, C) = -SumFunctionOnSet(bal, creditors)
  <2>1. \A c \in creditors : /\ credit[c] \in Int /\ credit[c] = payable[c]
                             /\ bal[c] \in Int /\ payable[c] = -bal[c]
    BY <1>2, <1>3, <1>4, <1>10
  <2>2. \A c \in C \ creditors : credit[c] = 0
    BY <1>2, <1>3
  <2>3. SumFunctionOnSet(credit, C) = SumFunctionOnSet(payable, creditors)
    BY <1>1, <1>10, <2>1, <2>2, SumWhere
  <2>4. SumFunctionOnSet(payable, creditors) = -SumFunctionOnSet(bal, creditors)
    BY <1>10, <2>1, SumNegated
  <2>. QED BY <2>3, <2>4
<1>13. /\ SumFunctionOnSet(bal, rows) =
            SumFunctionOnSet(bal, debtors) + SumFunctionOnSet(bal, creditors)
       /\ SumFunctionOnSet(bal, debtors) \in Int
       /\ SumFunctionOnSet(bal, creditors) \in Int
  <2>1. \A c \in debtors \cup creditors : bal[c] \in Int
    BY <1>1, <1>2, <1>3
  <2>2. SumFunctionOnSet(bal, debtors \cup creditors) =
          SumFunctionOnSet(bal, debtors) + SumFunctionOnSet(bal, creditors)
    BY <1>3, <1>10, <2>1, SumUnion
  <2>. QED BY <1>3, <1>10, <2>1, <2>2, SumType
<1>14. Total(BusinessAging(b)) = SumFunctionOnSet(byContact, C)
  BY <1>5, <1>9 DEF I
<1>. QED
  BY <1>5, <1>6, <1>11, <1>12, <1>13, <1>14

\* The aging report and the financial summary of a business agree at all times,
\* whoever was archived with whatever balance.
THEOREM ReportsReconcile == ReportsSpec => []SummaryReconciles
<1>1. ASSUME ReportsOK
      PROVE  SummaryReconciles
  BY <1>1, SummaryAgrees DEF SummaryReconciles
<1>. QED
  BY <1>1, ReportsInvariant, PTL

-----------------------------------------------------------------------------

\* a2 is a some days later: the same credit, and no less debt from any bucket on.
AgesTo(a, a2) ==
  /\ a \in Agings /\ a2 \in Agings
  /\ a2.unapplied_credit = a.unapplied_credit
  /\ a.unapplied_credit >= 0
  /\ \A i \in 1..4 : OwedFrom(a2, i) >= OwedFrom(a, i)

\* A debit that has grown older leaves an older aging.
LEMMA PayAges ==
  ASSUME NEW a, NEW a2, AgesTo(a, a2), NEW debit \in Int, debit > 0,
         NEW b \in 1..4, NEW b2 \in 1..4, b <= b2
  PROVE  AgesTo(Pay(a, debit, b), Pay(a2, debit, b2))
<1> DEFINE p == Pay(a, debit, b)
           p2 == Pay(a2, debit, b2)
<1>1. /\ a \in Agings /\ a2 \in Agings
      /\ a.unapplied_credit \in Int /\ a.unapplied_credit >= 0
      /\ a2.unapplied_credit = a.unapplied_credit /\ a2.unapplied_credit >= 0
      /\ a.buckets \in [1..4 -> Int] /\ a2.buckets \in [1..4 -> Int]
  BY DEF AgesTo, Agings
<1>2. p \in Agings /\ p2 \in Agings
  BY <1>1, PayRest
<1>3. p2.unapplied_credit = p.unapplied_credit
  BY <1>1 DEF Pay
<1> HIDE DEF p, p2
<1>4. PICK rest \in 0..debit :
        /\ p.unapplied_credit = a.unapplied_credit - debit + rest
        /\ p.unapplied_credit >= 0
        /\ Raised(a.buckets, p.buckets, 1..4, b, rest)
  BY <1>1, PayRest DEF p
<1>5. PICK rest2 \in 0..debit :
        /\ p2.unapplied_credit = a2.unapplied_credit - debit + rest2
        /\ Raised(a2.buckets, p2.buckets, 1..4, b2, rest2)
  BY <1>1, PayRest DEF p2
<1>6. rest2 = rest /\ rest \in Int /\ rest >= 0
  BY <1>1, <1>3, <1>4, <1>5
<1>7. ASSUME NEW i \in 1..4 PROVE OwedFrom(p2, i) >= OwedFrom(p, i)
  <2> DEFINE S == i..4
             x == SumFunctionOnSet(a.buckets, S)
             x2 == SumFunctionOnSet(a2.buckets, S)
             y == SumFunctionOnSet(p.buckets, S)
             y2 == SumFunctionOnSet(p2.buckets, S)
  <2>1. IsFiniteSet(S) /\ S \subseteq 1..4 /\ (b \in S => b2 \in S)
    <3>1. S \subseteq 1..4 /\ (b \in S => b2 \in S)
      OBVIOUS
    <3>. QED BY <3>1, FourBuckets, FS_Subset
  <2>2. x2 >= x
    BY FourBuckets DEF AgesTo, OwedFrom
  <2>3. y2 = OwedFrom(p2, i) /\ y = OwedFrom(p, i)
    BY FourBuckets DEF OwedFrom
  <2> HIDE DEF S
  <2>4. /\ \A z \in S : a.buckets[z] \in Int /\ a2.buckets[z] \in Int
        /\ Raised(a.buckets, p.buckets, S, b, rest)
        /\ Raised(a2.buckets, p2.buckets, S, b2, rest)
    BY <1>1, <1>4, <1>5, <1>6, <2>1 DEF Raised
  <2>5. IsFiniteSet(S) /\ rest \in Int
    BY <1>6, <2>1
  <2>6. x \in Int /\ (b \in S => y = x + rest) /\ (b \notin S => y = x)
    <3>1. \A z \in S : a.buckets[z] \in Int
      BY <2>4
    <3>2. Raised(a.buckets, p.buckets, S, b, rest)
      BY <2>4
    <3>. QED BY <2>5, <3>1, <3>2, SumPart
  <2>7. x2 \in Int /\ (b2 \in S => y2 = x2 + rest) /\ (b2 \notin S => y2 = x2)
    <3>1. \A z \in S : a2.buckets[z] \in Int
      BY <2>4
    <3>2. Raised(a2.buckets, p2.buckets, S, b2, rest)
      BY <2>4
    <3>. QED BY <2>5, <3>1, <3>2, SumPart
  <2> HIDE DEF x, x2, y, y2
  <2>8. y2 >= y
    BY <1>6, <2>1, <2>2, <2>6, <2>7
  <2>. QED BY <2>3, <2>8
<1>. QED
  BY <1>2, <1>3, <1>4, <1>7 DEF AgesTo, p, p2

\* The same rows on a later day have an older aging.
LEMMA AgingAges ==
  ASSUME NEW log, LogOK(log), NEW asOf \in Int, NEW asOf2 \in Int, asOf <= asOf2
  PROVE  \A i \in 1..4 : OwedFrom(Aging(log, asOf2), i) >= OwedFrom(Aging(log, asOf), i)
<1> DEFINE entries == LiveEntries(log)
           N == Len(entries)
           up == AgingUpTo(log, entries, asOf)
           up2 == AgingUpTo(log, entries, asOf2)
           S == {n \in Nat : n <= N => AgesTo(up[n], up2[n])}
<1>1. log \in Seq(Entry) /\ Live(log) \in SUBSET DOMAIN log
  BY DEF LogOK, Live
<1>2. IsOldestFirst(entries, log, Live(log))
  BY <1>1, OldestFirstOK DEF LiveEntries
<1> HIDE DEF entries
<1>3. entries \in Seq(DOMAIN log) /\ N \in Nat
  BY <1>1, <1>2, OrderedRows
<1>4. /\ up[0] = PooledCredits(log, entries)
      /\ up2[0] = PooledCredits(log, entries)
      /\ \A n \in Nat : n < N =>
           LET k == entries[n + 1]
           IN /\ up[n + 1] = IF log[k].delta > 0
                             THEN Pay(up[n], log[k].delta, BucketOf(log, asOf, k))
                             ELSE up[n]
              /\ up2[n + 1] = IF log[k].delta > 0
                              THEN Pay(up2[n], log[k].delta, BucketOf(log, asOf2, k))
                              ELSE up2[n]
  BY <1>1, <1>3, AgingSteps DEF BucketOf
<1> HIDE DEF up, up2
<1>5. 0 \in S
  <2> DEFINE a == PooledCredits(log, entries)
  <2>1. a \in Agings
    BY <1>1, <1>3, PooledType
  <2>2. a.unapplied_credit >= 0
    BY <1>1, <1>3, NothingAllocated DEF Allocated, FIFO
  <2>3. a.buckets \in [1..4 -> Int]
    BY <2>1 DEF Agings
  <2> HIDE DEF a
  <2>4. ASSUME NEW i \in 1..4 PROVE OwedFrom(a, i) \in Int
    <3>1. i..4 \subseteq 1..4
      OBVIOUS
    <3>2. IsFiniteSet(i..4) /\ \A y \in i..4 : a.buckets[y] \in Int
      BY <2>3, <3>1, FourBuckets, FS_Subset
    <3>. QED BY <3>2, FourBuckets, SumType DEF OwedFrom
  <2>5. AgesTo(a, a)
    BY <2>1, <2>2, <2>4 DEF AgesTo
  <2>. QED BY <1>4, <2>5 DEF a
<1>6. ASSUME NEW n \in Nat, n \in S PROVE n + 1 \in S
  <2> SUFFICES ASSUME n + 1 <= N PROVE AgesTo(up[n + 1], up2[n + 1])
    OBVIOUS
  <2> DEFINE k == entries[n + 1]
             b == BucketOf(log, asOf, k)
             b2 == BucketOf(log, asOf2, k)
  <2>1. n < N /\ n + 1 \in 1..N /\ AgesTo(up[n], up2[n])
    BY <1>3, <1>6
  <2>2. k \in DOMAIN log
    BY <1>3, <2>1
  <2>3. log[k].delta \in Int /\ log[k].day \in Int
    BY <1>1, <2>2, RowSums
  <2>4. b \in 1..4 /\ b2 \in 1..4 /\ b <= b2
    <3>1. /\ asOf - log[k].day \in Int /\ asOf2 - log[k].day \in Int
          /\ asOf - log[k].day <= asOf2 - log[k].day
      BY <2>3
    <3>. QED BY <3>1, FourBuckets DEF BucketOf
  <2>5. /\ up[n + 1] = IF log[k].delta > 0 THEN Pay(up[n], log[k].delta, b) ELSE up[n]
        /\ up2[n + 1] = IF log[k].delta > 0 THEN Pay(up2[n], log[k].delta, b2) ELSE up2[n]
    BY <1>4, <2>1
  <2> HIDE DEF k, b, b2
  <2>. QED BY <2>1, <2>3, <2>4, <2>5, PayAges
<1> HIDE DEF S
<1>7. N \in S
  BY <1>3, <1>5, <1>6, NatSetInduction
<1>8. AgesTo(up[N], up2[N])
  BY <1>3, <1>7 DEF S
<1>9. Aging(log, asOf) = up[N] /\ Aging(log, asOf2) = up2[N]
  BY DEF Aging, AgingFromEntries, entries, up, up2
<1>. QED
  BY <1>8, <1>9 DEF AgesTo

\* A day that passes only moves debt to older buckets.
THEOREM TimeOnlyAgesDebt == ReportsSpec => DebtOnlyAges
<1> DEFINE Step == today' # today =>
                     \A c \in Contacts :
                       LET before == Aging(book[c], today)
                           after  == Aging(book'[c], today')
                       IN \A i \in DOMAIN Buckets : OwedFrom(after, i) >= OwedFrom(before, i)
<1>1. ASSUME ReportsOK, [ReportsNext]_reportVars
      PROVE  [Step]_reportVars
  <2> SUFFICES ASSUME today' # today, NEW c \in Contacts
               PROVE  \A i \in 1..4 :
                        OwedFrom(Aging(book'[c], today'), i) >= OwedFrom(Aging(book[c], today), i)
    BY FourBuckets
  <2>1. DaysPass
    BY <1>1 DEF ReportsNext, ArchiveContact, RestoreContact, reportVars
  <2>2. book' = book /\ today \in Int /\ today' \in Int /\ today <= today'
    BY <1>1, <2>1, ReportConstants DEF DaysPass, ReportsOK
  <2>3. LogOK(book[c])
    BY <1>1 DEF ReportsOK, BooksOK
  <2>. QED BY <2>2, <2>3, AgingAges
<1>. QED
  BY <1>1, ReportsInvariant, PTL DEF ReportsSpec, DebtOnlyAges

\* The aging depends on the deltas and the days of its entries alone.
LEMMA SameAging ==
  ASSUME NEW log \in Seq(Entry), NEW log2 \in Seq(Entry),
         \A k \in DOMAIN log : /\ k \in DOMAIN log2
                               /\ log2[k].delta = log[k].delta
                               /\ log2[k].day = log[k].day,
         NEW entries \in Seq(DOMAIN log), NEW asOf \in Int
  PROVE  AgingFromEntries(log2, entries, asOf) = AgingFromEntries(log, entries, asOf)
<1> DEFINE N == Len(entries)
           up == AgingUpTo(log, entries, asOf)
           up2 == AgingUpTo(log2, entries, asOf)
           S == {n \in Nat : n <= N => up[n] = up2[n]}
<1>1. entries \in Seq(DOMAIN log2) /\ N \in Nat
  <2>1. DOMAIN log \subseteq DOMAIN log2
    OBVIOUS
  <2>. QED BY <2>1
<1>2. PooledCredits(log2, entries) = PooledCredits(log, entries)
  <2> DEFINE C == {k \in Range(entries) : log[k].delta < 0}
             C2 == {k \in Range(entries) : log2[k].delta < 0}
             f == [k \in DOMAIN log |-> -log[k].delta]
             f2 == [k \in DOMAIN log2 |-> -log2[k].delta]
  <2>1. Range(entries) \subseteq DOMAIN log
    BY DEF Range
  <2>2. C2 = C /\ IsFiniteSet(C) /\ C \subseteq DOMAIN log
    BY <2>1, PooledType
  <2>3. \A k \in C : f[k] \in Int /\ f[k] = f2[k]
    BY <2>2, PooledType
  <2> HIDE DEF C, f, f2
  <2>4. SumFunctionOnSet(f, C) = SumFunctionOnSet(f2, C)
    BY <2>2, <2>3, SumSame
  <2>. QED BY <2>2, <2>4 DEF PooledCredits, C, f, f2
<1>3. /\ up[0] = PooledCredits(log, entries)
      /\ \A n \in Nat : n < N =>
           up[n + 1] = IF log[entries[n + 1]].delta > 0
                       THEN Pay(up[n], log[entries[n + 1]].delta,
                                Bucket(asOf - log[entries[n + 1]].day))
                       ELSE up[n]
  BY AgingSteps
<1>4. /\ up2[0] = PooledCredits(log2, entries)
      /\ \A n \in Nat : n < N =>
           up2[n + 1] = IF log2[entries[n + 1]].delta > 0
                        THEN Pay(up2[n], log2[entries[n + 1]].delta,
                                 Bucket(asOf - log2[entries[n + 1]].day))
                        ELSE up2[n]
  BY <1>1, AgingSteps
<1> HIDE DEF up, up2
<1>5. 0 \in S
  BY <1>2, <1>3, <1>4
<1>6. ASSUME NEW n \in Nat, n \in S PROVE n + 1 \in S
  <2> SUFFICES ASSUME n + 1 <= N PROVE up[n + 1] = up2[n + 1]
    OBVIOUS
  <2>1. n < N /\ n + 1 \in 1..N /\ up[n] = up2[n]
    BY <1>1, <1>6
  <2>2. entries[n + 1] \in DOMAIN log
    BY <1>1, <2>1
  <2> HIDE DEF S
  <2>. QED BY <1>3, <1>4, <2>1, <2>2
<1> HIDE DEF S
<1>7. N \in S
  BY <1>1, <1>5, <1>6, NatSetInduction
<1>. QED
  BY <1>1, <1>7 DEF S, AgingFromEntries, up, up2

\* The log with a row reversed ages as the log without the row.
LEMMA ReversalForgets ==
  ASSUME NEW log, LogOK(log), NEW log2, NEW k, Reversed(log, log2, k), NEW asOf \in Int
  PROVE  Aging(log2, asOf) = AgingFromEntries(log, OldestFirst(log, Live(log) \ {k}), asOf)
<1> DEFINE rows == Live(log) \ {k}
           entries == OldestFirst(log, rows)
<1>1. /\ log \in Seq(Entry) /\ log2 \in Seq(Entry)
      /\ Live(log2) = rows
      /\ rows \in SUBSET DOMAIN log
  BY ReversedOK DEF LogOK, Live
<1>2. ASSUME NEW j \in DOMAIN log
      PROVE  /\ j \in DOMAIN log2
             /\ log2[j].delta = log[j].delta
             /\ log2[j].day = log[j].day
  <2>1. k \in DOMAIN log
    BY DEF Reversed
  <2>2. Keeps(log, log2)
    BY <2>1, LogStepKeeps DEF LogStep
  <2>3. Len(log) <= Len(log2) /\ Shown(log2[j]) = Shown(log[j])
    BY <1>1, <2>2 DEF Keeps
  <2>. QED BY <1>1, <2>3, KeptFields
<1> HIDE DEF rows
<1>3. OldestFirst(log2, rows) = entries
  BY <1>1, <1>2, SameOrder
<1>4. entries \in Seq(DOMAIN log)
  BY <1>1, OldestFirstOK, OrderedRows
<1> HIDE DEF entries
<1>5. AgingFromEntries(log2, entries, asOf) = AgingFromEntries(log, entries, asOf)
  BY <1>1, <1>2, <1>4, SameAging
<1>. QED
  BY <1>1, <1>3, <1>5 DEF Aging, LiveEntries, rows, entries

\* A step after which a row has a reversal is the reversal of that row.
LEMMA WhichWasReversed ==
  ASSUME NEW log, LogOK(log), NEW log2, LogStep(log, log2),
         NEW k \in DOMAIN log, ~HasReversal(log, k), HasReversal(log2, k)
  PROVE  Reversed(log, log2, k)
<1>1. log \in Seq(Entry) /\ k \in Nat /\ k # 0
  BY DEF LogOK
<1>2. log2 # log
  OBVIOUS
<1>3. CASE Posted(log, log2)
  <2>1. PICK row : log2 = Append(log, row) /\ row.reverses = 0
    BY <1>3 DEF Posted, PostedRow
  <2>. QED BY <1>1, <2>1 DEF HasReversal
<1>4. ASSUME NEW j \in DOMAIN log, Reversed(log, log2, j)
      PROVE  Reversed(log, log2, k)
  <2>1. PICK row : /\ log2 = WithReversal(log, j, row)
                   /\ row.reverses = j
    BY <1>4 DEF Reversed, ReversalRow
  <2> DEFINE stamped == [log[j] EXCEPT !.reversed = TRUE]
  <2>2. stamped.reverses = log[j].reverses /\ log2 = Append([log EXCEPT ![j] = stamped], row)
    <3>1. log[j] \in Entry
      BY <1>1
    <3>. QED BY <2>1, <3>1 DEF Entry, WithReversal
  <2> HIDE DEF stamped
  <2>3. [log EXCEPT ![j] = stamped] \in Seq({stamped} \cup Entry)
        /\ Len([log EXCEPT ![j] = stamped]) = Len(log)
    BY <1>1
  <2>4. PICK i \in DOMAIN log2 : log2[i].reverses = k
    BY DEF HasReversal
  <2>5. CASE i \in 1..Len(log)
    <3>1. log2[i].reverses = log[i].reverses
      BY <1>1, <2>2, <2>3, <2>5
    <3>. QED BY <1>1, <2>4, <2>5, <3>1 DEF HasReversal
  <2>6. CASE i = Len(log) + 1
    <3>1. k = j
      BY <1>1, <2>1, <2>2, <2>3, <2>4, <2>6
    <3>. QED BY <1>4, <3>1
  <2>. QED BY <1>1, <2>2, <2>3, <2>5, <2>6
<1>. QED
  BY <1>2, <1>3, <1>4 DEF LogStep

\* Reversing a row leaves the aging as if it had never been posted.
THEOREM ReversalsUndo == ReportsSpec => ReversalUndoes
<1> DEFINE Step == \A c \in Contacts : \A k \in DOMAIN book[c] :
                     ~HasReversal(book[c], k) /\ HasReversal(book'[c], k) =>
                       Aging(book'[c], today) =
                         AgingFromEntries(book[c], OldestFirst(book[c], Live(book[c]) \ {k}), today)
<1>1. ASSUME ReportsOK, [ReportsNext]_reportVars
      PROVE  [Step]_reportVars
  <2> SUFFICES ASSUME NEW c \in Contacts, NEW k \in DOMAIN book[c],
                      ~HasReversal(book[c], k), HasReversal(book'[c], k)
               PROVE  Aging(book'[c], today) =
                        AgingFromEntries(book[c], OldestFirst(book[c], Live(book[c]) \ {k}), today)
    OBVIOUS
  <2>1. LogOK(book[c]) /\ today \in Int
    BY <1>1 DEF ReportsOK, BooksOK
  <2>2. BooksMove
    BY <1>1 DEF ReportsNext, ArchiveContact, RestoreContact, DaysPass, reportVars
  <2>3. LogStep(book[c], book'[c])
    BY <1>1, <2>2, BooksMoveByTheBook, BookNextOK DEF ReportsOK
  <2>4. Reversed(book[c], book'[c], k)
    BY <2>1, <2>3, WhichWasReversed
  <2>. QED BY <2>1, <2>4, ReversalForgets
<1>. QED
  BY <1>1, ReportsInvariant, PTL DEF ReportsSpec, ReversalUndoes
===============================================================================
