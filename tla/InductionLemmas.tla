--------------------------- MODULE InductionLemmas ---------------------------
(***************************************************************************)
(* Induction and recursion in a form that takes sets and functions for     *)
(* parameters, not operators: a property of numbers is the set of those    *)
(* that have it, a turn of a loop a function.                              *)
(***************************************************************************)
EXTENDS Integers, FiniteSetsExt, FiniteSetTheorems, WellFoundedInduction, TLAPS

\* A set of numbers that is not empty has a least one.
LEMMA Least ==
  ASSUME NEW S \in SUBSET Nat, S # {}
  PROVE  \E m \in S : \A n \in S : m <= n
<1> DEFINE below == {0..(n - 1) : n \in S}
           R == StrictSubsetOrdering(Nat)
<1>1. below \subseteq FiniteSubsetsOf(Nat) /\ below # {}
  <2>1. ASSUME NEW n \in S PROVE 0..(n - 1) \in FiniteSubsetsOf(Nat)
    BY FS_Interval DEF FiniteSubsetsOf
  <2>2. QED
    BY <2>1
<1>2. PICK T \in below : \A U \in below : ~ (<<U, T>> \in R)
  <2>1. IsWellFoundedOn(R, FiniteSubsetsOf(Nat))
    BY FS_StrictSubsetOrderingWellFounded
  <2>2. QED
    BY <1>1, <2>1, WFMin
<1>3. PICK m \in S : T = 0..(m - 1)
  OBVIOUS
<1>4. ASSUME NEW n \in S, n < m PROVE FALSE
  <2>1. 0..(n - 1) \in SUBSET (0..(m - 1)) /\ 0..(n - 1) # 0..(m - 1)
    <3>1. n \in 0..(m - 1) /\ n \notin 0..(n - 1)
      BY <1>4
    <3>2. QED
      BY <1>4, <3>1
  <2>2. <<0..(n - 1), T>> \in R
    BY <1>3, <2>1 DEF StrictSubsetOrdering
  <2>3. QED
    BY <1>2, <2>2
<1>5. QED
  BY <1>4

\* What holds of 0 and goes from a number to the next holds of all.
LEMMA Induction ==
  ASSUME NEW S \in SUBSET Nat, 0 \in S, \A n \in S : n + 1 \in S
  PROVE  S = Nat
<1>1. SUFFICES ASSUME Nat \ S # {} PROVE FALSE
  OBVIOUS
<1>2. PICK m \in Nat \ S : \A n \in Nat \ S : m <= n
  BY <1>1, Least
<1>3. m - 1 \in S
  BY <1>2
<1>4. QED
  BY <1>2, <1>3

\* Induction over the turns of a loop.
LEMMA LoopInduction ==
  ASSUME NEW n \in Nat, NEW S, 0 \in S, \A k \in 0..(n - 1) : k \in S => k + 1 \in S
  PROVE  0..n \subseteq S
<1> DEFINE T == {k \in Nat : k <= n => k \in S}
<1>1. 0 \in T
  OBVIOUS
<1>2. \A k \in T : k + 1 \in T
  OBVIOUS
<1>3. T = Nat
  BY <1>1, <1>2, Induction
<1>4. QED
  BY <1>3

-----------------------------------------------------------------------------
(***************************************************************************)
(* Recursion: a loop has a value after each turn.                          *)
(***************************************************************************)

\* f holds the values of a loop after each of its first n turns.
Turns(f, S, base, step, n) ==
  /\ f \in [0..n -> S]
  /\ f[0] = base
  /\ \A i \in 1..n : f[i] = step[<<f[i - 1], i>>]

\* Whatever a turn makes of a value, the values after each turn exist.
LEMMA Recursion ==
  ASSUME NEW S, NEW base \in S, NEW n \in Nat, NEW step \in [S \X (1..n) -> S]
  PROVE  \E f : Turns(f, S, base, step, n)
<1> DEFINE T == {k \in 0..n : \E f : Turns(f, S, base, step, k)}
<1>1. 0 \in T
  <2>1. Turns([i \in 0..0 |-> base], S, base, step, 0)
    BY DEF Turns
  <2>2. QED
    BY <2>1
<1>2. ASSUME NEW k \in 0..(n - 1), k \in T PROVE k + 1 \in T
  <2>1. PICK f : Turns(f, S, base, step, k)
    BY <1>2
  <2> DEFINE last == step[<<f[k], k + 1>>]
             g == [i \in 0..(k + 1) |-> IF i = k + 1 THEN last ELSE f[i]]
  <2>2. last \in S
    BY <2>1 DEF Turns
  <2>3. g \in [0..(k + 1) -> S] /\ g[0] = base
    BY <2>1, <2>2 DEF Turns
  <2>4. ASSUME NEW i \in 1..(k + 1) PROVE g[i] = step[<<g[i - 1], i>>]
    <3>1. CASE i = k + 1
      <4>1. g[i] = last /\ g[i - 1] = f[k]
        BY <3>1
      <4>2. QED
        BY <3>1, <4>1
    <3>2. CASE i \in 1..k
      <4>1. g[i] = f[i] /\ g[i - 1] = f[i - 1]
        BY <3>2
      <4> HIDE DEF g
      <4>2. QED
        BY <2>1, <3>2, <4>1 DEF Turns
    <3>3. QED
      BY <3>1, <3>2
  <2> HIDE DEF g
  <2>5. Turns(g, S, base, step, k + 1)
    BY <2>3, <2>4 DEF Turns
  <2>6. QED
    BY <2>5
<1>3. 0..n \subseteq T
  <2> HIDE DEF T
  <2>1. QED
    BY <1>1, <1>2, LoopInduction
<1>4. QED
  BY <1>3

-----------------------------------------------------------------------------
(***************************************************************************)
(* The order in which a loop takes the members of a finite set.            *)
(***************************************************************************)

Ahead(S, R, c) == {d \in S : <<d, c>> \in R}

\* Who stands ahead has fewer ahead.
LEMMA AheadGrows ==
  ASSUME NEW S, IsFiniteSet(S), NEW R,
         \A c \in S : <<c, c>> \notin R,
         \A b, c, d \in S : <<b, c>> \in R /\ <<c, d>> \in R => <<b, d>> \in R,
         NEW c \in S, NEW d \in S, <<c, d>> \in R
  PROVE  /\ Ahead(S, R, c) \subseteq Ahead(S, R, d)
         /\ Cardinality(Ahead(S, R, c)) \in Nat
         /\ Cardinality(Ahead(S, R, d)) \in Nat
         /\ Cardinality(Ahead(S, R, c)) < Cardinality(Ahead(S, R, d))
<1>1. Ahead(S, R, c) \subseteq Ahead(S, R, d)
  BY DEF Ahead
<1>2. IsFiniteSet(Ahead(S, R, d)) /\ IsFiniteSet(Ahead(S, R, c))
  <2>1. Ahead(S, R, d) \subseteq S /\ Ahead(S, R, c) \subseteq S
    BY DEF Ahead
  <2>2. QED
    BY <2>1, FS_Subset
<1>3. c \in Ahead(S, R, d) /\ c \notin Ahead(S, R, c)
  BY DEF Ahead
<1>4. QED
  BY <1>1, <1>2, <1>3, FS_Subset, FS_CardinalityType

\* A set that is not empty has a member with none of the set ahead of it.
LEMMA FirstOfAll ==
  ASSUME NEW S, IsFiniteSet(S), NEW R,
         \A c \in S : <<c, c>> \notin R,
         \A b, c, d \in S : <<b, c>> \in R /\ <<c, d>> \in R => <<b, d>> \in R,
         NEW T \in SUBSET S, T # {}
  PROVE  \E c \in T : \A d \in T : <<d, c>> \notin R
<1> DEFINE rank(c) == Cardinality(Ahead(S, R, c))
<1>1. \A c \in S : rank(c) \in Nat
  <2>1. ASSUME NEW c \in S PROVE rank(c) \in Nat
    <3>1. Ahead(S, R, c) \subseteq S
      BY DEF Ahead
    <3>2. QED
      BY <3>1, FS_Subset, FS_CardinalityType
  <2>2. QED
    BY <2>1
<1>2. {rank(c) : c \in T} \in SUBSET Nat /\ {rank(c) : c \in T} # {}
  BY <1>1
<1>3. PICK m \in {rank(c) : c \in T} : \A n \in {rank(c) : c \in T} : m <= n
  <2> HIDE DEF rank
  <2>1. QED
    BY <1>2, Least
<1>4. PICK c \in T : m = rank(c)
  BY <1>3
<1>5. ASSUME NEW d \in T, <<d, c>> \in R PROVE FALSE
  <2>1. rank(d) \in Nat /\ rank(c) \in Nat /\ rank(d) < rank(c)
    BY <1>5, AheadGrows
  <2>2. rank(c) <= rank(d)
    BY <1>3, <1>4
  <2> HIDE DEF rank
  <2>3. QED
    BY <2>1, <2>2
<1>6. QED
  BY <1>5

\* Who has n or more ahead leaves n who have fewer.
LEMMA EnoughAhead ==
  ASSUME NEW S, IsFiniteSet(S), NEW R,
         \A c \in S : <<c, c>> \notin R,
         \A b, c, d \in S : <<b, c>> \in R /\ <<c, d>> \in R => <<b, d>> \in R,
         NEW n \in Nat, NEW c \in S, ~ (Cardinality(Ahead(S, R, c)) < n)
  PROVE  n <= Cardinality({d \in S : Cardinality(Ahead(S, R, d)) < n})
<1> DEFINE taken == {d \in S : Cardinality(Ahead(S, R, d)) < n}
           left == S \ taken
<1>1. PICK e \in left : \A d \in left : <<d, e>> \notin R
  <2>1. left \in SUBSET S /\ left # {}
    OBVIOUS
  <2> HIDE DEF left
  <2>2. QED
    BY <2>1, FirstOfAll
<1>2. Ahead(S, R, e) \subseteq taken
  BY <1>1 DEF Ahead
<1>3. IsFiniteSet(taken) /\ IsFiniteSet(Ahead(S, R, e))
  <2>1. taken \subseteq S /\ Ahead(S, R, e) \subseteq S
    BY DEF Ahead
  <2>2. QED
    BY <2>1, FS_Subset
<1>4. Cardinality(Ahead(S, R, e)) <= Cardinality(taken)
  <2> HIDE DEF taken
  <2>1. QED
    BY <1>2, <1>3, FS_Subset
<1>5. ~ (Cardinality(Ahead(S, R, e)) < n)
  BY <1>1
<1>6. Cardinality(Ahead(S, R, e)) \in Nat /\ Cardinality(taken) \in Nat
  <2> HIDE DEF taken
  <2>1. QED
    BY <1>3, FS_CardinalityType
<1>7. QED
  <2> HIDE DEF taken
  <2>1. n <= Cardinality(taken)
    BY <1>4, <1>5, <1>6
  <2>2. QED
    BY <2>1 DEF taken

\* A strict total order of S.
Orders(R, S) ==
  /\ \A c \in S : <<c, c>> \notin R
  /\ \A b, c, d \in S : <<b, c>> \in R /\ <<c, d>> \in R => <<b, d>> \in R
  /\ \A c, d \in S : c = d \/ <<c, d>> \in R \/ <<d, c>> \in R

\* The member whose turn is the k-th, and those that have had theirs after k.
InTurn(S, R, k) == CHOOSE c \in S : Cardinality(Ahead(S, R, c)) = k - 1

Seen(S, R, k) == {d \in S : Cardinality(Ahead(S, R, d)) < k}

\* What a loop over the members in turn may rely on.
Turn(S, R, k) ==
  /\ InTurn(S, R, k) \in S
  /\ InTurn(S, R, k) \notin Seen(S, R, k - 1)
  /\ Seen(S, R, k) = Seen(S, R, k - 1) \cup {InTurn(S, R, k)}
  /\ Ahead(S, R, InTurn(S, R, k)) = Seen(S, R, k - 1)

\* A loop over a finite set in a strict total order takes each member once,
\* behind exactly those that stand ahead of it.
LEMMA EveryoneHasATurn ==
  ASSUME NEW S, IsFiniteSet(S), NEW R, Orders(R, S)
  PROVE  /\ Seen(S, R, 0) = {}
         /\ Seen(S, R, Cardinality(S)) = S
         /\ \A k \in 1..Cardinality(S) : Turn(S, R, k)
         /\ \A c \in S : \E k \in 1..Cardinality(S) : c = InTurn(S, R, k)
<1> DEFINE rank == [c \in S |-> Cardinality(Ahead(S, R, c))]
           n == Cardinality(S)
<1>1. n \in Nat
  BY FS_CardinalityType
<1>2. ASSUME NEW c \in S PROVE rank[c] \in 0..(n - 1)
  <2>1. PICK ahead : ahead = Ahead(S, R, c)
    OBVIOUS
  <2>2. ahead \in SUBSET S /\ ahead # S
    BY <2>1 DEF Ahead, Orders
  <2>3. Cardinality(ahead) \in Nat /\ Cardinality(ahead) <= n /\ Cardinality(ahead) # n
    BY <2>2, FS_Subset, FS_CardinalityType
  <2>4. Cardinality(ahead) \in 0..(n - 1)
    BY <1>1, <2>3
  <2>5. QED
    BY <2>1, <2>4
<1>3. ASSUME NEW c \in S, NEW d \in S, <<c, d>> \in R PROVE rank[c] < rank[d]
  BY <1>3, AheadGrows DEF Orders
<1>4. ASSUME NEW c \in S, NEW d \in S, rank[c] = rank[d] PROVE c = d
  <2> HIDE DEF rank
  <2>1. rank[c] \in Int /\ rank[d] \in Int
    BY <1>2
  <2>2. ~ rank[c] < rank[d] /\ ~ rank[d] < rank[c]
    BY <1>4, <2>1
  <2>3. QED
    BY <1>3, <2>2 DEF Orders
<1>5. \A c \in S : \A d \in S : rank[d] < rank[c] <=> <<d, c>> \in R
  <2> SUFFICES ASSUME NEW c \in S, NEW d \in S PROVE rank[d] < rank[c] <=> <<d, c>> \in R
    OBVIOUS
  <2>1. rank[c] \in Int /\ rank[d] \in Int
    BY <1>2
  <2> HIDE DEF rank
  <2>2. CASE <<d, c>> \in R
    BY <1>3, <2>2
  <2>3. CASE <<c, d>> \in R
    <3>1. rank[c] < rank[d] /\ <<d, c>> \notin R
      BY <1>3, <2>3 DEF Orders
    <3>2. QED
      BY <2>1, <3>1
  <2>4. CASE c = d
    BY <2>1, <2>4 DEF Orders
  <2>5. QED
    BY <2>2, <2>3, <2>4 DEF Orders
<1>6. rank \in Injection(S, 0..(n - 1))
  <2>1. rank \in [S -> 0..(n - 1)]
    BY <1>2
  <2> HIDE DEF rank
  <2>2. QED
    BY <1>4, <2>1 DEF Injection, IsInjective
<1>7. IsFiniteSet(0..(n - 1)) /\ Cardinality(0..(n - 1)) = n
  BY <1>1, FS_Interval
<1>8. rank \in Surjection(S, 0..(n - 1))
  <2> HIDE DEF rank
  <2>1. QED
    BY <1>6, <1>7, FS_Injection
<1>9. ASSUME NEW k \in 1..n PROVE \E c \in S : rank[c] = k - 1
  <2>1. k - 1 \in 0..(n - 1)
    BY <1>1
  <2> HIDE DEF rank
  <2>2. QED
    BY <1>8, <2>1 DEF Surjection
<1>10. ASSUME NEW k \in 1..n PROVE Turn(S, R, k)
  <2>1. PICK c : c = InTurn(S, R, k)
    OBVIOUS
  <2>2. c \in S /\ rank[c] = k - 1
    BY <1>9, <2>1 DEF InTurn
  <2>3. \A d \in S : Cardinality(Ahead(S, R, d)) = rank[d]
    OBVIOUS
  <2> HIDE DEF rank
  <2>4. c \notin Seen(S, R, k - 1)
    BY <1>1, <2>2, <2>3 DEF Seen
  <2>5. ASSUME NEW d \in S PROVE d \in Seen(S, R, k) <=> d \in Seen(S, R, k - 1) \/ d = c
    <3>1. rank[d] \in Int /\ k \in Int
      BY <1>2
    <3>2. rank[d] < k <=> rank[d] < k - 1 \/ rank[d] = k - 1
      BY <3>1
    <3>3. rank[d] = k - 1 <=> d = c
      BY <1>4, <2>2
    <3>4. QED
      BY <2>3, <3>2, <3>3 DEF Seen
  <2>6. Seen(S, R, k) = Seen(S, R, k - 1) \cup {c}
    <3>1. Seen(S, R, k) \subseteq S /\ Seen(S, R, k - 1) \subseteq S
      BY DEF Seen
    <3>2. QED
      BY <2>2, <2>5, <3>1
  <2>7. Ahead(S, R, c) = Seen(S, R, k - 1)
    <3>1. \A d \in S : <<d, c>> \in R <=> rank[d] < k - 1
      BY <1>5, <2>2
    <3>2. QED
      BY <2>3, <3>1 DEF Ahead, Seen
  <2>8. QED
    BY <2>1, <2>2, <2>4, <2>6, <2>7 DEF Turn
<1>11. Seen(S, R, 0) = {} /\ Seen(S, R, n) = S
  <2>1. \A d \in S : Cardinality(Ahead(S, R, d)) = rank[d]
    OBVIOUS
  <2> HIDE DEF rank
  <2>2. QED
    BY <1>1, <1>2, <2>1 DEF Seen
<1>12. ASSUME NEW c \in S PROVE \E k \in 1..n : c = InTurn(S, R, k)
  <2>1. rank[c] + 1 \in 1..n /\ rank[c] = (rank[c] + 1) - 1
    BY <1>1, <1>2
  <2>2. PICK k \in 1..n : rank[c] = k - 1
    BY <2>1
  <2>3. InTurn(S, R, k) \in S /\ rank[InTurn(S, R, k)] = k - 1
    BY <1>9 DEF InTurn
  <2> HIDE DEF rank
  <2>4. QED
    BY <1>4, <2>2, <2>3
<1>13. QED
  BY <1>10, <1>11, <1>12

-----------------------------------------------------------------------------
(***************************************************************************)
(* Sums over finite sets, as MapThenSumSet of FiniteSetsExt computes them. *)
(***************************************************************************)

\* Induction over the subsets of a finite set.
LEMMA SubsetInduction ==
  ASSUME NEW S, IsFiniteSet(S), NEW P,
         \A U \in SUBSET S : (\A T \in SUBSET U : T # U => T \in P) => U \in P
  PROVE  SUBSET S \subseteq P
<1> DEFINE bad == {U \in SUBSET S : U \notin P}
           sizes == {Cardinality(U) : U \in bad}
<1>1. SUFFICES ASSUME bad # {} PROVE FALSE
  OBVIOUS
<1>2. \A U \in SUBSET S : IsFiniteSet(U) /\ Cardinality(U) \in Nat
  BY FS_Subset, FS_CardinalityType
<1>3. sizes \in SUBSET Nat /\ sizes # {}
  BY <1>1, <1>2
<1>4. PICK m \in sizes : \A n \in sizes : m <= n
  <2> HIDE DEF sizes
  <2>1. QED
    BY <1>3, Least
<1>5. PICK U \in bad : m = Cardinality(U)
  OBVIOUS
<1>6. PICK T \in SUBSET U : T # U /\ T \notin P
  OBVIOUS
<1>7. T \in bad
  BY <1>6
<1>8. Cardinality(U) <= Cardinality(T)
  BY <1>4, <1>5, <1>7
<1>9. IsFiniteSet(U) /\ Cardinality(U) \in Nat /\ Cardinality(T) \in Nat
  BY <1>2
<1>10. Cardinality(T) <= Cardinality(U) /\ Cardinality(T) # Cardinality(U)
  BY <1>6, <1>9, FS_Subset
<1>11. QED
  BY <1>8, <1>9, <1>10

Total(g, S) == MapThenSumSet(LAMBDA i : g[i], S)

Pick(T) == CHOOSE x \in T : TRUE

Sums(f, g, S) ==
  f = [U \in SUBSET S |-> IF U = {} THEN 0 ELSE g[Pick(U)] + f[U \ {Pick(U)}]]

\* The computed sum is one that obeys the rule.
LEMMA TotalIsASum == \A g, S : Total(g, S) = (CHOOSE f : Sums(f, g, S))[S]
BY DEF Total, MapThenSumSet, MapThenFoldSet, Sums, Pick

\* The sums over the subsets of a finite set exist: those of n members are
\* computed from those of n - 1.
LEMMA SumsExist ==
  ASSUME NEW S, IsFiniteSet(S), NEW g, \A x \in S : g[x] \in Nat
  PROVE  \E f \in [SUBSET S -> Nat] : Sums(f, g, S)
<1> DEFINE Small(n) == {U \in SUBSET S : Cardinality(U) <= n}
           Rule(f, U) == f[U] = IF U = {} THEN 0 ELSE g[Pick(U)] + f[U \ {Pick(U)}]
           T == {n \in 0..Cardinality(S) :
                   \E f \in [Small(n) -> Nat] : \A U \in Small(n) : Rule(f, U)}
<1>1. \A U \in SUBSET S : IsFiniteSet(U) /\ Cardinality(U) \in Nat
  BY FS_Subset, FS_CardinalityType
<1>2. \A U \in SUBSET S : U # {} => Pick(U) \in U
  BY DEF Pick
<1>3. \A U \in SUBSET S : U # {} => Cardinality(U \ {Pick(U)}) = Cardinality(U) - 1
  BY <1>1, <1>2, FS_RemoveElement
<1>4. \A U \in SUBSET S : Cardinality(U) <= Cardinality(S)
  BY FS_Subset
<1>5. Cardinality(S) \in Nat
  BY <1>1
<1>6. 0 \in T
  <2> DEFINE f == [U \in Small(0) |-> 0]
  <2>1. \A U \in Small(0) : U = {}
    BY <1>1, FS_EmptySet
  <2>2. f \in [Small(0) -> Nat] /\ \A U \in Small(0) : Rule(f, U)
    BY <2>1
  <2> HIDE DEF f, Small, Rule
  <2>3. \E h \in [Small(0) -> Nat] : \A U \in Small(0) : Rule(h, U)
    BY <2>2
  <2>4. QED
    BY <1>5, <2>3
<1>7. ASSUME NEW n \in 0..(Cardinality(S) - 1), n \in T PROVE n + 1 \in T
  <2>1. PICK f \in [Small(n) -> Nat] : \A U \in Small(n) : Rule(f, U)
    BY <1>7
  <2> DEFINE h == [U \in Small(n + 1) |->
                     IF U \in Small(n) THEN f[U] ELSE g[Pick(U)] + f[U \ {Pick(U)}]]
  <2>2. ASSUME NEW U \in Small(n + 1), U \notin Small(n)
        PROVE  U # {} /\ Pick(U) \in S /\ U \ {Pick(U)} \in Small(n)
    <3>1. U # {}
      BY <1>1, <2>2, FS_EmptySet
    <3>2. QED
      BY <1>1, <1>2, <1>3, <2>2, <3>1
  <2>3. h \in [Small(n + 1) -> Nat]
    BY <2>2
  <2>4. ASSUME NEW U \in Small(n + 1) PROVE Rule(h, U)
    <3>1. CASE U \in Small(n)
      <4>1. U # {} => U \ {Pick(U)} \in Small(n)
        BY <1>1, <1>2, <1>3, <3>1
      <4>2. \A V \in Small(n) : V \in Small(n + 1)
        BY <1>1, <1>5
      <4> HIDE DEF Small
      <4>3. QED
        BY <2>1, <3>1, <4>1, <4>2
    <3>2. CASE U \notin Small(n)
      <4>1. U # {} /\ U \ {Pick(U)} \in Small(n)
        BY <2>2, <3>2
      <4>2. \A V \in Small(n) : V \in Small(n + 1)
        BY <1>1, <1>5
      <4> HIDE DEF Small
      <4>3. QED
        BY <3>2, <4>1, <4>2
    <3>3. QED
      BY <3>1, <3>2
  <2> HIDE DEF h, Small, Rule
  <2>5. \E k \in [Small(n + 1) -> Nat] : \A U \in Small(n + 1) : Rule(k, U)
    BY <2>3, <2>4
  <2>6. QED
    BY <1>5, <2>5
<1>8. 0..Cardinality(S) \subseteq T
  <2> HIDE DEF T
  <2>1. QED
    BY <1>5, <1>6, <1>7, LoopInduction
<1>9. PICK f \in [Small(Cardinality(S)) -> Nat] : \A U \in Small(Cardinality(S)) : Rule(f, U)
  <2> HIDE DEF Small, Rule
  <2>1. Cardinality(S) \in T
    BY <1>5, <1>8
  <2>2. QED
    BY <2>1
<1>10. Small(Cardinality(S)) = SUBSET S
  BY <1>4
<1>11. f \in [SUBSET S -> Nat] /\ \A U \in SUBSET S : Rule(f, U)
  <2> HIDE DEF Small, Rule
  <2>1. QED
    BY <1>9, <1>10
<1>12. Sums(f, g, S)
  BY <1>11 DEF Sums
<1>13. QED
  BY <1>11, <1>12

\* Sums that obey the rule agree where both are defined.
LEMMA SumsAgree ==
  ASSUME NEW S, IsFiniteSet(S), NEW T \in SUBSET S, NEW g, NEW f, NEW h,
         Sums(f, g, S), Sums(h, g, T)
  PROVE  h[T] = f[T]
<1> DEFINE P == {U \in SUBSET T : h[U] = f[U]}
<1>1. ASSUME NEW U \in SUBSET T, \A V \in SUBSET U : V # U => V \in P
      PROVE  U \in P
  <2>1. U \in SUBSET S
    OBVIOUS
  <2>2. CASE U = {}
    BY <2>1, <2>2 DEF Sums
  <2>3. CASE U # {}
    <3>1. Pick(U) \in U
      BY <2>3 DEF Pick
    <3>2. U \ {Pick(U)} \in P
      BY <1>1, <3>1
    <3>3. f[U] = g[Pick(U)] + f[U \ {Pick(U)}] /\ h[U] = g[Pick(U)] + h[U \ {Pick(U)}]
      BY <2>1, <2>3 DEF Sums
    <3>4. QED
      BY <3>2, <3>3
  <2>4. QED
    BY <2>2, <2>3
<1>2. SUBSET T \subseteq P
  <2>1. IsFiniteSet(T)
    BY FS_Subset
  <2> HIDE DEF P
  <2>2. QED
    BY <1>1, <2>1, SubsetInduction
<1>3. QED
  BY <1>2

Additive(f, g, S) == \A U \in SUBSET S : \A x \in U : f[U] = g[x] + f[U \ {x}]

\* A sum does not depend on the order in which it is computed.
LEMMA SumsRemove ==
  ASSUME NEW S, IsFiniteSet(S), NEW g, \A x \in S : g[x] \in Nat,
         NEW f \in [SUBSET S -> Nat], Sums(f, g, S)
  PROVE  Additive(f, g, S)
<1> DEFINE P == {U \in SUBSET S : \A x \in U : f[U] = g[x] + f[U \ {x}]}
<1>1. ASSUME NEW U \in SUBSET S, \A V \in SUBSET U : V # U => V \in P
      PROVE  U \in P
  <2>1. SUFFICES ASSUME NEW x \in U PROVE f[U] = g[x] + f[U \ {x}]
    OBVIOUS
  <2>2. PICK p : p = Pick(U)
    OBVIOUS
  <2>3. p \in U /\ f[U] = g[p] + f[U \ {p}]
    BY <2>1, <2>2 DEF Pick, Sums
  <2>4. CASE x = p
    BY <2>3, <2>4
  <2>5. CASE x # p
    <3>1. U \ {p} \in P /\ U \ {x} \in P
      BY <1>1, <2>1, <2>3
    <3>2. f[U \ {p}] = g[x] + f[(U \ {p}) \ {x}]
      BY <2>1, <2>5, <3>1
    <3>3. f[U \ {x}] = g[p] + f[(U \ {x}) \ {p}]
      BY <2>3, <2>5, <3>1
    <3>4. (U \ {p}) \ {x} = (U \ {x}) \ {p}
      OBVIOUS
    <3>5. PICK V \in SUBSET S : V = (U \ {x}) \ {p}
      OBVIOUS
    <3>6. f[U \ {p}] = g[x] + f[V] /\ f[U \ {x}] = g[p] + f[V]
      BY <3>2, <3>3, <3>4, <3>5
    <3>7. g[x] \in Nat /\ g[p] \in Nat /\ f[V] \in Nat
      BY <2>1, <2>3
    <3> HIDE DEF P
    <3>8. QED
      BY <2>3, <3>6, <3>7
  <2>6. QED
    BY <2>4, <2>5
<1>2. SUBSET S \subseteq P
  <2> HIDE DEF P
  <2>1. QED
    BY <1>1, SubsetInduction
<1>3. QED
  BY <1>2 DEF Additive

\* What is needed of sums: of nothing, of one member more, of more members.
LEMMA TotalOfAll ==
  ASSUME NEW S, IsFiniteSet(S), NEW g, \A x \in S : g[x] \in Nat
  PROVE  /\ Total(g, {}) = 0
         /\ \A U \in SUBSET S : Total(g, U) \in Nat
         /\ \A U \in SUBSET S : \A x \in S \ U : Total(g, U \cup {x}) = Total(g, U) + g[x]
<1>1. PICK f \in [SUBSET S -> Nat] : Sums(f, g, S)
  BY SumsExist
<1>2. ASSUME NEW U \in SUBSET S PROVE Total(g, U) = f[U]
  <2>1. Sums([V \in SUBSET U |-> f[V]], g, U)
    <3>1. ASSUME NEW V \in SUBSET U
          PROVE  f[V] = IF V = {} THEN 0 ELSE g[Pick(V)] + f[V \ {Pick(V)}]
      BY <1>1 DEF Sums
    <3>2. QED
      BY <3>1 DEF Sums
  <2>2. PICK h : h = CHOOSE k : Sums(k, g, U)
    OBVIOUS
  <2>3. Sums(h, g, U)
    BY <2>1, <2>2
  <2>4. h[U] = f[U]
    BY <1>1, <2>3, SumsAgree
  <2>5. QED
    BY <2>2, <2>4, TotalIsASum
<1>3. Additive(f, g, S)
  BY <1>1, SumsRemove
<1>4. f[{}] = 0
  BY <1>1 DEF Sums
<1>5. ASSUME NEW U \in SUBSET S, NEW x \in S \ U
      PROVE  Total(g, U \cup {x}) = Total(g, U) + g[x]
  <2>1. PICK V \in SUBSET S : V = U \cup {x}
    OBVIOUS
  <2>2. V \ {x} = U /\ x \in V
    BY <2>1
  <2>3. f[V] = g[x] + f[V \ {x}]
    BY <1>3, <2>2 DEF Additive
  <2>4. f[V] = g[x] + f[U] /\ g[x] \in Nat /\ f[U] \in Nat
    BY <2>2, <2>3
  <2>5. QED
    BY <1>2, <2>1, <2>4
<1>6. QED
  BY <1>2, <1>4, <1>5

\* A sum over more members is no smaller.
LEMMA TotalGrows ==
  ASSUME NEW S, IsFiniteSet(S), NEW g, \A x \in S : g[x] \in Nat, NEW T \in SUBSET S
  PROVE  \A U \in SUBSET T : Total(g, U) <= Total(g, T)
<1> DEFINE P == {V \in SUBSET T : \A U \in SUBSET V : Total(g, U) <= Total(g, V)}
<1>1. ASSUME NEW V \in SUBSET T, \A W \in SUBSET V : W # V => W \in P
      PROVE  V \in P
  <2>1. SUFFICES ASSUME NEW U \in SUBSET V PROVE Total(g, U) <= Total(g, V)
    OBVIOUS
  <2>2. Total(g, U) \in Nat /\ Total(g, V) \in Nat
    BY TotalOfAll
  <2>3. CASE U = V
    BY <2>2, <2>3
  <2>4. CASE U # V
    <3>1. PICK x \in V : x \notin U
      BY <2>4
    <3>2. PICK W \in SUBSET V : W = V \ {x}
      OBVIOUS
    <3>3. U \in SUBSET W /\ W # V /\ x \in S \ W /\ W \cup {x} = V
      BY <3>1, <3>2
    <3>4. Total(g, U) <= Total(g, W)
      BY <1>1, <3>3
    <3>5. Total(g, V) = Total(g, W) + g[x]
      <4>1. Total(g, W \cup {x}) = Total(g, W) + g[x]
        BY <3>3, TotalOfAll
      <4>2. QED
        BY <3>3, <4>1
    <3>6. Total(g, W) \in Nat /\ g[x] \in Nat
      BY <3>1, TotalOfAll
    <3> HIDE DEF P
    <3>7. QED
      BY <2>2, <3>4, <3>5, <3>6
  <2>5. QED
    BY <2>3, <2>4
<1>2. SUBSET T \subseteq P
  <2>1. IsFiniteSet(T)
    BY FS_Subset
  <2> HIDE DEF P
  <2>2. QED
    BY <1>1, <2>1, SubsetInduction
<1>3. QED
  BY <1>2
=============================================================================
