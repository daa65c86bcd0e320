---------------------------- MODULE ShadowProofs ----------------------------
(***************************************************************************)
(* What holds of the shadow watcher for every number of processes, tickets *)
(* and attempts, and for all caps: the lock keeps two watchers apart; and, *)
(* while one watches at a time and no run goes quiet under a live process, *)
(* that a ticket is never run twice at once and that no attempt is closed   *)
(* that a process still drives; while one watches at a time, the types, and *)
(* that the day stays within its caps, of tickets and of money.             *)
(***************************************************************************)
EXTENDS Shadow, FiniteSetTheorems, TLAPS

USE DEF vars, watcher

-----------------------------------------------------------------------------
(* Sums.  A sum is a fold, a recursive function on the subsets of a finite *)
(* set: what it returns is proved by way of the smallest subset of which it *)
(* would not hold.                                                          *)

\* A property that the empty set has, and that one element more keeps, a finite set has.
LEMMA Grown ==
  ASSUME NEW S, IsFiniteSet(S), NEW P, {} \in P,
         \A T \in SUBSET S : \A x \in S \ T : T \in P => T \cup {x} \in P
  PROVE  S \in P
<1> SUFFICES ASSUME S \notin P PROVE FALSE
  OBVIOUS
<1> DEFINE Bad == {T \in SUBSET S : T \notin P}
<1>1. Bad # {} /\ Bad \subseteq FiniteSubsetsOf(S)
  BY FS_FiniteSubsetsOfFinite
<1>2. PICK T \in Bad : \A U \in Bad : ~(<<U, T>> \in StrictSubsetOrdering(S))
  <2> HIDE DEF Bad
  <2> QED
    BY <1>1, FS_StrictSubsetOrderingWellFounded, WFMin
<1>3. PICK x \in T : TRUE
  BY <1>2
<1>4. T \ {x} \in SUBSET S /\ <<T \ {x}, T>> \in StrictSubsetOrdering(S)
  BY <1>2, <1>3 DEF StrictSubsetOrdering
<1>5. T \ {x} \in P
  BY <1>2, <1>4
<1>6. (T \ {x}) \cup {x} = T
  BY <1>3
<1> QED
  BY <1>2, <1>3, <1>4, <1>5, <1>6

\* The recursion of a sum: g is the sums of f over the subsets of T.
Pick(s) == CHOOSE x \in s : TRUE
SumsOf(g, f, T) ==
  g = [s \in SUBSET T |-> IF s = {} THEN 0 ELSE f[Pick(s)] + g[s \ {Pick(s)}]]

\* The chosen element of a set that is not empty is in it.
LEMMA Picked == ASSUME NEW s, s # {} PROVE Pick(s) \in s
BY DEF Pick

\* There is one way to be that.
LEMMA SumsAgree ==
  ASSUME NEW S, IsFiniteSet(S), NEW f, NEW g, NEW h, NEW T \in SUBSET S, NEW U \in SUBSET S,
         SumsOf(g, f, T), SumsOf(h, f, U)
  PROVE  \A s \in SUBSET (T \cap U) : g[s] = h[s]
<1> SUFFICES ASSUME NEW s0 \in SUBSET (T \cap U), g[s0] # h[s0] PROVE FALSE
  OBVIOUS
<1> DEFINE Bad == {s \in SUBSET (T \cap U) : g[s] # h[s]}
<1>1. Bad # {} /\ Bad \subseteq FiniteSubsetsOf(S)
  BY FS_FiniteSubsetsOfFinite
<1>2. PICK s \in Bad : \A u \in Bad : ~(<<u, s>> \in StrictSubsetOrdering(S))
  <2> HIDE DEF Bad
  <2> QED
    BY <1>1, FS_StrictSubsetOrderingWellFounded, WFMin
<1>3. s # {}
  BY <1>2 DEF SumsOf
<1>4. Pick(s) \in s
  BY <1>3, Picked
<1> DEFINE u == s \ {Pick(s)}
<1>5. u \in SUBSET (T \cap U) /\ <<u, s>> \in StrictSubsetOrdering(S)
  BY <1>2, <1>4 DEF StrictSubsetOrdering
<1>6. g[u] = h[u]
  BY <1>2, <1>5
<1>7. g[s] = f[Pick(s)] + g[u]
  BY <1>2, <1>3 DEF SumsOf
<1>8. h[s] = f[Pick(s)] + h[u]
  BY <1>2, <1>3 DEF SumsOf
<1> QED
  BY <1>2, <1>6, <1>7, <1>8

\* A finite set has sums, with their parts.
LEMMA SumsExist ==
  ASSUME NEW S, IsFiniteSet(S), NEW f
  PROVE  \E g : SumsOf(g, f, S)
<1> SUFFICES ASSUME ~\E g : SumsOf(g, f, S) PROVE FALSE
  OBVIOUS
<1> DEFINE Bad == {T \in SUBSET S : ~\E g : SumsOf(g, f, T)}
<1>1. Bad # {} /\ Bad \subseteq FiniteSubsetsOf(S)
  BY FS_FiniteSubsetsOfFinite
<1>2. PICK T \in Bad : \A U \in Bad : ~(<<U, T>> \in StrictSubsetOrdering(S))
  <2> HIDE DEF Bad
  <2> QED
    BY <1>1, FS_StrictSubsetOrderingWellFounded, WFMin
<1> DEFINE Has(U) == CHOOSE g : SumsOf(g, f, U)
           of(U) == Has(U)[U]
           all == [s \in SUBSET T |-> IF s = {} THEN 0 ELSE f[Pick(s)] + of(s \ {Pick(s)})]
<1>3. ASSUME NEW U \in SUBSET T, U # T PROVE SumsOf(Has(U), f, U)
  <2>1. U \in SUBSET S /\ <<U, T>> \in StrictSubsetOrdering(S)
    BY <1>2, <1>3 DEF StrictSubsetOrdering
  <2>2. \E g : SumsOf(g, f, U)
    BY <1>2, <2>1
  <2> QED
    BY <2>2
<1>4. ASSUME NEW U \in SUBSET T, U # T PROVE of(U) = all[U]
  <2>1. SumsOf(Has(U), f, U)
    BY <1>3, <1>4
  <2>2. CASE U = {}
    BY <2>1, <2>2 DEF SumsOf
  <2>3. CASE U # {}
    <3> DEFINE V == U \ {Pick(U)}
    <3>1. Pick(U) \in U /\ V \in SUBSET U /\ V \in SUBSET T /\ V # T
      BY <2>3, <1>4, Picked
    <3>2. SumsOf(Has(V), f, V)
      BY <3>1, <1>3
    <3>3. Has(U)[V] = Has(V)[V]
      <4>1. U \in SUBSET S /\ V \in SUBSET S /\ V \in SUBSET (U \cap V)
        BY <1>2, <3>1
      <4> HIDE DEF V, Has
      <4> QED
        BY <4>1, <2>1, <3>2, SumsAgree
    <3>4. Has(U)[U] = f[Pick(U)] + Has(U)[V]
      <4> HIDE DEF Has
      <4> QED
        BY <2>1, <2>3 DEF SumsOf
    <3>5. all[U] = f[Pick(U)] + of(V)
      <4> HIDE DEF Has
      <4> QED
        BY <2>3
    <3> HIDE DEF Has, all, V
    <3> QED
      BY <3>3, <3>4, <3>5
  <2> QED
    BY <2>2, <2>3
<1>5. ASSUME NEW s \in SUBSET T, s # {}
      PROVE  s \ {Pick(s)} \in SUBSET T /\ s \ {Pick(s)} # T
  BY <1>5, Picked
<1>6. SumsOf(all, f, T)
  <2>1. \A s \in SUBSET T : s # {} => of(s \ {Pick(s)}) = all[s \ {Pick(s)}]
    <3> HIDE DEF all, of
    <3> QED
      BY <1>4, <1>5
  <2>2. all = [s \in SUBSET T |-> IF s = {} THEN 0 ELSE f[Pick(s)] + of(s \ {Pick(s)})]
    OBVIOUS
  <2> HIDE DEF all, of, Has
  <2>3. all = [s \in SUBSET T |-> IF s = {} THEN 0 ELSE f[Pick(s)] + all[s \ {Pick(s)}]]
    BY <2>1, <2>2
  <2> QED
    BY <2>3 DEF SumsOf
<1> HIDE DEF all
<1> QED
  BY <1>2, <1>6

\* A sum is the last of the sums.
LEMMA SumIsLast ==
  ASSUME NEW S, IsFiniteSet(S), NEW f, NEW g, SumsOf(g, f, S)
  PROVE  SumFunctionOnSet(f, S) = g[S]
<1> DEFINE last == CHOOSE h : SumsOf(h, f, S)
<1>1. SumFunctionOnSet(f, S) = last[S]
  BY DEF SumFunctionOnSet, FoldFunctionOnSet, MapThenFoldSet, SumsOf, Pick
<1>2. SumsOf(last, f, S)
  BY SumsExist
<1> HIDE DEF last
<1>3. S \in SUBSET S /\ S \in SUBSET (S \cap S)
  OBVIOUS
<1>4. last[S] = g[S]
  BY <1>2, <1>3, SumsAgree
<1> QED
  BY <1>1, <1>4

\* What a set has when each subset has it whose own parts have it, it has.
LEMMA Whole ==
  ASSUME NEW S, IsFiniteSet(S), NEW P,
         \A T \in SUBSET S : (\A U \in SUBSET T : U # T => U \in P) => T \in P
  PROVE  S \in P
<1> SUFFICES ASSUME S \notin P PROVE FALSE
  OBVIOUS
<1> DEFINE Bad == {T \in SUBSET S : T \notin P}
<1>1. Bad # {} /\ Bad \subseteq FiniteSubsetsOf(S)
  BY FS_FiniteSubsetsOfFinite
<1>2. PICK T \in Bad : \A U \in Bad : ~(<<U, T>> \in StrictSubsetOrdering(S))
  <2> HIDE DEF Bad
  <2> QED
    BY <1>1, FS_StrictSubsetOrderingWellFounded, WFMin
<1>3. \A U \in SUBSET T : U # T => U \in P
  BY <1>2 DEF StrictSubsetOrdering
<1> QED
  BY <1>2, <1>3

\* A sum may begin with any of the set.
LEMMA SumsBegin ==
  ASSUME NEW S, IsFiniteSet(S), NEW f, \A x \in S : f[x] \in Nat, NEW g, SumsOf(g, f, S)
  PROVE  g[S] \in Nat /\ \A x \in S : g[S] = f[x] + g[S \ {x}]
<1> DEFINE Begins(T) == g[T] \in Nat /\ \A x \in T : g[T] = f[x] + g[T \ {x}]
           P == {T \in SUBSET S : Begins(T)}
<1>1. ASSUME NEW T \in SUBSET S, \A U \in SUBSET T : U # T => U \in P
      PROVE  Begins(T)
  <2>1. CASE T = {}
    BY <2>1 DEF SumsOf
  <2>2. CASE T # {}
    <3> DEFINE y == Pick(T)
    <3>1. y \in T /\ g[T] = f[y] + g[T \ {y}]
      BY <2>2, Picked DEF SumsOf
    <3>2. \A x \in T : Begins(T \ {x}) /\ f[x] \in Nat
      <4> SUFFICES ASSUME NEW x \in T PROVE Begins(T \ {x}) /\ f[x] \in Nat
        OBVIOUS
      <4>1. T \ {x} \in SUBSET T /\ T \ {x} # T /\ x \in S
        OBVIOUS
      <4> HIDE DEF Begins
      <4> QED
        BY <4>1, <1>1
    <3>3. ASSUME NEW x \in T, x # y PROVE g[T] = f[x] + g[T \ {x}]
      <4> DEFINE R == T \ {x, y}
      <4>1. (T \ {y}) \ {x} = R /\ (T \ {x}) \ {y} = R
        OBVIOUS
      <4>2. x \in T \ {y} /\ y \in T \ {x}
        BY <3>1, <3>3
      <4>3. g[T \ {y}] = f[x] + g[R]
        BY <3>1, <3>2, <4>1, <4>2
      <4>4. g[T \ {x}] = f[y] + g[R]
        BY <3>2, <4>1, <4>2
      <4>5. (T \ {y}) \ {x} \in SUBSET T /\ (T \ {y}) \ {x} # T
        BY <3>1, <3>3
      <4>6. g[R] \in Nat
        BY <1>1, <4>1, <4>5
      <4>7. f[x] \in Nat /\ f[y] \in Nat
        BY <3>1, <3>2
      <4> HIDE DEF R, y
      <4> QED
        BY <3>1, <4>3, <4>4, <4>6, <4>7
    <3>4. g[T] \in Nat
      BY <3>1, <3>2
    <3> QED
      BY <3>1, <3>3, <3>4
  <2> QED
    BY <2>1, <2>2
<1>2. \A T \in SUBSET S : (\A U \in SUBSET T : U # T => U \in P) => T \in P
  BY <1>1
<1>3. S \in P
  <2> HIDE DEF P
  <2> QED
    BY <1>2, Whole
<1> QED
  BY <1>3

\* The sum of nothing, of a set, and of one element more.
LEMMA SumOfNone == ASSUME NEW f PROVE SumFunctionOnSet(f, {}) = 0
<1>1. IsFiniteSet({})
  BY FS_EmptySet
<1>2. PICK g : SumsOf(g, f, {})
  BY <1>1, SumsExist
<1>3. g[{}] = 0
  BY <1>2 DEF SumsOf
<1> QED
  BY <1>1, <1>2, <1>3, SumIsLast

\* A finite sum of naturals is a natural: the case of SumWithin that has no bound.
LEMMA SumType ==
  ASSUME NEW S, IsFiniteSet(S), NEW f, \A x \in S : f[x] \in Nat
  PROVE  SumFunctionOnSet(f, S) \in Nat
<1>1. PICK g : SumsOf(g, f, S)
  BY SumsExist
<1>2. g[S] \in Nat
  BY <1>1, SumsBegin
<1> QED
  BY <1>1, <1>2, SumIsLast

\* Adding an index to a sum adds its term.
LEMMA SumOfOneMore ==
  ASSUME NEW S, IsFiniteSet(S), NEW f, NEW x, x \notin S, \A y \in S \cup {x} : f[y] \in Nat
  PROVE  SumFunctionOnSet(f, S \cup {x}) = SumFunctionOnSet(f, S) + f[x]
<1> DEFINE T == S \cup {x}
<1>1. IsFiniteSet(T) /\ S \in SUBSET T /\ T \ {x} = S /\ x \in T
  BY FS_AddElement
<1>2. PICK g : SumsOf(g, f, T)
  BY <1>1, SumsExist
<1> DEFINE h == [s \in SUBSET S |-> g[s]]
<1>3. SumsOf(h, f, S)
  <2>1. \A s \in SUBSET S : s # {} => s \ {Pick(s)} \in SUBSET S
    OBVIOUS
  <2> QED
    BY <1>1, <1>2, <2>1 DEF SumsOf
<1>4. SumFunctionOnSet(f, S) = g[S]
  <2>1. SumFunctionOnSet(f, S) = h[S]
    <3> HIDE DEF h
    <3> QED
      BY <1>3, SumIsLast
  <2> QED
    BY <2>1
<1>5. SumFunctionOnSet(f, T) = g[T]
  BY <1>1, <1>2, SumIsLast
<1>6. g[T] = f[x] + g[S]
  <2>1. \A y \in T : f[y] \in Nat
    OBVIOUS
  <2>2. \A y \in T : g[T] = f[y] + g[T \ {y}]
    <3> HIDE DEF T
    <3> QED
      BY <1>1, <1>2, <2>1, SumsBegin
  <2> QED
    BY <1>1, <2>2
<1>7. g[S] \in Nat /\ f[x] \in Nat
  BY <1>1, <1>4, SumType
<1> QED
  BY <1>4, <1>5, <1>6, <1>7

\* Functions that agree on a set have one sum there.
LEMMA SumsOfEquals ==
  ASSUME NEW S, IsFiniteSet(S), NEW f, NEW g, \A x \in S : f[x] \in Nat /\ f[x] = g[x]
  PROVE  SumFunctionOnSet(f, S) = SumFunctionOnSet(g, S)
<1> DEFINE P == {T \in SUBSET S : SumFunctionOnSet(f, T) = SumFunctionOnSet(g, T)}
<1>1. {} \in P
  BY SumOfNone
<1>2. ASSUME NEW T \in SUBSET S, NEW x \in S \ T, T \in P PROVE T \cup {x} \in P
  <2>1. IsFiniteSet(T)
    BY FS_Subset
  <2>2. SumFunctionOnSet(f, T \cup {x}) = SumFunctionOnSet(f, T) + f[x]
    BY <2>1, SumOfOneMore
  <2>3. \A y \in T \cup {x} : g[y] \in Nat
    OBVIOUS
  <2>4. SumFunctionOnSet(g, T \cup {x}) = SumFunctionOnSet(g, T) + g[x]
    BY <2>1, <2>3, SumOfOneMore
  <2> QED
    BY <1>2, <2>2, <2>4
<1>3. S \in P
  <2> HIDE DEF P
  <2> QED
    BY <1>1, <1>2, Grown
<1> QED
  BY <1>3

\* A sum over the sum of two functions, and one that stays below another.
LEMMA SumOfSums ==
  ASSUME NEW S, IsFiniteSet(S), NEW f, NEW g, NEW h,
         \A x \in S : f[x] \in Nat /\ g[x] \in Nat /\ h[x] \in Nat /\ h[x] <= f[x] + g[x]
  PROVE  SumFunctionOnSet(h, S) <= SumFunctionOnSet(f, S) + SumFunctionOnSet(g, S)
<1> DEFINE P == {T \in SUBSET S :
                   SumFunctionOnSet(h, T) <= SumFunctionOnSet(f, T) + SumFunctionOnSet(g, T)}
<1>1. {} \in P
  BY SumOfNone
<1>2. ASSUME NEW T \in SUBSET S, NEW x \in S \ T, T \in P PROVE T \cup {x} \in P
  <2>1. IsFiniteSet(T)
    BY FS_Subset
  <2>2. /\ SumFunctionOnSet(f, T \cup {x}) = SumFunctionOnSet(f, T) + f[x]
        /\ SumFunctionOnSet(g, T \cup {x}) = SumFunctionOnSet(g, T) + g[x]
        /\ SumFunctionOnSet(h, T \cup {x}) = SumFunctionOnSet(h, T) + h[x]
    BY <2>1, SumOfOneMore
  <2>3. /\ SumFunctionOnSet(f, T) \in Nat /\ SumFunctionOnSet(g, T) \in Nat
        /\ SumFunctionOnSet(h, T) \in Nat
    BY <2>1, SumType
  <2>4. SumFunctionOnSet(h, T) <= SumFunctionOnSet(f, T) + SumFunctionOnSet(g, T)
    BY <1>2
  <2>5. f[x] \in Nat /\ g[x] \in Nat /\ h[x] \in Nat /\ h[x] <= f[x] + g[x]
    OBVIOUS
  <2>6. SumFunctionOnSet(h, T \cup {x}) <= SumFunctionOnSet(f, T \cup {x}) + SumFunctionOnSet(g, T \cup {x})
    BY <2>2, <2>3, <2>4, <2>5
  <2>7. T \cup {x} \in SUBSET S
    OBVIOUS
  <2> QED
    BY <2>6, <2>7
<1>3. S \in P
  <2> HIDE DEF P
  <2> QED
    BY <1>1, <1>2, Grown
<1> QED
  BY <1>3

\* A sum over a set is that over the part of it that counts.
LEMMA SumOfPart ==
  ASSUME NEW S, IsFiniteSet(S), NEW T \in SUBSET S, NEW f, \A x \in S : f[x] \in Nat,
         \A x \in S \ T : f[x] = 0
  PROVE  SumFunctionOnSet(f, S) = SumFunctionOnSet(f, T)
<1> DEFINE P == {U \in SUBSET S : SumFunctionOnSet(f, U) = SumFunctionOnSet(f, U \cap T)}
<1>1. {} \in P
  OBVIOUS
<1>2. ASSUME NEW U \in SUBSET S, NEW x \in S \ U, U \in P PROVE U \cup {x} \in P
  <2>1. IsFiniteSet(U) /\ IsFiniteSet(U \cap T)
    BY FS_Subset
  <2>2. SumFunctionOnSet(f, U \cup {x}) = SumFunctionOnSet(f, U) + f[x]
    BY <2>1, SumOfOneMore
  <2>3. SumFunctionOnSet(f, U) \in Nat /\ f[x] \in Nat
    BY <2>1, SumType
  <2>4. CASE x \in T
    <3>1. (U \cup {x}) \cap T = (U \cap T) \cup {x} /\ x \notin U \cap T
      BY <2>4
    <3>2. SumFunctionOnSet(f, (U \cap T) \cup {x}) = SumFunctionOnSet(f, U \cap T) + f[x]
      BY <2>1, <3>1, SumOfOneMore
    <3> QED
      BY <1>2, <2>2, <3>1, <3>2
  <2>5. CASE x \notin T
    <3>1. (U \cup {x}) \cap T = U \cap T /\ f[x] = 0
      BY <2>5
    <3>2. SumFunctionOnSet(f, U \cup {x}) = SumFunctionOnSet(f, U)
      BY <2>2, <2>3, <3>1
    <3> QED
      BY <1>2, <3>1, <3>2
  <2> QED
    BY <2>4, <2>5
<1>3. S \in P
  <2> HIDE DEF P
  <2> QED
    BY <1>1, <1>2, Grown
<1>4. S \cap T = T
  OBVIOUS
<1> QED
  BY <1>3, <1>4

\* A function that changed in one place.
LEMMA SumOfChanged ==
  ASSUME NEW S, IsFiniteSet(S), NEW x \in S, NEW f, NEW g, \A y \in S : f[y] \in Nat /\ g[y] \in Nat,
         \A y \in S \ {x} : g[y] = f[y], NEW d \in Nat, g[x] = f[x] + d
  PROVE  SumFunctionOnSet(g, S) = SumFunctionOnSet(f, S) + d
<1> DEFINE R == S \ {x}
<1>1. IsFiniteSet(R) /\ x \notin R /\ R \cup {x} = S
  BY FS_Subset
<1>2. /\ SumFunctionOnSet(f, R \cup {x}) = SumFunctionOnSet(f, R) + f[x]
      /\ SumFunctionOnSet(g, R \cup {x}) = SumFunctionOnSet(g, R) + g[x]
  <2>1. \A y \in R \cup {x} : f[y] \in Nat /\ g[y] \in Nat
    OBVIOUS
  <2> HIDE DEF R
  <2> QED
    BY <1>1, <2>1, SumOfOneMore
<1>3. SumFunctionOnSet(f, R) = SumFunctionOnSet(g, R)
  <2>1. \A y \in R : f[y] \in Nat /\ f[y] = g[y]
    OBVIOUS
  <2> HIDE DEF R
  <2> QED
    BY <1>1, <2>1, SumsOfEquals
<1>4. SumFunctionOnSet(f, R) \in Nat /\ f[x] \in Nat
  <2>1. \A y \in R : f[y] \in Nat
    OBVIOUS
  <2> HIDE DEF R
  <2> QED
    BY <1>1, <2>1, SumType
<1> HIDE DEF R
<1>5. /\ SumFunctionOnSet(f, S) = SumFunctionOnSet(f, R) + f[x]
      /\ SumFunctionOnSet(g, S) = SumFunctionOnSet(f, R) + g[x]
  BY <1>1, <1>2, <1>3
<1> QED
  BY <1>4, <1>5

\* The parts of a sum, sorted by what m says of each, are the sum.
LEMMA SumOfSorted ==
  ASSUME NEW S, IsFiniteSet(S), NEW R, IsFiniteSet(R), NEW f, \A x \in S : f[x] \in Nat,
         NEW m, \A x \in S : m[x] \in R
  PROVE  SumFunctionOnSet([r \in R |-> SumFunctionOnSet(f, {x \in S : m[x] = r})], R)
           = SumFunctionOnSet(f, S)
<1> DEFINE Part(T, r) == SumFunctionOnSet(f, {x \in T : m[x] = r})
           parts(T) == [r \in R |-> Part(T, r)]
           P == {T \in SUBSET S : SumFunctionOnSet(parts(T), R) = SumFunctionOnSet(f, T)}
<1>1. ASSUME NEW T \in SUBSET S, NEW r
      PROVE  IsFiniteSet(T) /\ IsFiniteSet({x \in T : m[x] = r}) /\ Part(T, r) \in Nat
  <2>1. IsFiniteSet(T)
    BY FS_Subset
  <2>2. IsFiniteSet({x \in T : m[x] = r})
    BY <2>1, FS_Subset
  <2> QED
    BY <2>1, <2>2, SumType
<1>2. {} \in P
  <2>1. \A r \in R : {x \in {} : m[x] = r} = {}
    OBVIOUS
  <2>2. \A r \in R : parts({})[r] = 0
    BY <2>1, SumOfNone
  <2> HIDE DEF parts
  <2>3. SumFunctionOnSet(parts({}), R) = SumFunctionOnSet(parts({}), {})
    BY <2>2, SumOfPart
  <2> QED
    BY <2>3, SumOfNone
<1>3. ASSUME NEW T \in SUBSET S, NEW x \in S \ T, T \in P PROVE T \cup {x} \in P
  <2> DEFINE U == T \cup {x}
  <2>1. SumFunctionOnSet(f, U) = SumFunctionOnSet(f, T) + f[x]
    BY <1>1, SumOfOneMore
  <2>2. \A r \in R \ {m[x]} : {y \in U : m[y] = r} = {y \in T : m[y] = r}
    OBVIOUS
  <2>3. \A r \in R \ {m[x]} : Part(U, r) = Part(T, r)
    BY <2>2
  <2>4. Part(U, m[x]) = Part(T, m[x]) + f[x]
    <3> DEFINE V == {y \in T : m[y] = m[x]}
    <3>1. {y \in U : m[y] = m[x]} = V \cup {x} /\ x \notin V
      OBVIOUS
    <3>2. IsFiniteSet(V) /\ \A y \in V \cup {x} : f[y] \in Nat
      BY <1>1
    <3> HIDE DEF V
    <3>3. SumFunctionOnSet(f, V \cup {x}) = SumFunctionOnSet(f, V) + f[x]
      BY <3>1, <3>2, SumOfOneMore
    <3> QED
      BY <3>1, <3>3 DEF V
  <2>5. m[x] \in R /\ f[x] \in Nat /\ U \in SUBSET S
    OBVIOUS
  <2>6. \A r \in R : Part(T, r) \in Nat /\ Part(U, r) \in Nat
    BY <1>1, <2>5
  <2>7. SumFunctionOnSet(parts(U), R) = SumFunctionOnSet(parts(T), R) + f[x]
    <3> HIDE DEF Part, U
    <3> DEFINE g == parts(T)
               h == parts(U)
    <3>1. /\ \A r \in R : g[r] \in Nat /\ h[r] \in Nat
          /\ \A r \in R \ {m[x]} : h[r] = g[r]
          /\ h[m[x]] = g[m[x]] + f[x]
      BY <2>3, <2>4, <2>5, <2>6
    <3> HIDE DEF g, h, parts
    <3>2. SumFunctionOnSet(h, R) = SumFunctionOnSet(g, R) + f[x]
      BY <2>5, <3>1, SumOfChanged
    <3> QED
      BY <3>2 DEF g, h
  <2> HIDE DEF parts, U
  <2>8. SumFunctionOnSet(parts(U), R) = SumFunctionOnSet(f, U)
    BY <1>3, <2>1, <2>7
  <2> QED
    BY <2>5, <2>8 DEF U
<1>4. S \in P
  <2> HIDE DEF P
  <2> QED
    BY <1>2, <1>3, Grown
<1> QED
  BY <1>4

-----------------------------------------------------------------------------
(* Shapes.                                                                  *)

\* Where a process may stand, and what it may drive there.
Placed ==
  \A p \in Procs :
    /\ life[p] # "up" => at[p] = "idle"
    /\ ~Up(p) => jobs[p] = {}
    /\ scene.kind[p] = "hand" => at[p] \in {"idle", "asked", "done"}
    /\ scene.kind[p] = "hand" /\ at[p] # "done" => jobs[p] = {}
    /\ scene.kind[p] # "hand" => at[p] # "asked"
    /\ at[p] \in {"take", "look", "remove"} => tries[p] > 0

\* What a process read is a part of what the ledger has since.
Earlier(p) == \A k \in Tickets : Len(read[p][k]) <= Len(ledger[k])

Types ==
  /\ scene \in Scenes /\ life \in [Procs -> {"off", "up", "leaving", "dead"}]
  /\ WatcherTypes
  /\ ledger \in LedgerType /\ read \in [Procs -> LedgerType]
  /\ disk \in [Tickets -> [Lines -> State]]
  /\ jobs \in [Procs -> SUBSET Job]
  /\ \A p \in Procs : IsFiniteSet(jobs[p]) /\ Cardinality(jobs[p]) <= scene.concurrency

Formed == Types /\ Placed /\ \A p \in Procs : Earlier(p)

\* What recovery has yet to look at was read open.
Sighted(p) ==
  \A x \in todo[p] :
    /\ at[p] \in {"recover", "wrote"}
    /\ x \in Tickets \X Lines /\ x[2] \in DOMAIN read[p][x[1]] /\ Open(Seen(p, x))

Shapes == Formed /\ \A p \in Procs : Sighted(p)

\* The line numbers and run ids of a ticket are finitely many.
LEMMA LinesFinite == IsFiniteSet(Lines)
<1>1. 1 \in Int /\ MaxLines \in Int
  BY ShadowAssumption
<1> QED
  BY <1>1, FS_Interval DEF Lines

\* What every scene has, spelt out once.
LEMMA SceneType ==
  ASSUME scene \in Scenes
  PROVE  /\ scene.kind \in [Procs -> {"serve", "once", "hand"}]
         /\ scene.inTurn \in BOOLEAN /\ scene.listed \subseteq Tickets
         /\ scene.concurrency \in Nat \ {0} /\ scene.maxPerDay \in Nat
         /\ scene.hush \in BOOLEAN /\ scene.most \in Nat
BY ShadowAssumption

\* The largest of a finite set of integers, and the smallest of two.
LEMMA MaxIs ==
  ASSUME NEW S \in SUBSET Int, NEW m \in S, \A x \in S : x <= m
  PROVE  Max(S) = m
<1>1. Max(S) \in S /\ \A x \in S : Max(S) >= x
  <2>1. \E x \in S : \A y \in S : x >= y
    BY SMT
  <2> QED
    BY <2>1 DEF Max
<1>2. Max(S) >= m /\ Max(S) <= m /\ Max(S) \in Int /\ m \in Int
  BY <1>1
<1> QED
  BY <1>2

\* The greatest of a finite set of integers is one of them and no smaller than any.
LEMMA Largest ==
  ASSUME NEW S \in SUBSET Int, IsFiniteSet(S), NEW m \in S
  PROVE  Max(S) \in S /\ \A n \in S : n <= Max(S)
<1> DEFINE P == {T \in SUBSET S : T = {} \/ \E x \in T : \A y \in T : y <= x}
<1>1. {} \in P
  OBVIOUS
<1>2. ASSUME NEW T \in SUBSET S, NEW x \in S \ T, T \in P PROVE T \cup {x} \in P
  <2>1. CASE T = {}
    BY <2>1
  <2>2. CASE T # {}
    <3>1. PICK z \in T : \A y \in T : y <= z
      BY <1>2, <2>2
    <3>2. \E w \in T \cup {x} : \A y \in T \cup {x} : y <= w
      <4>1. CASE x <= z
        BY <3>1, <4>1
      <4>2. CASE ~(x <= z)
        BY <3>1, <4>2
      <4> QED
        BY <4>1, <4>2
    <3> QED
      BY <3>2
  <2> QED
    BY <2>1, <2>2
<1>3. S \in P
  <2> HIDE DEF P
  <2> QED
    BY <1>1, <1>2, Grown
<1>4. PICK x \in S : \A y \in S : y <= x
  BY <1>3
<1>5. Max(S) = x
  BY <1>4, MaxIs
<1> QED
  BY <1>4, <1>5

\* Max({0, x}), the form CostOf and Added are written in, is x unless x is negative.
LEMMA MaxOfZero ==
  ASSUME NEW x \in Int
  PROVE  Max({0, x}) = IF x > 0 THEN x ELSE 0
<1>1. CASE x > 0
  BY <1>1, MaxIs
<1>2. CASE ~(x > 0)
  BY <1>2, MaxIs
<1> QED
  BY <1>1, <1>2

\* The smaller of two integers is an integer no greater than the second.
LEMMA MinOfTwo ==
  ASSUME NEW x \in Int, NEW y \in Int
  PROVE  Min({x, y}) \in Int /\ Min({x, y}) <= y
<1>1. \E m \in {x, y} : \A n \in {x, y} : m <= n
  <2>1. CASE x <= y
    BY <2>1
  <2>2. CASE ~(x <= y)
    BY <2>2
  <2> QED
    BY <2>1, <2>2
<1>2. Min({x, y}) \in {x, y} /\ \A n \in {x, y} : Min({x, y}) <= n
  BY <1>1 DEF Min
<1> QED
  BY <1>2

\* A ticket's attempts are numbered from one, and finitely many.
LEMMA Indexed ==
  ASSUME NEW led \in LedgerType, NEW k \in Tickets
  PROVE  /\ led[k] \in Seq(Attempts) /\ Len(led[k]) \in Nat /\ DOMAIN led[k] = 1 .. Len(led[k])
         /\ IsFiniteSet(DOMAIN led[k])
         /\ \A i \in DOMAIN led[k] : led[k][i] \in Attempts
<1>1. led[k] \in Seq(Attempts)
  BY DEF LedgerType
<1>2. Len(led[k]) \in Nat /\ DOMAIN led[k] = 1 .. Len(led[k])
  BY <1>1
<1>3. IsFiniteSet(1 .. Len(led[k]))
  BY <1>2, FS_Interval
<1> QED
  BY <1>1, <1>2, <1>3

\* The fields of a ledger line.
LEMMA AttemptType ==
  ASSUME NEW a \in Attempts
  PROVE  /\ a.pid \in Procs /\ a.run \in Lines /\ a.no \in Lines
         /\ a.end \in {"open", "answer", "again"} /\ a.cost \in Nat
BY DEF Attempts

\* A finished line says how an attempt ended and what it cost, and no more.
LEMMA FinishedType ==
  ASSUME NEW a \in Attempts, NEW end \in {"answer", "again"}, NEW c \in Nat
  PROVE  /\ Finished(a, end, c) \in Attempts
         /\ Finished(a, end, c).pid = a.pid /\ Finished(a, end, c).run = a.run
         /\ Finished(a, end, c).no = a.no /\ Finished(a, end, c).end = end
         /\ Finished(a, end, c).cost = a.cost + c
<1> DEFINE b == [a EXCEPT !.end = end]
           e == [b EXCEPT !.cost = a.cost + c]
<1>1. a.cost \in Nat /\ a.cost + c \in Nat
  BY DEF Attempts
<1>2. /\ b \in Attempts /\ b.pid = a.pid /\ b.run = a.run /\ b.no = a.no /\ b.end = end
      /\ b.cost = a.cost
  BY DEF Attempts
<1>3. Finished(a, end, c) = e
  BY <1>2 DEF Finished
<1> HIDE DEF b
<1>4. /\ e \in Attempts /\ e.pid = b.pid /\ e.run = b.run /\ e.no = b.no /\ e.end = b.end
      /\ e.cost = a.cost + c
  BY <1>1, <1>2 DEF Attempts
<1> QED
  BY <1>2, <1>3, <1>4

\* What was counted is a sum of costs.
LEMMA CountedType ==
  ASSUME NEW led \in LedgerType, NEW k \in Tickets, NEW r
  PROVE  PriorCost(led, k, r) \in Nat /\ SumFunction(Costs(led, k)) \in Nat
<1> DEFINE named == {i \in DOMAIN led[k] : led[k][i].run = r}
<1>1. \A i \in DOMAIN led[k] : Costs(led, k)[i] \in Nat
  <2>1. \A i \in DOMAIN led[k] : led[k][i] \in Attempts
    BY Indexed
  <2> QED
    BY <2>1, AttemptType DEF Costs
<1>2. IsFiniteSet(DOMAIN led[k]) /\ IsFiniteSet(named)
  BY Indexed, FS_Subset
<1>3. SumFunctionOnSet(Costs(led, k), named) \in Nat
  <2> HIDE DEF named
  <2>1. \A i \in named : Costs(led, k)[i] \in Nat
    BY <1>1 DEF named
  <2> QED
    BY <1>2, <2>1, SumType
<1>4. DOMAIN Costs(led, k) = DOMAIN led[k]
  BY DEF Costs
<1>5. SumFunction(Costs(led, k)) \in Nat
  BY <1>1, <1>2, <1>4, SumType DEF SumFunction
<1> QED
  BY <1>3, <1>5 DEF PriorCost

\* What a run adds to the day over what its earlier lines recorded: a natural, and with the
\* earlier lines the whole of the run's cost.
LEMMA AddedType ==
  ASSUME Types, NEW led \in LedgerType, NEW k \in Tickets, NEW r \in Lines
  PROVE  /\ Added(led, k, r) \in Nat
         /\ Added(led, k, r) >= disk[k][r].cost - PriorCost(led, k, r)
         /\ PriorCost(led, k, r) <= disk[k][r].cost =>
              PriorCost(led, k, r) + Added(led, k, r) = disk[k][r].cost
<1>1. disk[k][r].cost \in Nat
  BY DEF Types, State
<1>2. PriorCost(led, k, r) \in Nat
  BY CountedType
<1> QED
  BY <1>1, <1>2, MaxOfZero DEF Added

\* The day's spending a ledger records is a natural.
LEMMA TodayType ==
  ASSUME Types, NEW led \in LedgerType
  PROVE  USDToday(led) \in Nat
<1>1. \A k \in Tickets : IsFiniteSet(OpenRuns(led, k)) /\ OpenRuns(led, k) \subseteq Lines
  <2> SUFFICES ASSUME NEW k \in Tickets
               PROVE  IsFiniteSet(OpenRuns(led, k)) /\ OpenRuns(led, k) \subseteq Lines
    OBVIOUS
  <2>1. OpenRuns(led, k) \subseteq Lines
    BY Indexed, AttemptType DEF OpenRuns
  <2>2. IsFiniteSet(Lines)
    BY LinesFinite
  <2> QED
    BY <2>1, <2>2, FS_Subset
<1> DEFINE adds(k) == [r \in OpenRuns(led, k) |-> Added(led, k, r)]
           open == [k \in Tickets |-> SumFunction(adds(k))]
           done == [k \in Tickets |-> SumFunction(Costs(led, k))]
<1>2. \A k \in Tickets : open[k] \in Nat
  <2> SUFFICES ASSUME NEW k \in Tickets PROVE SumFunction(adds(k)) \in Nat
    OBVIOUS
  <2>1. \A r \in OpenRuns(led, k) : adds(k)[r] \in Nat
    BY <1>1, AddedType
  <2>2. DOMAIN adds(k) = OpenRuns(led, k)
    OBVIOUS
  <2> HIDE DEF adds
  <2> QED
    BY <1>1, <2>1, <2>2, SumType DEF SumFunction
<1>3. \A k \in Tickets : done[k] \in Nat
  BY CountedType
<1>4. SumFunction(open) \in Nat /\ SumFunction(done) \in Nat
  <2>1. DOMAIN open = Tickets /\ DOMAIN done = Tickets
    OBVIOUS
  <2> HIDE DEF open, done
  <2> QED
    BY <1>2, <1>3, <2>1, SumType, ShadowAssumption DEF SumFunction
<1> QED
  BY <1>4 DEF USDToday, InFlightUSD

\* What a launch may spend: no more than what the day has left, plus what the run's earlier
\* lines recorded, since the run reports its cost from its own beginning.
LEMMA AllowedType ==
  ASSUME Types, NEW spent \in Nat, NEW k \in Tickets, NEW r
  PROVE  /\ Allowed(spent, k, r) \in Int
         /\ Allowed(spent, k, r) <= MaxUSDPerDay - spent + PriorCost(ledger, k, r)
<1>1. PriorCost(ledger, k, r) \in Nat /\ MaxUSDPerDay \in Nat /\ Budget \in Nat
  BY CountedType, ShadowAssumption DEF Types
<1>2. MaxUSDPerDay - spent + PriorCost(ledger, k, r) \in Int
  BY <1>1
<1> QED
  BY <1>1, <1>2, MinOfTwo DEF Allowed

-----------------------------------------------------------------------------
(* What the steps do to the ledger.                                         *)

\* An attempt more: the others stay as they are.
LEMMA AppendEffect ==
  ASSUME ledger \in LedgerType, NEW k \in Tickets, NEW a \in Attempts,
         ledger' = [ledger EXCEPT ![k] = Append(ledger[k], a)]
  PROVE  /\ ledger' \in LedgerType
         /\ \A l \in Tickets \ {k} : ledger'[l] = ledger[l]
         /\ Len(ledger'[k]) = Len(ledger[k]) + 1
         /\ DOMAIN ledger'[k] = 1 .. Len(ledger[k]) + 1
         /\ \A i \in DOMAIN ledger[k] : ledger'[k][i] = ledger[k][i]
         /\ ledger'[k][Len(ledger[k]) + 1] = a
<1>1. ledger[k] \in Seq(Attempts) /\ Len(ledger[k]) \in Nat /\ DOMAIN ledger[k] = 1 .. Len(ledger[k])
  BY Indexed
<1>2. ledger'[k] = Append(ledger[k], a) /\ Append(ledger[k], a) \in Seq(Attempts)
  BY <1>1 DEF LedgerType
<1>3. Len(ledger'[k]) = Len(ledger[k]) + 1 /\ DOMAIN ledger'[k] = 1 .. Len(ledger[k]) + 1
  BY <1>1, <1>2
<1>4. ledger' \in LedgerType
  BY <1>2 DEF LedgerType
<1> QED
  BY <1>1, <1>2, <1>3, <1>4

\* A launch: one line, one job; a run of its own, or the one the ticket's last
\* attempt had.
Launched(p, k, no, r, spent) ==
  /\ r \in Lines /\ Len(ledger[k]) + 1 \in Lines
  /\ ledger' = [ledger EXCEPT ![k] = Append(ledger[k],
                  [pid |-> p, run |-> r, no |-> no, end |-> "open", cost |-> 0])]
  /\ jobs' = [jobs EXCEPT ![p] = jobs[p] \cup
                {[key |-> k, run |-> r, at |-> "building", allow |-> Allowed(spent, k, r)]}]
  /\ \/ r = Len(ledger[k]) + 1
     \/ no > 1 /\ scene.kind[p] # "hand" /\ r = Latest(read[p], k).run

\* A launch appends one line, adds one job and writes the record of one run: Launched names
\* that run.
LEMMA LaunchEffect ==
  ASSUME Types, NEW p \in Procs, NEW k \in Tickets, NEW no, NEW spent, Launch(p, k, no, spent),
         no > 1 => read[p][k] # << >>
  PROVE  \E r : Launched(p, k, no, r, spent)
<1> DEFINE prev == IF no > 1 /\ scene.kind[p] # "hand" THEN Latest(read[p], k).run ELSE 0
           new  == Len(ledger[k]) + 1
           r    == IF prev # 0 /\ disk[k][prev].handle THEN prev ELSE new
<1>1. /\ new \in Lines
      /\ ledger' = [ledger EXCEPT ![k] = Append(ledger[k],
                      [pid |-> p, run |-> r, no |-> no, end |-> "open", cost |-> 0])]
      /\ jobs' = [jobs EXCEPT ![p] = jobs[p] \cup
                    {[key |-> k, run |-> r, at |-> "building", allow |-> Allowed(spent, k, r)]}]
  BY DEF Launch
<1>2. r \in Lines
  <2>1. CASE no > 1 /\ scene.kind[p] # "hand"
    <3>1. read[p] \in LedgerType /\ read[p][k] # << >>
      BY <2>1 DEF Types
    <3>2. Len(read[p][k]) \in DOMAIN read[p][k]
      BY <3>1, Indexed
    <3>3. Latest(read[p], k) \in Attempts
      BY <3>1, <3>2, Indexed DEF Latest
    <3>4. Latest(read[p], k).run \in Lines
      BY <3>3, AttemptType
    <3> QED
      BY <1>1, <2>1, <3>4
  <2>2. CASE ~(no > 1 /\ scene.kind[p] # "hand")
    BY <1>1, <2>2
  <2> QED
    BY <2>1, <2>2
<1>3. r = new \/ (no > 1 /\ scene.kind[p] # "hand" /\ r = Latest(read[p], k).run)
  OBVIOUS
<1> HIDE DEF prev, r
<1> QED
  BY <1>1, <1>2, <1>3 DEF Launched

\* The line and the job a launch adds are well typed.
LEMMA LaunchTypes ==
  ASSUME Types, NEW p \in Procs, NEW k \in Tickets, NEW no \in Lines, NEW r, NEW spent \in Nat, Launched(p, k, no, r, spent)
  PROVE  /\ [pid |-> p, run |-> r, no |-> no, end |-> "open", cost |-> 0] \in Attempts
         /\ [key |-> k, run |-> r, at |-> "building", allow |-> Allowed(spent, k, r)] \in Job
<1>1. r \in Lines /\ Allowed(spent, k, r) \in Int
  BY AllowedType DEF Launched
<1> QED
  BY <1>1 DEF Attempts, Job

\* The last of a ticket's attempts that names a run.
LastOf(led, k, r, i) ==
  /\ i \in DOMAIN led[k] /\ led[k][i].run = r
  /\ \A n \in DOMAIN led[k] : n > i => led[k][n].run # r

\* The choice AttemptOf makes is the last open line of the run.
LEMMA LastIs ==
  ASSUME NEW led \in LedgerType, NEW k \in Tickets, NEW r, NEW i, LastOf(led, k, r, i)
  PROVE  AttemptOf(led, k, r) = i
<1> DEFINE named == {n \in DOMAIN led[k] : led[k][n].run = r}
<1>1. named \in SUBSET Int /\ i \in named /\ \A n \in named : n <= i
  BY Indexed DEF LastOf
<1> HIDE DEF named
<1>2. Max(named) = i
  BY <1>1, MaxIs
<1> QED
  BY <1>2 DEF AttemptOf, named

\* Where any attempt names a run, its last does.
LEMMA LastNamed ==
  ASSUME NEW led \in LedgerType, NEW k \in Tickets, NEW r, NEW m \in DOMAIN led[k], led[k][m].run = r
  PROVE  /\ AttemptOf(led, k, r) \in DOMAIN led[k] /\ led[k][AttemptOf(led, k, r)].run = r
         /\ m <= AttemptOf(led, k, r)
<1> DEFINE named == {n \in DOMAIN led[k] : led[k][n].run = r}
<1>1. named \in SUBSET Int /\ IsFiniteSet(named) /\ m \in named
  <2>1. IsFiniteSet(DOMAIN led[k]) /\ DOMAIN led[k] \subseteq Int
    BY Indexed
  <2> QED
    BY <2>1, FS_Subset
<1>2. Max(named) \in named /\ \A n \in named : n <= Max(named)
  <2> HIDE DEF named
  <2> QED
    BY <1>1, Largest
<1> QED
  BY <1>2 DEF AttemptOf

\* A ledger with one line of another's finished.
Rewritten(old, new, k, i, end, c) ==
    /\ \A l \in Tickets : Len(new[l]) = Len(old[l]) /\ DOMAIN new[l] = DOMAIN old[l]
    /\ \A l \in Tickets : \A n \in DOMAIN old[l] :
         new[l][n] = IF l = k /\ n = i THEN Finished(old[l][n], end, c) ELSE old[l][n]

\* A finished line closes one attempt.
LEMMA CloseEffect ==
  ASSUME ledger \in LedgerType, NEW k \in Tickets, NEW r, NEW end \in {"answer", "again"}, NEW c \in Nat,
         ledger' = Closed(ledger, k, r, end, c)
  PROVE  ledger' \in LedgerType /\ Rewritten(ledger, ledger', k, AttemptOf(ledger, k, r), end, c)
<1> DEFINE i == AttemptOf(ledger, k, r)
           row == [ledger[k] EXCEPT ![i] = Finished(ledger[k][i], end, c)]
           new == ledger'
<1>1. ledger[k] \in Seq(Attempts) /\ ledger \in [Tickets -> Seq(Attempts)]
  BY DEF LedgerType
<1> HIDE DEF i
<1>2. new = [ledger EXCEPT ![k] = row]
  BY <1>1 DEF Closed, i
<1>3. i \in DOMAIN ledger[k] => Finished(ledger[k][i], end, c) \in Attempts
  BY Indexed, FinishedType
<1>4. /\ row \in Seq(Attempts) /\ Len(row) = Len(ledger[k]) /\ DOMAIN row = DOMAIN ledger[k]
      /\ \A n \in DOMAIN ledger[k] :
           row[n] = IF n = i THEN Finished(ledger[k][n], end, c) ELSE ledger[k][n]
  <2> DEFINE s == ledger[k]
             b == Finished(s[i], end, c)
  <2>1. s \in Seq(Attempts) /\ row = [s EXCEPT ![i] = b] /\ (i \in DOMAIN s => b \in Attempts)
    BY <1>1, <1>3
  <2>2. \A n \in DOMAIN s : row[n] = IF n = i THEN Finished(s[n], end, c) ELSE s[n]
    BY <1>1
  <2> HIDE DEF b, s, row
  <2>3. row \in Seq(Attempts) /\ Len(row) = Len(s) /\ DOMAIN row = DOMAIN s
    <3>1. Len(s) \in Nat /\ s \in [1 .. Len(s) -> Attempts]
      BY <2>1
    <3>2. row \in [1 .. Len(s) -> Attempts]
      BY <2>1, <3>1
    <3>3. row \in Seq(Attempts) /\ Len(row) = Len(s)
      BY <3>1, <3>2
    <3> QED
      BY <3>1, <3>2, <3>3
  <2> QED
    BY <2>2, <2>3 DEF s
<1> HIDE DEF new, row
<1>5. new[k] = row /\ \A l \in Tickets \ {k} : new[l] = ledger[l]
  BY <1>1, <1>2
<1>6. new \in LedgerType
  BY <1>1, <1>2, <1>4 DEF LedgerType
<1>7. ASSUME NEW l \in Tickets
      PROVE  /\ Len(new[l]) = Len(ledger[l]) /\ DOMAIN new[l] = DOMAIN ledger[l]
             /\ \A n \in DOMAIN ledger[l] :
                  new[l][n] = IF l = k /\ n = i THEN Finished(ledger[l][n], end, c) ELSE ledger[l][n]
  <2>1. CASE l = k
    BY <1>4, <1>5, <2>1
  <2>2. CASE l # k
    BY <1>5, <2>2
  <2> QED
    BY <2>1, <2>2
<1> QED
  BY <1>6, <1>7 DEF i, new, Rewritten

\* What a tick looks at, it read as an open line of some ticket's run.
LEMMA SeenIs ==
  ASSUME Shapes, NEW p \in Procs, NEW x \in todo[p]
  PROVE  /\ x[1] \in Tickets /\ x[2] \in Lines /\ x[2] \in DOMAIN read[p][x[1]]
         /\ Seen(p, x) \in Attempts /\ Open(Seen(p, x)) /\ RunOf(p, x) \in Lines
<1>1. x[1] \in Tickets /\ x[2] \in Lines /\ x[2] \in DOMAIN read[p][x[1]] /\ Open(Seen(p, x))
  BY DEF Shapes, Formed, Sighted
<1>2. read[p] \in LedgerType
  BY DEF Shapes, Formed, Types
<1>3. Seen(p, x) \in Attempts
  BY <1>1, <1>2, Indexed DEF Seen
<1> QED
  BY <1>1, <1>3, AttemptType DEF RunOf

\* A record after the sweep for interrupted runs: its status ended, its cost as it was.
LEMMA InterruptedType ==
  ASSUME NEW st \in State
  PROVE  /\ Interrupted(st) \in State /\ Interrupted(st).status \in {"none", "answer", "again"}
         /\ Interrupted(st).cost = st.cost /\ Interrupted(st).handle = st.handle
BY DEF State, Interrupted

\* A finished line says that a run may be tried again or that it may not.
LEMMA EndType ==
  ASSUME NEW st \in State
  PROVE  EndOf(st) \in {"answer", "again"}
BY DEF State, EndOf

\* The sweep writes one record, and its cost as it was.
LEMMA InterruptsEffect ==
  ASSUME Shapes, NEW p \in Procs, NEW x \in todo[p], Interrupts(x, RunOf(p, x))
  PROVE  /\ disk' \in [Tickets -> [Lines -> State]]
         /\ \A k \in Tickets : \A r \in Lines : disk'[k][r].cost = disk[k][r].cost
<1> DEFINE l == x[1]
           n == RunOf(p, x)
           st == Interrupted(disk[l][n])
<1>1. l \in Tickets /\ n \in Lines
  BY SeenIs
<1>2. disk \in [Tickets -> [Lines -> State]] /\ disk[l][n] \in State
  BY <1>1 DEF Shapes, Formed, Types
<1>3. st \in State /\ st.cost = disk[l][n].cost
  BY <1>2, InterruptedType
<1>4. disk' = [disk EXCEPT ![l] = [disk[l] EXCEPT ![n] = st]]
  BY <1>1, <1>2 DEF Interrupts
<1> HIDE DEF l, n, st
<1>5. disk' \in [Tickets -> [Lines -> State]]
  BY <1>1, <1>2, <1>3, <1>4
<1>6. \A k \in Tickets : \A r \in Lines :
        disk'[k][r] = IF k = l /\ r = n THEN st ELSE disk[k][r]
  BY <1>1, <1>2, <1>4
<1> QED
  BY <1>3, <1>5, <1>6

\* What looking at an attempt leaves alone, and how it is taken off the list.
LEMMA LooksIs ==
  ASSUME Shapes, NEW p \in Procs, NEW x \in todo[p], Looks(p, x)
  PROVE  /\ at[p] \in {"recover", "wrote"} /\ todo' = [todo EXCEPT ![p] = todo[p] \ {x}]
         /\ todo'[p] = todo[p] \ {x} /\ \A q \in Procs \ {p} : todo'[q] = todo[q]
         /\ UNCHANGED <<scene, life, lock, locked, tries, read, plan, usd, jobs>>
<1>1. todo \in [Procs -> SUBSET (Tickets \X Lines)]
  BY DEF Shapes, Formed, Types, WatcherTypes
<1> QED
  BY <1>1 DEF Looks

\* Recovery keeps every ledger's length, closes the last line of the run it looked at and
\* leaves the others, and touches no run's cost.
LEMMA RecoverEffect ==
  ASSUME Shapes, NEW p \in Procs, NEW x \in todo[p], Recover(p, x)
  PROVE  /\ ledger' \in LedgerType
         /\ \E end \in {"answer", "again"} :
              Rewritten(ledger, ledger', x[1], AttemptOf(ledger, x[1], RunOf(p, x)), end,
                        Added(read[p], x[1], RunOf(p, x)))
         /\ disk' \in [Tickets -> [Lines -> State]]
         /\ \A k \in Tickets : \A r \in Lines : disk'[k][r].cost = disk[k][r].cost
         /\ Looks(p, x) /\ Lost(p, x) /\ at' = [at EXCEPT ![p] = "wrote"]
<1> DEFINE l == x[1]
           r == RunOf(p, x)
           end == EndOf(Interrupted(disk[l][r]))
           c == CostOf(read[p], l, r)
<1>1. l \in Tickets /\ r \in Lines
  BY SeenIs
<1>2. /\ Looks(p, x) /\ Lost(p, x) /\ Interrupts(x, r) /\ at' = [at EXCEPT ![p] = "wrote"]
      /\ ledger' = Closed(ledger, l, r, end, c)
  BY DEF Recover, Goes
<1>3. end \in {"answer", "again"}
  <2>1. disk[l][r] \in State
    BY <1>1 DEF Shapes, Formed, Types
  <2> QED
    BY <2>1, InterruptedType, EndType
<1>4. c = Added(read[p], l, r) /\ c \in Nat
  BY <1>1, AddedType DEF CostOf, Shapes, Formed, Types
<1>5. /\ disk' \in [Tickets -> [Lines -> State]]
      /\ \A k \in Tickets : \A n \in Lines : disk'[k][n].cost = disk[k][n].cost
  BY <1>2, InterruptsEffect
<1> HIDE DEF end, c, l, r
<1>6. ledger' \in LedgerType /\ Rewritten(ledger, ledger', l, AttemptOf(ledger, l, r), end, c)
  <2>1. ledger \in LedgerType /\ ledger' = Closed(ledger, l, r, end, c)
    BY <1>2 DEF Shapes, Formed, Types
  <2>2. l \in Tickets /\ end \in {"answer", "again"} /\ c \in Nat
    BY <1>1, <1>3, <1>4
  <2> QED
    BY <2>1, <2>2, CloseEffect
<1> QED
  BY <1>2, <1>3, <1>4, <1>5, <1>6 DEF l, r

-----------------------------------------------------------------------------
(* The shapes are kept.                                                     *)

\* The fields of a job.
LEMMA JobType ==
  ASSUME Types, NEW p \in Procs, NEW j \in jobs[p]
  PROVE  /\ j \in Job /\ j.key \in Tickets /\ j.run \in Lines /\ j.allow \in Int
         /\ j.at \in {"building", "going", "stopped", "ended", "recorded"}
BY DEF Types, Job

\* What a run saves of itself.
With(st, s) == [st EXCEPT !.status = s]
Dearer(c)   == [status |-> "running", cost |-> c, handle |-> TRUE]

\* The fields of a run's record, and the records With and Dearer make.
LEMMA StateType ==
  ASSUME NEW st \in State
  PROVE  /\ st.status \in {"none", "running", "answer", "again"} /\ st.cost \in Nat /\ st.handle \in BOOLEAN
         /\ \A s \in {"none", "running", "answer", "again"} :
              With(st, s) \in State /\ With(st, s).cost = st.cost
         /\ \A c \in Nat : Dearer(c) \in State /\ Dearer(c).cost = c
<1>1. st.status \in {"none", "running", "answer", "again"} /\ st.cost \in Nat /\ st.handle \in BOOLEAN
  BY DEF State
<1>2. \A s \in {"none", "running", "answer", "again"} :
        With(st, s) \in State /\ With(st, s).cost = st.cost
  BY DEF State, With
<1>3. \A c \in Nat : Dearer(c) \in State /\ Dearer(c).cost = c
  BY DEF State, Dearer
<1> QED
  BY <1>1, <1>2, <1>3

\* Saving a run's record writes that one record.
LEMMA SavesEffect ==
  ASSUME Types, NEW p \in Procs, NEW j \in jobs[p], NEW st \in State, Saves(j, st)
  PROVE  /\ disk' \in [Tickets -> [Lines -> State]]
         /\ \A k \in Tickets : \A r \in Lines :
              disk'[k][r] = IF k = j.key /\ r = j.run THEN st ELSE disk[k][r]
<1>1. j.key \in Tickets /\ j.run \in Lines
  BY JobType
<1>2. disk \in [Tickets -> [Lines -> State]]
  BY DEF Types
<1>3. disk' = [disk EXCEPT ![j.key] = [disk[j.key] EXCEPT ![j.run] = st]]
  BY DEF Saves
<1> QED
  BY <1>1, <1>2, <1>3

\* What each step of a run does to its state: the cost alone goes up; past
\* its allowance the run is stopped.
LEMMA DiskEffect ==
  ASSUME Types, NEW p \in Procs, NEW j \in jobs[p]
  PROVE  /\ Prepare(p, j) \/ Settle(p, j) =>
              /\ disk' \in [Tickets -> [Lines -> State]]
              /\ \A k \in Tickets : \A r \in Lines : disk'[k][r].cost = disk[k][r].cost
         /\ Spend(p, j) =>
              \E c \in Nat :
                /\ disk' \in [Tickets -> [Lines -> State]]
                /\ disk[j.key][j.run].cost < c
                /\ \A k \in Tickets : \A r \in Lines :
                     disk'[k][r].cost = IF k = j.key /\ r = j.run THEN c ELSE disk[k][r].cost
                /\ IF c > j.allow THEN Moves(p, j, "stopped") ELSE UNCHANGED jobs
<1>1. RunState(j) \in State
  BY JobType DEF Types, RunState
<1>2. ASSUME NEW s \in {"none", "running", "answer", "again"}, Saves(j, With(RunState(j), s))
      PROVE  /\ disk' \in [Tickets -> [Lines -> State]]
             /\ \A k \in Tickets : \A r \in Lines : disk'[k][r].cost = disk[k][r].cost
  <2> DEFINE new == With(RunState(j), s)
  <2>1. new \in State /\ new.cost = RunState(j).cost
    BY <1>1, StateType
  <2>2. Saves(j, new)
    BY <1>2
  <2> HIDE DEF new
  <2>3. /\ disk' \in [Tickets -> [Lines -> State]]
        /\ \A k \in Tickets : \A r \in Lines :
              disk'[k][r] = IF k = j.key /\ r = j.run THEN new ELSE disk[k][r]
    BY <2>1, <2>2, SavesEffect
  <2> QED
    BY <2>1, <2>3 DEF RunState
<1>3. ASSUME Spend(p, j)
      PROVE  \E c \in Nat :
               /\ disk' \in [Tickets -> [Lines -> State]]
               /\ disk[j.key][j.run].cost < c
               /\ \A k \in Tickets : \A r \in Lines :
                    disk'[k][r].cost = IF k = j.key /\ r = j.run THEN c ELSE disk[k][r].cost
               /\ IF c > j.allow THEN Moves(p, j, "stopped") ELSE UNCHANGED jobs
  <2>1. PICK c \in RunState(j).cost + 1 .. scene.most :
          /\ Saves(j, Dearer(c))
          /\ IF c > j.allow THEN Moves(p, j, "stopped") ELSE UNCHANGED jobs
    BY <1>3 DEF Spend, Dearer
  <2>2. c \in Nat /\ RunState(j).cost < c
    <3>1. RunState(j).cost \in Nat /\ scene.most \in Nat
      BY <1>1, StateType, SceneType DEF Types
    <3> QED
      BY <2>1, <3>1
  <2>3. Dearer(c) \in State /\ Dearer(c).cost = c
    BY <1>1, <2>2, StateType
  <2>4. /\ disk' \in [Tickets -> [Lines -> State]]
        /\ \A k \in Tickets : \A r \in Lines :
              disk'[k][r] = IF k = j.key /\ r = j.run THEN Dearer(c) ELSE disk[k][r]
    BY <2>1, <2>3, SavesEffect
  <2>5. \A k \in Tickets : \A r \in Lines :
          disk'[k][r].cost = IF k = j.key /\ r = j.run THEN c ELSE disk[k][r].cost
    BY <2>3, <2>4
  <2> QED
    BY <2>1, <2>2, <2>4, <2>5 DEF RunState
<1>4. ASSUME Prepare(p, j)
      PROVE  /\ disk' \in [Tickets -> [Lines -> State]]
             /\ \A k \in Tickets : \A r \in Lines : disk'[k][r].cost = disk[k][r].cost
  <2>1. CASE Saves(j, With(RunState(j), "running"))
    BY <2>1, <1>2
  <2>2. CASE UNCHANGED disk
    BY <2>2 DEF Types
  <2> QED
    BY <1>4, <2>1, <2>2 DEF Prepare, With
<1>5. ASSUME Settle(p, j)
      PROVE  /\ disk' \in [Tickets -> [Lines -> State]]
             /\ \A k \in Tickets : \A r \in Lines : disk'[k][r].cost = disk[k][r].cost
  <2>1. PICK end \in {"answer", "again"} : Saves(j, With(RunState(j), end))
    BY <1>5 DEF Settle, With
  <2> QED
    BY <1>2, <2>1
<1> QED
  BY <1>3, <1>4, <1>5

\* A job moved on is one job still.
LEMMA MovesTypes ==
  ASSUME Types, NEW p \in Procs, NEW j \in jobs[p],
         NEW to \in {"building", "going", "stopped", "ended", "recorded"}, Moves(p, j, to)
  PROVE  /\ jobs' \in [Procs -> SUBSET Job]
         /\ jobs' = [jobs EXCEPT ![p] = (jobs[p] \ {j}) \cup {[j EXCEPT !.at = to]}]
         /\ [j EXCEPT !.at = to] \in Job
         /\ \A q \in Procs : /\ IsFiniteSet(jobs'[q]) /\ Cardinality(jobs'[q]) <= scene.concurrency
                             /\ jobs[q] = {} => jobs'[q] = {}
<1> DEFINE l == [j EXCEPT !.at = to]
           after == (jobs[p] \ {j}) \cup {l}
<1>1. l \in Job
  BY JobType DEF Job
<1>2. jobs' = [jobs EXCEPT ![p] = after]
  BY DEF Moves, Types
<1>3. jobs \in [Procs -> SUBSET Job] /\ \A q \in Procs : IsFiniteSet(jobs[q])
  BY DEF Types
<1> HIDE DEF l
<1>4. jobs' \in [Procs -> SUBSET Job]
  BY <1>1, <1>2, <1>3
<1>5. IsFiniteSet(jobs[p] \ {j}) /\ Cardinality(jobs[p] \ {j}) = Cardinality(jobs[p]) - 1
  BY <1>3, FS_RemoveElement
<1>6. /\ IsFiniteSet(after)
      /\ Cardinality(after) = Cardinality(jobs[p] \ {j}) \/ Cardinality(after) = Cardinality(jobs[p] \ {j}) + 1
  BY <1>5, FS_AddElement
<1>7. Cardinality(jobs[p]) \in Nat /\ Cardinality(jobs[p] \ {j}) \in Nat /\ Cardinality(after) \in Nat
  BY <1>3, <1>5, <1>6, FS_CardinalityType
<1>8. Cardinality(after) <= Cardinality(jobs[p])
  BY <1>5, <1>6, <1>7
<1>9. Cardinality(after) <= scene.concurrency
  <2>1. scene.concurrency \in Nat /\ Cardinality(jobs[p]) <= scene.concurrency
    BY SceneType DEF Types
  <2> QED
    BY <1>7, <1>8, <2>1
<1> HIDE DEF after
<1>10. \A q \in Procs : IsFiniteSet(jobs'[q]) /\ Cardinality(jobs'[q]) <= scene.concurrency
  BY <1>2, <1>3, <1>6, <1>9 DEF Types
<1> QED
  BY <1>1, <1>2, <1>3, <1>4, <1>10 DEF l, after

\* A launch keeps the shapes of the ledger and of the pool, and never makes a ledger shorter.
LEMMA LaunchShapes ==
  ASSUME Types, NEW p \in Procs, NEW k \in Tickets, NEW no \in Lines, NEW r, NEW spent \in Nat, Launched(p, k, no, r, spent),
         jobs[p] = {} \/ Cardinality(jobs[p]) < scene.concurrency
  PROVE  /\ ledger' \in LedgerType /\ \A l \in Tickets : Len(ledger[l]) <= Len(ledger'[l])
         /\ jobs' \in [Procs -> SUBSET Job]
         /\ \A q \in Procs : /\ IsFiniteSet(jobs'[q]) /\ Cardinality(jobs'[q]) <= scene.concurrency
                             /\ q # p => jobs'[q] = jobs[q]
<1> DEFINE a == [pid |-> p, run |-> r, no |-> no, end |-> "open", cost |-> 0]
           j == [key |-> k, run |-> r, at |-> "building", allow |-> Allowed(spent, k, r)]
           after == jobs[p] \cup {j}
<1>1. a \in Attempts /\ j \in Job
  BY LaunchTypes
<1>2. /\ ledger' = [ledger EXCEPT ![k] = Append(ledger[k], a)]
      /\ jobs' = [jobs EXCEPT ![p] = after]
  BY DEF Launched
<1> HIDE DEF a, j
<1>3. /\ ledger' \in LedgerType /\ Len(ledger'[k]) = Len(ledger[k]) + 1
      /\ \A l \in Tickets \ {k} : ledger'[l] = ledger[l]
  BY <1>1, <1>2, AppendEffect DEF Types
<1>4. \A l \in Tickets : Len(ledger[l]) <= Len(ledger'[l])
  <2>1. \A l \in Tickets : Len(ledger[l]) \in Nat
    BY Indexed DEF Types
  <2> QED
    BY <1>3, <2>1
<1>5. jobs \in [Procs -> SUBSET Job] /\ \A q \in Procs : IsFiniteSet(jobs[q])
  BY DEF Types
<1>6. /\ IsFiniteSet(after)
      /\ Cardinality(after) = Cardinality(jobs[p]) \/ Cardinality(after) = Cardinality(jobs[p]) + 1
  BY <1>5, FS_AddElement
<1>7. Cardinality(after) <= scene.concurrency
  <2>1. scene.concurrency \in Nat \ {0} /\ Cardinality(jobs[p]) \in Nat /\ Cardinality(after) \in Nat
    BY <1>5, <1>6, SceneType, FS_CardinalityType DEF Types
  <2>2. CASE jobs[p] = {}
    <3>1. Cardinality(jobs[p]) = 0
      BY <2>2, FS_EmptySet
    <3> QED
      BY <1>6, <2>1, <3>1
  <2>3. CASE Cardinality(jobs[p]) < scene.concurrency
    BY <1>6, <2>1, <2>3
  <2> QED
    BY <2>2, <2>3
<1>8. after \in SUBSET Job
  BY <1>1, <1>5
<1> HIDE DEF after
<1>9. /\ jobs' \in [Procs -> SUBSET Job]
      /\ \A q \in Procs : /\ IsFiniteSet(jobs'[q]) /\ Cardinality(jobs'[q]) <= scene.concurrency
                          /\ q # p => jobs'[q] = jobs[q]
  BY <1>2, <1>5, <1>6, <1>7, <1>8 DEF Types
<1> QED
  BY <1>3, <1>4, <1>9

\* The attempt after those that were read has a number.
LEMMA NextNumber ==
  ASSUME Shapes, NEW p \in Procs, NEW k \in Tickets, Len(ledger[k]) + 1 \in Lines
  PROVE  /\ Len(read[p][k]) + 1 \in Lines
         /\ Len(read[p][k]) + 1 > 1 => read[p][k] # << >>
<1>1. Len(read[p][k]) \in Nat /\ Len(ledger[k]) \in Nat
  BY Indexed DEF Shapes, Formed, Types
<1>2. Len(read[p][k]) <= Len(ledger[k])
  BY DEF Shapes, Formed, Earlier
<1>3. MaxLines \in Nat /\ Len(ledger[k]) + 1 <= MaxLines
  BY ShadowAssumption DEF Lines
<1>4. Len(read[p][k]) + 1 \in Lines
  BY <1>1, <1>2, <1>3 DEF Lines
<1>5. Len(<< >>) = 0
  OBVIOUS
<1> QED
  BY <1>1, <1>4, <1>5

\* The initial state has the shapes.
LEMMA InitShapes == Init => Shapes
<1> SUFFICES ASSUME Init PROVE Shapes
  OBVIOUS
<1>1. ledger \in LedgerType /\ read \in [Procs -> LedgerType] /\ \A p \in Procs : Earlier(p)
  BY DEF Init, LedgerType, Earlier
<1>2. disk \in [Tickets -> [Lines -> State]]
  BY DEF Init, NoState, State
<1>3. WatcherTypes
  BY DEF Init, WatcherTypes, Places
<1>4. \A p \in Procs : IsFiniteSet(jobs[p]) /\ Cardinality(jobs[p]) <= scene.concurrency
  BY SceneType, FS_EmptySet DEF Init
<1>5. jobs \in [Procs -> SUBSET Job]
  BY DEF Init
<1>6. Placed
  BY DEF Init, Placed
<1>7. \A p \in Procs : Sighted(p)
  BY DEF Init, Sighted
<1> QED
  BY <1>1, <1>2, <1>3, <1>4, <1>5, <1>6, <1>7 DEF Init, Types, Shapes, Formed

\* A step that touches neither the ledger nor what was read of it.
LEMMA StillEarlier ==
  ASSUME UNCHANGED <<ledger, read>>, \A p \in Procs : Earlier(p)
  PROVE  \A p \in Procs : Earlier(p)'
BY DEF Earlier

\* A ledger that grows stays ahead of what was read of it.
LEMMA GrownEarlier ==
  ASSUME Types, ledger' \in LedgerType, UNCHANGED read, \A p \in Procs : Earlier(p),
         \A k \in Tickets : Len(ledger[k]) <= Len(ledger'[k])
  PROVE  \A p \in Procs : Earlier(p)'
<1>1. \A p \in Procs, k \in Tickets :
        Len(read[p][k]) \in Nat /\ Len(ledger[k]) \in Nat /\ Len(ledger'[k]) \in Nat
  BY Indexed DEF Types
<1> QED
  BY <1>1 DEF Earlier

\* What is launched, by a tick and by hand.
LEMMA LaunchIs ==
  ASSUME Shapes, NEW p \in Procs, NEW k \in Tickets, NEW spent, Launch(p, k, Len(read[p][k]) + 1, spent)
  PROVE  /\ Len(read[p][k]) + 1 \in Lines
         /\ \E r : Launched(p, k, Len(read[p][k]) + 1, r, spent)
<1> DEFINE no == Len(read[p][k]) + 1
<1>1. Launch(p, k, no, spent)
  OBVIOUS
<1>2. Len(ledger[k]) + 1 \in Lines
  BY DEF Launch
<1>3. no \in Lines /\ (no > 1 => read[p][k] # << >>)
  BY <1>2, NextNumber
<1> HIDE DEF no
<1>4. \E r : Launched(p, k, no, r, spent)
  BY <1>1, <1>3, LaunchEffect DEF Shapes, Formed
<1> QED
  BY <1>3, <1>4 DEF no

\* What one start of a planned ticket does.
LEMMA StartIs ==
  ASSUME Shapes, NEW p \in Procs, NEW k \in Tickets, Start(p, k)
  PROVE  /\ at[p] = "launch" /\ k \in plan[p] /\ Cardinality(jobs[p]) < scene.concurrency
         /\ plan' = [plan EXCEPT ![p] = plan[p] \ {k}]
         /\ UNCHANGED <<scene, life, lock, locked, at, tries, read, todo, usd, disk>>
         /\ Len(read[p][k]) + 1 \in Lines /\ usd[p] \in Nat
         /\ \E r : Launched(p, k, Len(read[p][k]) + 1, r, usd[p])
<1>1. /\ at[p] = "launch" /\ k \in plan[p] /\ Cardinality(jobs[p]) < scene.concurrency
      /\ plan' = [plan EXCEPT ![p] = plan[p] \ {k}]
      /\ UNCHANGED <<scene, life, lock, locked, at, tries, read, todo, usd, disk>>
  BY DEF Start
<1>2. Launch(p, k, Len(read[p][k]) + 1, usd[p])
  BY DEF Start
<1>3. usd[p] \in Nat
  BY DEF Shapes, Formed, Types, WatcherTypes
<1> QED
  BY <1>1, <1>2, <1>3, LaunchIs

\* A run asked for by hand is turned away, or has the ledger read for it.
LEMMA AskRunIs ==
  ASSUME NEW p \in Procs, NEW k \in Tickets, AskRun(p, k)
  PROVE  /\ scene.kind[p] = "hand" /\ life[p] = "up" /\ at[p] = "idle"
         /\ UNCHANGED <<scene, life, lock, locked, tries, todo, usd, jobs, ledger, disk>>
         /\ \/ at' = [at EXCEPT ![p] = "done"] /\ UNCHANGED <<read, plan>>
            \/ /\ at' = [at EXCEPT ![p] = "asked"] /\ read' = [read EXCEPT ![p] = ledger]
               /\ plan' = [plan EXCEPT ![p] = {k}]
<1>1. scene.kind[p] = "hand" /\ life[p] = "up" /\ at[p] = "idle"
  BY DEF AskRun
<1>2. UNCHANGED <<scene, life, lock, locked, tries, todo, usd, jobs, ledger, disk>>
  BY Zenon DEF AskRun
<1>3. CASE Going(ledger, k)
  <2>1. at' = [at EXCEPT ![p] = "done"] /\ UNCHANGED <<read, plan>>
    BY <1>3, Zenon DEF AskRun, Goes
  <2> QED
    BY <1>1, <1>2, <2>1, Zenon
<1>4. CASE ~Going(ledger, k)
  <2>1. /\ at' = [at EXCEPT ![p] = "asked"] /\ read' = [read EXCEPT ![p] = ledger]
        /\ plan' = [plan EXCEPT ![p] = {k}]
    BY <1>4, Zenon DEF AskRun, Goes
  <2> QED
    BY <1>1, <1>2, <2>1, Zenon
<1> QED
  BY <1>3, <1>4

\* What it then does: nothing, or the same launch without the watcher's lock; either way it puts
\* down what it read.
LEMMA RunOneIs ==
  ASSUME Shapes, NEW p \in Procs, NEW k \in Tickets, RunOne(p, k)
  PROVE  /\ at[p] = "asked" /\ at' = [at EXCEPT ![p] = "done"]
         /\ UNCHANGED <<scene, life, lock, locked, tries, todo, usd, disk>>
         /\ read' = [read EXCEPT ![p] = [l \in Tickets |-> << >>]] /\ plan' = [plan EXCEPT ![p] = {}]
         /\ scene.kind[p] = "hand" /\ jobs[p] = {} /\ life[p] = "up"
         /\ \/ UNCHANGED <<jobs, ledger>>
            \/ /\ Len(read[p][k]) + 1 \in Lines /\ USDToday(read[p]) \in Nat
               /\ Launched(p, k, Len(read[p][k]) + 1, Len(ledger[k]) + 1, USDToday(read[p]))
<1>1. at[p] = "asked" /\ at' = [at EXCEPT ![p] = "done"]
  BY DEF RunOne, Goes
<1>2. /\ UNCHANGED <<scene, life, lock, locked, tries, todo, usd, disk>>
      /\ read' = [read EXCEPT ![p] = [l \in Tickets |-> << >>]] /\ plan' = [plan EXCEPT ![p] = {}]
  BY DEF RunOne
<1>3. \/ UNCHANGED <<jobs, ledger>>
      \/ Launch(p, k, Len(read[p][k]) + 1, USDToday(read[p]))
  BY DEF RunOne
<1>4. scene.kind[p] = "hand" /\ jobs[p] = {} /\ life[p] = "up"
  BY <1>1, SceneType DEF Shapes, Formed, Placed, Types
<1>5. CASE Launch(p, k, Len(read[p][k]) + 1, USDToday(read[p]))
  <2> DEFINE spent == USDToday(read[p])
  <2>0. spent \in Nat
    BY TodayType DEF Shapes, Formed, Types
  <2>a. Launch(p, k, Len(read[p][k]) + 1, spent)
    BY <1>5
  <2> HIDE DEF spent
  <2>1. PICK r : Launched(p, k, Len(read[p][k]) + 1, r, spent)
    BY <2>a, LaunchIs
  <2>2. r = Len(ledger[k]) + 1
    BY <1>4, <2>1 DEF Launched
  <2>3. Len(read[p][k]) + 1 \in Lines
    BY <2>a, LaunchIs
  <2> QED
    BY <1>1, <1>2, <1>4, <2>0, <2>1, <2>2, <2>3 DEF spent
<1> QED
  BY <1>1, <1>2, <1>3, <1>4, <1>5

\* A process that has put down what it read has read no more than there is.
LEMMA PutDown ==
  ASSUME Types, ledger' \in LedgerType, NEW p \in Procs,
         read' = [read EXCEPT ![p] = [k \in Tickets |-> << >>]], \A q \in Procs : Earlier(q),
         \A k \in Tickets : Len(ledger[k]) <= Len(ledger'[k])
  PROVE  read' \in [Procs -> LedgerType] /\ \A q \in Procs : Earlier(q)'
<1> DEFINE none == [k \in Tickets |-> << >>]
<1>1. none \in LedgerType /\ \A k \in Tickets : Len(none[k]) = 0
  BY DEF LedgerType
<1>2. read' = [read EXCEPT ![p] = none]
  OBVIOUS
<1> HIDE DEF none
<1>3. read' \in [Procs -> LedgerType] /\ read'[p] = none /\ \A q \in Procs \ {p} : read'[q] = read[q]
  BY <1>1, <1>2 DEF Types
<1>4. \A q \in Procs, k \in Tickets :
        Len(read[q][k]) \in Nat /\ Len(ledger[k]) \in Nat /\ Len(ledger'[k]) \in Nat
  BY Indexed DEF Types
<1>5. \A q \in Procs : Earlier(q)'
  BY <1>1, <1>3, <1>4 DEF Earlier
<1> QED
  BY <1>3, <1>5

\* Every step keeps the types, who stands where, and that what was read is a part of what is.
LEMMA NextFormed == Shapes /\ [Next]_vars => Formed'
<1> SUFFICES ASSUME Shapes, [Next]_vars PROVE Formed'
  OBVIOUS
<1> USE DEF Shapes, Formed
<1>s. scene.kind \in [Procs -> {"serve", "once", "hand"}]
  BY SceneType DEF Types
<1>1. ASSUME NEW p \in Procs, Pass(p) PROVE Formed'
  <2>1. Types'
    BY <1>1 DEF Types, WatcherTypes, Places, Pass, Watches, Goes
  <2>2. Placed'
    BY <1>1, <1>s DEF Types, WatcherTypes, Placed, Up, Pass, Watches, Goes
  <2>3. \A q \in Procs : Earlier(q)'
    BY <1>1, StillEarlier DEF Pass
  <2> QED
    BY <2>1, <2>2, <2>3
<1>2. ASSUME NEW p \in Procs, Create(p) PROVE Formed'
  <2>1. Types'
    BY <1>2 DEF Types, WatcherTypes, Places, Create, Goes
  <2>2. Placed'
    BY <1>2, <1>s DEF Types, WatcherTypes, Placed, Up, Create, Goes
  <2>3. \A q \in Procs : Earlier(q)'
    BY <1>2, StillEarlier DEF Create
  <2> QED
    BY <2>1, <2>2, <2>3
<1>3. ASSUME NEW p \in Procs, Judge(p) PROVE Formed'
  <2>1. Types'
    BY <1>3 DEF Types, WatcherTypes, Places, Judge, Goes, Refused
  <2>2. Placed'
    BY <1>3, <1>s DEF Types, WatcherTypes, Placed, Up, Judge, Goes, Refused
  <2>3. \A q \in Procs : Earlier(q)'
    BY <1>3, StillEarlier DEF Judge
  <2> QED
    BY <2>1, <2>2, <2>3
<1>4. ASSUME NEW p \in Procs, Remove(p) PROVE Formed'
  <2>0. tries[p] \in 0 .. 2 /\ tries[p] > 0 /\ (tries' = [tries EXCEPT ![p] = tries[p] - 1])
    BY <1>4 DEF Types, WatcherTypes, Placed, Remove
  <2>a. tries' \in [Procs -> 0 .. 2]
    BY <2>0 DEF Types, WatcherTypes
  <2>1. Types'
    BY <1>4, <2>a DEF Types, WatcherTypes, Places, Remove, Goes, Refused
  <2>2. Placed'
    BY <1>4, <1>s DEF Types, WatcherTypes, Placed, Up, Remove, Goes, Refused
  <2>3. \A q \in Procs : Earlier(q)'
    BY <1>4, StillEarlier DEF Remove
  <2> QED
    BY <2>1, <2>2, <2>3
<1>5. ASSUME NEW p \in Procs, Read(p) PROVE Formed'
  <2>1. Types'
    BY <1>5 DEF Types, WatcherTypes, Places, Read, Goes
  <2>2. Placed'
    BY <1>5, <1>s DEF Types, WatcherTypes, Placed, Up, Read, Goes
  <2>3. \A k \in Tickets : Len(ledger[k]) \in Nat
    BY Indexed DEF Types
  <2>4. \A q \in Procs : Earlier(q)'
    <3>1. read' = [read EXCEPT ![p] = ledger] /\ UNCHANGED ledger
      BY <1>5 DEF Read
    <3> QED
      BY <2>3, <3>1 DEF Earlier, Types
  <2> QED
    BY <2>1, <2>2, <2>4
<1>l. \A k \in Tickets : Len(ledger[k]) \in Nat /\ Len(ledger[k]) <= Len(ledger[k])
  <2>1. \A k \in Tickets : Len(ledger[k]) \in Nat
    BY Indexed DEF Types
  <2> QED
    BY <2>1
<1>6. ASSUME NEW p \in Procs, NEW x \in todo[p], Looks(p, x),
             disk' \in [Tickets -> [Lines -> State]], ledger' \in LedgerType,
             \A k \in Tickets : Len(ledger[k]) <= Len(ledger'[k]),
             at' \in {at, [at EXCEPT ![p] = "wrote"]}
      PROVE  Formed'
  <2>1. /\ todo' = [todo EXCEPT ![p] = todo[p] \ {x}] /\ at[p] \in {"recover", "wrote"}
        /\ UNCHANGED <<scene, life, lock, locked, tries, read, plan, usd, jobs>>
    BY <1>6, LooksIs
  <2>2. at' \in [Procs -> Places] /\ todo' \in [Procs -> SUBSET (Tickets \X Lines)]
    BY <1>6, <2>1 DEF Types, WatcherTypes, Places
  <2>3. Types'
    BY <1>6, <2>1, <2>2 DEF Types, WatcherTypes
  <2>4. Placed'
    BY <1>6, <2>1, <1>s DEF Types, WatcherTypes, Placed, Up
  <2>5. \A q \in Procs : Earlier(q)'
    BY <1>6, <2>1, GrownEarlier
  <2> QED
    BY <2>3, <2>4, <2>5
<1>6a. ASSUME NEW p \in Procs, NEW x \in todo[p], Recover(p, x) PROVE Formed'
  <2>1. /\ ledger' \in LedgerType /\ disk' \in [Tickets -> [Lines -> State]] /\ Looks(p, x)
        /\ \A k \in Tickets : Len(ledger'[k]) = Len(ledger[k])
        /\ at' = [at EXCEPT ![p] = "wrote"]
    BY <1>6a, RecoverEffect DEF Rewritten
  <2> QED
    BY <2>1, <1>6, <1>l
<1>6b. ASSUME NEW p \in Procs, NEW x \in todo[p], RecoverFails(p, x) PROVE Formed'
  <2>1. Looks(p, x) /\ Interrupts(x, RunOf(p, x)) /\ UNCHANGED <<at, ledger>>
    BY <1>6b DEF RecoverFails
  <2>2. disk' \in [Tickets -> [Lines -> State]]
    BY <2>1, InterruptsEffect
  <2> QED
    BY <2>1, <2>2, <1>6, <1>l DEF Types
<1>6c. ASSUME NEW p \in Procs, NEW x \in todo[p], PassOver(p, x) PROVE Formed'
  <2>1. Looks(p, x) /\ UNCHANGED <<at, ledger, disk>>
    BY <1>6c DEF PassOver
  <2> QED
    BY <2>1, <1>6, <1>l DEF Types
<1>6d. ASSUME NEW p \in Procs, Recovered(p) PROVE Formed'
  <2>1. /\ Goes(p, "select") /\ at[p] \in {"recover", "wrote"}
        /\ UNCHANGED <<scene, life, lock, locked, tries, todo, plan, usd, jobs, ledger, disk>>
        /\ \E led \in {ledger, read[p]} : read' = [read EXCEPT ![p] = led]
    BY <1>6d DEF Recovered, Types
  <2>2. Types'
    BY <2>1 DEF Types, WatcherTypes, Places, Goes
  <2>3. Placed'
    BY <2>1, <1>s DEF Types, WatcherTypes, Placed, Up, Goes
  <2>4. \A q \in Procs : Earlier(q)'
    BY <2>1, <1>l DEF Earlier, Types
  <2> QED
    BY <2>2, <2>3, <2>4
<1>7. ASSUME NEW p \in Procs, Select(p) PROVE Formed'
  <2>1. USDToday(read[p]) \in Nat
    BY TodayType DEF Types
  <2>2. \A ks \in SUBSET Wanted(read[p]) : ks \subseteq Tickets
    BY SceneType DEF Types, Wanted
  <2>3. Types'
    BY <1>7, <2>1, <2>2 DEF Types, WatcherTypes, Places, Select, Goes
  <2>4. Placed'
    BY <1>7, <1>s DEF Types, WatcherTypes, Placed, Up, Select, Goes
  <2>5. \A q \in Procs : Earlier(q)'
    BY <1>7, StillEarlier DEF Select
  <2> QED
    BY <2>3, <2>4, <2>5
<1>8. ASSUME NEW p \in Procs, EndTick(p) PROVE Formed'
  <2> DEFINE none == [k \in Tickets |-> << >>]
  <2>1. none \in LedgerType /\ \A k \in Tickets : Len(none[k]) = 0
    BY DEF LedgerType
  <2>2. read' = [read EXCEPT ![p] = none] /\ UNCHANGED <<scene, life, tries, todo, jobs, ledger, disk>>
    BY <1>8 DEF EndTick
  <2>3. read' \in [Procs -> LedgerType]
    <3> HIDE DEF none
    <3> QED
      BY <2>1, <2>2 DEF Types
  <2>4. Types'
    <3>1. /\ plan' = [plan EXCEPT ![p] = {}] /\ usd' = [usd EXCEPT ![p] = 0]
          /\ locked' \subseteq locked /\ lock' \in {0, lock}
          /\ \E to \in {"idle", "done"} : at' = [at EXCEPT ![p] = to]
      BY <1>8 DEF EndTick, Goes, LetGo
    <3> QED
      BY <2>2, <2>3, <3>1 DEF Types, WatcherTypes, Places
  <2>5. Placed'
    BY <1>8, <2>2, <1>s DEF Types, WatcherTypes, Placed, Up, EndTick, Goes
  <2>6. \A k \in Tickets : Len(ledger[k]) \in Nat
    BY Indexed DEF Types
  <2>7. \A q \in Procs : Earlier(q)'
    <3> HIDE DEF none
    <3> QED
      BY <2>1, <2>2, <2>6 DEF Earlier, Types
  <2> QED
    BY <2>4, <2>5, <2>7
<1>9. ASSUME NEW p \in Procs, NEW k \in Tickets, Start(p, k) PROVE Formed'
  <2>1. /\ Cardinality(jobs[p]) < scene.concurrency /\ plan' = [plan EXCEPT ![p] = plan[p] \ {k}]
        /\ UNCHANGED <<scene, life, lock, locked, at, tries, read, todo, usd, disk>> /\ at[p] = "launch"
        /\ Len(read[p][k]) + 1 \in Lines /\ usd[p] \in Nat
        /\ \E r : Launched(p, k, Len(read[p][k]) + 1, r, usd[p])
    BY <1>9, StartIs
  <2>2. /\ ledger' \in LedgerType /\ \A l \in Tickets : Len(ledger[l]) <= Len(ledger'[l])
        /\ jobs' \in [Procs -> SUBSET Job]
        /\ \A q \in Procs : /\ IsFiniteSet(jobs'[q]) /\ Cardinality(jobs'[q]) <= scene.concurrency
                            /\ q # p => jobs'[q] = jobs[q]
    BY <2>1, LaunchShapes
  <2>3. Types'
    BY <2>1, <2>2 DEF Types, WatcherTypes
  <2>4. Placed'
    BY <2>1, <2>2, <1>s DEF Types, WatcherTypes, Placed, Up
  <2>5. \A q \in Procs : Earlier(q)'
    BY <2>1, <2>2, GrownEarlier
  <2> QED
    BY <2>3, <2>4, <2>5
<1>10. ASSUME NEW p \in Procs, NEW k \in Tickets, AskRun(p, k) PROVE Formed'
  <2>1. /\ UNCHANGED <<scene, life, lock, locked, tries, todo, usd, jobs, ledger, disk>>
        /\ scene.kind[p] = "hand" /\ life[p] = "up" /\ at[p] = "idle"
        /\ \/ at' = [at EXCEPT ![p] = "done"] /\ UNCHANGED <<read, plan>>
           \/ /\ at' = [at EXCEPT ![p] = "asked"] /\ read' = [read EXCEPT ![p] = ledger]
              /\ plan' = [plan EXCEPT ![p] = {k}]
    BY <1>10, AskRunIs
  <2>2. Types'
    <3>1. at' \in [Procs -> Places] /\ plan' \in [Procs -> SUBSET Tickets]
      BY <2>1 DEF Types, WatcherTypes, Places
    <3>2. read' \in [Procs -> LedgerType]
      BY <2>1 DEF Types
    <3> QED
      BY <2>1, <3>1, <3>2 DEF Types, WatcherTypes
  <2>3. Placed'
    BY <2>1, <1>s DEF Types, WatcherTypes, Placed, Up
  <2>4. \A q \in Procs : Earlier(q)'
    BY <2>1, <1>l DEF Earlier, Types
  <2> QED
    BY <2>2, <2>3, <2>4
<1>11. ASSUME NEW p \in Procs, NEW k \in Tickets, RunOne(p, k) PROVE Formed'
  <2>1. /\ at[p] = "asked" /\ at' = [at EXCEPT ![p] = "done"]
        /\ UNCHANGED <<scene, life, lock, locked, tries, todo, usd, disk>>
        /\ read' = [read EXCEPT ![p] = [l \in Tickets |-> << >>]] /\ plan' = [plan EXCEPT ![p] = {}]
        /\ scene.kind[p] = "hand" /\ jobs[p] = {} /\ life[p] = "up"
    BY <1>11, RunOneIs
  <2>2. /\ ledger' \in LedgerType /\ \A l \in Tickets : Len(ledger[l]) <= Len(ledger'[l])
        /\ jobs' \in [Procs -> SUBSET Job]
        /\ \A q \in Procs : /\ IsFiniteSet(jobs'[q]) /\ Cardinality(jobs'[q]) <= scene.concurrency
                            /\ q # p => jobs'[q] = jobs[q]
    <3> DEFINE spent == USDToday(read[p])
    <3>1. CASE UNCHANGED <<jobs, ledger>>
      BY <3>1, <1>l DEF Types
    <3>2. CASE /\ Len(read[p][k]) + 1 \in Lines /\ spent \in Nat
               /\ Launched(p, k, Len(read[p][k]) + 1, Len(ledger[k]) + 1, spent)
      <4> HIDE DEF spent
      <4> QED
        BY <2>1, <3>2, LaunchShapes
    <3> QED
      BY <1>11, <3>1, <3>2, RunOneIs
  <2>3. read' \in [Procs -> LedgerType] /\ \A q \in Procs : Earlier(q)'
    BY <2>1, <2>2, PutDown
  <2>4. Types'
    BY <2>1, <2>2, <2>3 DEF Types, WatcherTypes, Places
  <2>5. Placed'
    BY <2>1, <2>2, <1>s DEF Types, WatcherTypes, Placed, Up
  <2> QED
    BY <2>3, <2>4, <2>5
<1>12. ASSUME NEW p \in Procs, NEW j \in jobs[p], NEW to \in {"building", "going", "stopped", "ended", "recorded"},
              Moves(p, j, to), UNCHANGED <<scene, life, lock, watcher>>,
              disk' \in [Tickets -> [Lines -> State]], ledger' \in LedgerType,
              \A k \in Tickets : Len(ledger[k]) <= Len(ledger'[k])
       PROVE  Formed'
  <2>1. /\ jobs' \in [Procs -> SUBSET Job]
        /\ \A q \in Procs : /\ IsFiniteSet(jobs'[q]) /\ Cardinality(jobs'[q]) <= scene.concurrency
                            /\ jobs[q] = {} => jobs'[q] = {}
    BY <1>12, MovesTypes
  <2>2. Types'
    BY <1>12, <2>1 DEF Types, WatcherTypes
  <2>3. Placed'
    BY <1>12, <2>1 DEF Placed, Up
  <2>4. \A q \in Procs : Earlier(q)'
    BY <1>12, GrownEarlier
  <2> QED
    BY <2>2, <2>3, <2>4
<1>13. ASSUME NEW p \in Procs, NEW j \in jobs[p], Prepare(p, j) PROVE Formed'
  <2>1. \E to \in {"going", "ended"} : Moves(p, j, to)
    BY <1>13 DEF Prepare
  <2>2. UNCHANGED <<scene, life, lock, watcher, ledger>>
    BY <1>13 DEF Prepare
  <2>3. disk' \in [Tickets -> [Lines -> State]]
    BY <1>13, DiskEffect
  <2> QED
    BY <2>1, <2>2, <2>3, <1>12, <1>l DEF Types
<1>14. ASSUME NEW p \in Procs, NEW j \in jobs[p], Spend(p, j) PROVE Formed'
  <2>1. disk' \in [Tickets -> [Lines -> State]] /\ (Moves(p, j, "stopped") \/ UNCHANGED jobs)
    BY <1>14, DiskEffect
  <2>2. UNCHANGED <<scene, life, lock, watcher, ledger>>
    BY <1>14 DEF Spend
  <2>3. CASE Moves(p, j, "stopped")
    BY <2>1, <2>2, <2>3, <1>12, <1>l DEF Types
  <2>4. CASE UNCHANGED jobs
    <3>1. Types'
      BY <2>1, <2>2, <2>4 DEF Types, WatcherTypes
    <3>2. Placed'
      BY <2>2, <2>4 DEF Placed, Up
    <3>3. \A q \in Procs : Earlier(q)'
      BY <2>2, StillEarlier
    <3> QED
      BY <3>1, <3>2, <3>3
  <2> QED
    BY <2>1, <2>3, <2>4
<1>15. ASSUME NEW p \in Procs, NEW j \in jobs[p], Settle(p, j) PROVE Formed'
  <2>1. Moves(p, j, "ended") /\ UNCHANGED <<scene, life, lock, watcher, ledger>>
    BY <1>15 DEF Settle
  <2>2. disk' \in [Tickets -> [Lines -> State]]
    BY <1>15, DiskEffect
  <2> QED
    BY <2>1, <2>2, <1>12, <1>l DEF Types
<1>16. ASSUME NEW p \in Procs, NEW j \in jobs[p], RecordFinished(p, j) PROVE Formed'
  <2> DEFINE end == EndOf(RunState(j))
             c == Added(ledger, j.key, j.run)
  <2>1. /\ ledger' = Closed(ledger, j.key, j.run, end, c) /\ Moves(p, j, "recorded")
        /\ UNCHANGED <<scene, life, lock, watcher, disk>>
    BY <1>16 DEF RecordFinished
  <2>2. j.key \in Tickets /\ j.run \in Lines
    BY JobType
  <2>3. end \in {"answer", "again"} /\ c \in Nat
    <3>1. RunState(j) \in State /\ ledger \in LedgerType
      BY <2>2 DEF Types, RunState
    <3> QED
      BY <2>2, <3>1, EndType, AddedType
  <2> HIDE DEF end, c
  <2>4. ledger' \in LedgerType /\ \A l \in Tickets : Len(ledger'[l]) = Len(ledger[l])
    BY <2>1, <2>2, <2>3, CloseEffect DEF Types, Rewritten
  <2> QED
    BY <2>1, <2>4, <1>12, <1>l DEF Types
<1>17. ASSUME NEW p \in Procs, NEW j \in jobs[p], Done(p, j) PROVE Formed'
  <2>1. /\ jobs' = [jobs EXCEPT ![p] = jobs[p] \ {j}]
        /\ UNCHANGED <<scene, life, lock, watcher, ledger, disk>>
    BY <1>17 DEF Done
  <2>2. IsFiniteSet(jobs[p] \ {j}) /\ Cardinality(jobs[p] \ {j}) <= scene.concurrency
    <3>1. IsFiniteSet(jobs[p]) /\ Cardinality(jobs[p]) <= scene.concurrency /\ scene.concurrency \in Nat
      BY SceneType DEF Types
    <3>2. /\ IsFiniteSet(jobs[p] \ {j}) /\ Cardinality(jobs[p] \ {j}) = Cardinality(jobs[p]) - 1
          /\ Cardinality(jobs[p]) \in Nat
      BY <3>1, FS_RemoveElement, FS_CardinalityType
    <3> QED
      BY <3>1, <3>2
  <2>3. Types'
    BY <2>1, <2>2 DEF Types, WatcherTypes
  <2>4. Placed'
    BY <2>1 DEF Placed, Up, Types
  <2>5. \A q \in Procs : Earlier(q)'
    BY <2>1, StillEarlier
  <2> QED
    BY <2>3, <2>4, <2>5
<1>18. ASSUME NEW p \in Procs, Begin(p) PROVE Formed'
  <2>1. Types'
    BY <1>18 DEF Types, WatcherTypes, Begin
  <2>2. Placed'
    BY <1>18 DEF Types, WatcherTypes, Placed, Up, Begin
  <2>3. \A q \in Procs : Earlier(q)'
    BY <1>18, StillEarlier DEF Begin
  <2> QED
    BY <2>1, <2>2, <2>3
<1>19. ASSUME NEW p \in Procs, Leave(p) PROVE Formed'
  <2>1. Types'
    BY <1>19 DEF Types, WatcherTypes, Leave, LetGo
  <2>2. Placed'
    BY <1>19 DEF Types, WatcherTypes, Placed, Up, Leave
  <2>3. \A q \in Procs : Earlier(q)'
    BY <1>19, StillEarlier DEF Leave
  <2> QED
    BY <2>1, <2>2, <2>3
<1>20. ASSUME NEW p \in Procs, Die(p) PROVE Formed'
  <2> DEFINE none == [k \in Tickets |-> << >>]
  <2>1. none \in LedgerType /\ \A k \in Tickets : Len(none[k]) = 0
    BY DEF LedgerType
  <2>2. /\ read' = [read EXCEPT ![p] = none] /\ jobs' = [jobs EXCEPT ![p] = {}]
        /\ UNCHANGED <<scene, lock, ledger, disk>>
    BY <1>20 DEF Die
  <2>3. read' \in [Procs -> LedgerType]
    <3> HIDE DEF none
    <3> QED
      BY <2>1, <2>2 DEF Types
  <2>4. \A q \in Procs : IsFiniteSet(jobs'[q]) /\ Cardinality(jobs'[q]) <= scene.concurrency
    <3>1. IsFiniteSet({}) /\ Cardinality({}) = 0 /\ scene.concurrency \in Nat
      BY FS_EmptySet, SceneType DEF Types
    <3> QED
      BY <2>2, <3>1 DEF Types
  <2>5. /\ life' = [life EXCEPT ![p] = "dead"] /\ locked' = locked \ {p}
        /\ at' = [at EXCEPT ![p] = "idle"] /\ tries' = [tries EXCEPT ![p] = 0]
        /\ todo' = [todo EXCEPT ![p] = {}]
        /\ plan' = [plan EXCEPT ![p] = {}] /\ usd' = [usd EXCEPT ![p] = 0]
    BY <1>20 DEF Die
  <2>6. Types'
    BY <2>2, <2>3, <2>4, <2>5 DEF Types, WatcherTypes, Places
  <2>7. Placed'
    BY <2>2, <2>5, <1>s DEF Types, WatcherTypes, Placed, Up
  <2>8. \A k \in Tickets : Len(ledger[k]) \in Nat
    BY Indexed DEF Types
  <2>9. \A q \in Procs : Earlier(q)'
    <3> HIDE DEF none
    <3> QED
      BY <2>1, <2>2, <2>8 DEF Earlier, Types
  <2> QED
    BY <2>6, <2>7, <2>9
<1>21. ASSUME UNCHANGED vars PROVE Formed'
  <2>1. Types'
    BY <1>21 DEF Types, WatcherTypes
  <2>2. Placed'
    BY <1>21 DEF Placed, Up
  <2>3. \A q \in Procs : Earlier(q)'
    BY <1>21, StillEarlier
  <2> QED
    BY <2>1, <2>2, <2>3
<1> QED
  BY <1>1, <1>2, <1>3, <1>4, <1>5, <1>6a, <1>6b, <1>6c, <1>6d, <1>7, <1>8, <1>9, <1>10, <1>11, <1>13, <1>14, <1>15,
     <1>16, <1>17, <1>18, <1>19, <1>20, <1>21 DEF Next, Watching, Ticking, Recovering, Driving

\* Where nothing is looked at, and what was read stays, nothing changes.
LEMMA StillSighted ==
  ASSUME Shapes, NEW p \in Procs, \A q \in Procs \ {p} : at'[q] = at[q] /\ read'[q] = read[q] /\ todo'[q] = todo[q],
         \/ todo'[p] = {}
         \/ at'[p] \in {"recover", "wrote"} /\ read'[p] = read[p] /\ todo'[p] \subseteq todo[p]
  PROVE  \A q \in Procs : Sighted(q)'
<1>1. \A q \in Procs \ {p} : Sighted(q)'
  BY DEF Shapes, Sighted, Seen
<1>2. CASE todo'[p] = {}
  BY <1>1, <1>2 DEF Sighted
<1>3. CASE at'[p] \in {"recover", "wrote"} /\ read'[p] = read[p] /\ todo'[p] \subseteq todo[p]
  <2>1. Sighted(p)'
    BY <1>3 DEF Shapes, Sighted, Seen
  <2> QED
    BY <1>1, <2>1
<1> QED
  BY <1>2, <1>3

\* A process that is not looking has nothing left to look at.
LEMMA NothingSighted ==
  ASSUME Shapes, NEW p \in Procs, at[p] \notin {"recover", "wrote"}
  PROVE  todo[p] = {}
BY DEF Shapes, Formed, Types, WatcherTypes, Sighted

\* Every step keeps what is looked at open in what was read.
LEMMA NextSighted == Shapes /\ [Next]_vars => \A p \in Procs : Sighted(p)'
<1> SUFFICES ASSUME Shapes, [Next]_vars PROVE \A p \in Procs : Sighted(p)'
  OBVIOUS
<1>t. /\ at \in [Procs -> Places] /\ read \in [Procs -> LedgerType]
      /\ todo \in [Procs -> SUBSET (Tickets \X Lines)]
  BY DEF Shapes, Formed, Types, WatcherTypes
<1>1. ASSUME UNCHANGED <<at, read, todo>> PROVE \A p \in Procs : Sighted(p)'
  BY <1>1 DEF Shapes, Sighted, Seen
<1>2. ASSUME NEW p \in Procs, at[p] \notin {"recover", "wrote"}, UNCHANGED todo,
             \A q \in Procs \ {p} : at'[q] = at[q] /\ read'[q] = read[q]
      PROVE  \A q \in Procs : Sighted(q)'
  BY <1>2, StillSighted, NothingSighted
<1>3. ASSUME NEW p \in Procs, Pass(p) \/ Create(p) \/ Judge(p) \/ Remove(p) \/ Select(p)
      PROVE  \A q \in Procs : Sighted(q)'
  <2>1. at[p] \notin {"recover", "wrote"} /\ UNCHANGED <<read, todo>>
    BY <1>3 DEF Pass, Create, Judge, Remove, Select
  <2>2. \E to : at' = [at EXCEPT ![p] = to]
    BY <1>3 DEF Pass, Create, Judge, Remove, Select, Refused, Goes
  <2> QED
    BY <1>2, <1>t, <2>1, <2>2
<1>4. ASSUME NEW p \in Procs, Read(p) PROVE \A q \in Procs : Sighted(q)'
  <2> DEFINE open == {x \in Tickets \X Lines : x[2] \in DOMAIN ledger[x[1]] /\ Open(ledger[x[1]][x[2]])}
  <2>1. /\ read' = [read EXCEPT ![p] = ledger] /\ todo' = [todo EXCEPT ![p] = open]
        /\ at' = [at EXCEPT ![p] = "recover"]
    BY <1>4 DEF Read, Goes
  <2>2. \A x \in open : x \in Tickets \X Lines /\ x[2] \in DOMAIN ledger[x[1]] /\ Open(ledger[x[1]][x[2]])
    OBVIOUS
  <2> HIDE DEF open
  <2>3. todo'[p] = open /\ read'[p] = ledger /\ at'[p] = "recover"
    BY <1>t, <2>1
  <2>4. Sighted(p)'
    BY <2>2, <2>3 DEF Sighted, Seen
  <2>5. \A q \in Procs \ {p} : Sighted(q)'
    BY <1>t, <2>1 DEF Shapes, Sighted, Seen
  <2> QED
    BY <2>4, <2>5
<1>5. ASSUME NEW p \in Procs, NEW x \in todo[p], Recover(p, x) \/ RecoverFails(p, x) \/ PassOver(p, x)
      PROVE  \A q \in Procs : Sighted(q)'
  <2>1. Looks(p, x) /\ (UNCHANGED at \/ at' = [at EXCEPT ![p] = "wrote"])
    BY <1>5 DEF Recover, RecoverFails, PassOver, Goes
  <2>2. /\ todo'[p] \subseteq todo[p] /\ UNCHANGED read /\ at[p] \in {"recover", "wrote"}
        /\ \A q \in Procs \ {p} : todo'[q] = todo[q]
    BY <2>1, LooksIs
  <2> QED
    BY <1>t, <2>1, <2>2, StillSighted
<1>6. ASSUME NEW p \in Procs, Recovered(p) PROVE \A q \in Procs : Sighted(q)'
  <2>1. /\ todo'[p] = {} /\ UNCHANGED todo /\ at' = [at EXCEPT ![p] = "select"]
        /\ \E led : read' = [read EXCEPT ![p] = led]
    BY <1>6 DEF Recovered, Goes
  <2> QED
    BY <1>t, <2>1, StillSighted
<1>7. ASSUME NEW p \in Procs, EndTick(p) PROVE \A q \in Procs : Sighted(q)'
  <2>1. /\ at[p] \notin {"recover", "wrote"} /\ UNCHANGED todo
        /\ \E led : read' = [read EXCEPT ![p] = led]
        /\ \E to : at' = [at EXCEPT ![p] = to]
    BY <1>7 DEF EndTick, Goes
  <2> QED
    BY <1>2, <1>t, <2>1
<1>8. ASSUME NEW p \in Procs, NEW k \in Tickets, AskRun(p, k) \/ RunOne(p, k)
      PROVE  \A q \in Procs : Sighted(q)'
  <2>1. /\ at[p] \notin {"recover", "wrote"} /\ UNCHANGED todo
        /\ UNCHANGED read \/ \E led : read' = [read EXCEPT ![p] = led]
        /\ \E to : at' = [at EXCEPT ![p] = to]
    BY <1>8 DEF AskRun, RunOne, Goes
  <2> QED
    BY <1>2, <1>t, <2>1
<1>9. ASSUME NEW p \in Procs, Die(p) PROVE \A q \in Procs : Sighted(q)'
  <2>1. /\ todo' = [todo EXCEPT ![p] = {}] /\ at' = [at EXCEPT ![p] = "idle"]
        /\ \E led : read' = [read EXCEPT ![p] = led]
    BY <1>9 DEF Die
  <2> QED
    BY <1>t, <2>1, StillSighted
<1>10. ASSUME NEW p \in Procs, \/ \E k \in Tickets : Start(p, k)
                              \/ Driving(p) \/ Begin(p) \/ Leave(p)
       PROVE  UNCHANGED <<at, read, todo>>
  BY <1>10 DEF Start, Driving, Prepare, Spend, Settle, RecordFinished, Done, Begin, Leave, watcher
<1> QED
  BY <1>1, <1>3, <1>4, <1>5, <1>6, <1>7, <1>8, <1>9, <1>10 DEF Next, Watching, Ticking, Recovering, vars, watcher

\* Every step keeps the shapes.
LEMMA NextShapes == Shapes /\ [Next]_vars => Shapes'
<1> SUFFICES ASSUME Shapes, [Next]_vars PROVE Shapes'
  OBVIOUS
<1> QED
  BY NextFormed, NextSighted DEF Shapes

-----------------------------------------------------------------------------
(* The lock keeps two watchers apart.                                       *)

\* What the lock is relied upon for: processes one at a time, or two watchers at
\* most, beside however many runs asked for by hand.
TwoAtMost ==
  \A s \in Scenes : s.inTurn \/ \E a, b \in Procs : \A p \in Procs : s.kind[p] = "hand" \/ p \in {a, b}

\* A watcher that will not watch again.
Over(r) == life[r] \in {"leaving", "dead"} \/ at[r] = "done"

\* A tick has the lock; who looks at it looks at the lock of the other watcher,
\* and removes it when that one is over.
Keeps(p) ==
  /\ lock = p /\ life[p] = "up" => p \in locked
  /\ at[p] = "take" => lock # p
  /\ Tick(p) => lock = p
  /\ at[p] = "look" => \A r \in Procs \ {p} : scene.kind[r] = "hand" \/ Over(r) \/ lock = r
  /\ at[p] = "remove" => \A r \in Procs \ {p} : scene.kind[r] = "hand" \/ Over(r)

Locks ==
  /\ lock # 0 => lock \in Procs /\ scene.kind[lock] # "hand" /\ life[lock] # "off"
  /\ \A p \in Procs : Keeps(p)

\* Processes begin in order; those in turn are never two.
InOrder == \A p, q \in Procs : p < q /\ life[q] # "off" => life[p] # "off"
Alone   == scene.inTurn => \A p, q \in Procs : Up(p) /\ Up(q) => p = q

\* A run's steps are not its watcher's.
LEMMA DrivingKeeps ==
  ASSUME NEW p \in Procs, Driving(p)
  PROVE  UNCHANGED <<scene, life, lock, watcher>>
<1>1. PICK j \in jobs[p] :
        Prepare(p, j) \/ Spend(p, j) \/ Settle(p, j) \/ RecordFinished(p, j) \/ Done(p, j)
  BY DEF Driving
<1>2. CASE Prepare(p, j)
  BY <1>2 DEF Prepare
<1>3. CASE Spend(p, j)
  BY <1>3, Zenon DEF Spend
<1>4. CASE Settle(p, j)
  BY <1>4 DEF Settle
<1>5. CASE RecordFinished(p, j)
  BY <1>5 DEF RecordFinished
<1>6. CASE Done(p, j)
  BY <1>6 DEF Done
<1> QED
  BY <1>1, <1>2, <1>3, <1>4, <1>5, <1>6

\* Recovery moves within itself, or on to the selection.
LEMMA RecoveringKeeps ==
  ASSUME NEW p \in Procs, Recovering(p)
  PROVE  /\ UNCHANGED <<scene, life, lock, locked, tries, plan, usd, jobs>>
         /\ at[p] \in {"recover", "wrote"}
         /\ UNCHANGED at \/ \E to \in {"wrote", "select"} : at' = [at EXCEPT ![p] = to]
<1>1. ASSUME NEW x \in todo[p], Recover(p, x) \/ RecoverFails(p, x) \/ PassOver(p, x)
      PROVE  /\ UNCHANGED <<scene, life, lock, locked, tries, plan, usd, jobs>>
             /\ at[p] \in {"recover", "wrote"}
             /\ UNCHANGED at \/ at' = [at EXCEPT ![p] = "wrote"]
  <2>1. Looks(p, x) /\ (UNCHANGED at \/ at' = [at EXCEPT ![p] = "wrote"])
    BY <1>1 DEF Recover, RecoverFails, PassOver, Goes
  <2> QED
    BY <2>1 DEF Looks
<1>2. CASE Recovered(p)
  BY <1>2 DEF Recovered, Goes
<1> QED
  BY <1>1, <1>2 DEF Recovering

\* The scene is set.
LEMMA SceneKept == ASSUME [Next]_vars PROVE scene' = scene
<1>1. ASSUME NEW p \in Procs, Watching(p) PROVE scene' = scene
  <2>1. CASE Pass(p) \/ Create(p) \/ Judge(p) \/ Remove(p)
    BY <2>1 DEF Pass, Create, Judge, Remove
  <2>2. CASE Read(p) \/ Select(p) \/ EndTick(p) \/ \E k \in Tickets : Start(p, k)
    BY <2>2 DEF Read, Select, EndTick, Start
  <2>3. CASE Recovering(p)
    BY <2>3, RecoveringKeeps
  <2> QED
    BY <1>1, <2>1, <2>2, <2>3 DEF Watching, Ticking
<1>2. ASSUME NEW p \in Procs, Driving(p) PROVE scene' = scene
  BY <1>2, DrivingKeeps
<1>3. ASSUME NEW p \in Procs, NEW k \in Tickets, AskRun(p, k) \/ RunOne(p, k) PROVE scene' = scene
  BY <1>3 DEF AskRun, RunOne
<1>4. ASSUME NEW p \in Procs, Begin(p) \/ Leave(p) \/ Die(p) PROVE scene' = scene
  BY <1>4 DEF Begin, Leave, Die
<1> QED
  BY <1>1, <1>2, <1>3, <1>4 DEF Next

\* A step of the processes' lives keeps their order.
LEMMA NextOrder ==
  ASSUME Types, InOrder, Alone, [Next]_vars
  PROVE  InOrder' /\ Alone'
<1>s. scene.inTurn \in BOOLEAN /\ Procs \subseteq Nat
  BY SceneType, ShadowAssumption DEF Types
<1>1. ASSUME UNCHANGED <<scene, life>> PROVE InOrder' /\ Alone'
  BY <1>1 DEF InOrder, Alone, Up
<1>2. ASSUME NEW p \in Procs, Begin(p) PROVE InOrder' /\ Alone'
  <2>1. /\ life[p] = "off" /\ \A q \in Procs : q < p => life[q] # "off"
        /\ scene.inTurn => \A q \in Procs : q < p => life[q] = "dead"
        /\ life' = [life EXCEPT ![p] = "up"] /\ scene' = scene
    BY <1>2 DEF Begin
  <2>2. life \in [Procs -> {"off", "up", "leaving", "dead"}]
    BY DEF Types
  <2>3. InOrder'
    BY <2>1, <2>2, <1>s DEF InOrder
  <2>4. ASSUME scene.inTurn, NEW q \in Procs \ {p} PROVE ~Up(q)
    <3>1. p \in Nat /\ q \in Nat
      BY <1>s
    <3>2. CASE q < p
      BY <2>1, <2>4, <3>2 DEF Up
    <3>3. CASE p < q
      BY <2>1, <3>3 DEF InOrder, Up
    <3> QED
      BY <3>1, <3>2, <3>3
  <2>5. Alone'
    BY <2>1, <2>2, <2>4 DEF Alone, Up
  <2> QED
    BY <2>3, <2>5
<1>3. ASSUME NEW p \in Procs, Leave(p) \/ Die(p) PROVE InOrder' /\ Alone'
  <2>1. /\ Up(p) /\ scene' = scene
        /\ life' = [life EXCEPT ![p] = "leaving"] \/ life' = [life EXCEPT ![p] = "dead"]
    BY <1>3 DEF Leave, Die, Up
  <2> QED
    BY <2>1 DEF InOrder, Alone, Up, Types
<1>4. ASSUME NEW p \in Procs, Watching(p) \/ Driving(p) PROVE UNCHANGED <<scene, life>>
  <2>1. CASE Pass(p) \/ Create(p) \/ Judge(p) \/ Remove(p)
    BY <2>1 DEF Pass, Create, Judge, Remove
  <2>2. CASE Read(p) \/ Select(p) \/ EndTick(p) \/ \E k \in Tickets : Start(p, k)
    BY <2>2 DEF Read, Select, EndTick, Start
  <2>3. CASE Recovering(p)
    BY <2>3, RecoveringKeeps
  <2>4. CASE Driving(p)
    BY <2>4 DEF Driving, Prepare, Spend, Settle, RecordFinished, Done
  <2> QED
    BY <1>4, <2>1, <2>2, <2>3, <2>4 DEF Watching, Ticking
<1>5. ASSUME NEW p \in Procs, NEW k \in Tickets, AskRun(p, k) \/ RunOne(p, k) PROVE UNCHANGED <<scene, life>>
  BY <1>5 DEF AskRun, RunOne
<1> QED
  BY <1>1, <1>2, <1>3, <1>4, <1>5 DEF Next

\* A step that leaves the lock alone, and moves ticks within themselves.
LEMMA StillLocks ==
  ASSUME Types, Placed, Locks, UNCHANGED <<scene, life, lock, locked>>,
         \A p \in Procs : \/ at'[p] = at[p]
                          \/ Tick(p) /\ Tick(p)'
                          \/ at'[p] \in {"idle", "asked", "done"} /\ ~Over(p)
  PROVE  Locks'
<1>1. \A p \in Procs : Over(p) => Over(p)'
  BY DEF Over, Tick
<1>2. ASSUME NEW p \in Procs PROVE Keeps(p)'
  <2>1. Keeps(p)
    BY DEF Locks
  <2>2. Tick(p)' => Tick(p)
    BY DEF Tick
  <2>3. at'[p] \in {"take", "look", "remove"} => at'[p] = at[p]
    BY DEF Tick
  <2> QED
    BY <2>1, <2>2, <2>3, <1>1 DEF Keeps
<1> QED
  BY <1>2 DEF Locks

\* Two watchers at most.
Pair == \E a, b \in Procs : \A p \in Procs : scene.kind[p] = "hand" \/ p \in {a, b}

\* Every step keeps what the lock is for: it is removed only by a process whose
\* only other watcher is over.
LEMMA NextLocks ==
  ASSUME Types, Placed, Locks, Pair, [Next]_vars
  PROVE  Locks'
<1>t. /\ at \in [Procs -> Places] /\ life \in [Procs -> {"off", "up", "leaving", "dead"}]
      /\ scene.kind \in [Procs -> {"serve", "once", "hand"}] /\ 0 \notin Procs
  BY SceneType, ShadowAssumption DEF Types, WatcherTypes
<1>w. ASSUME NEW p \in Procs, at[p] \notin {"idle", "asked", "done"}
      PROVE  life[p] = "up" /\ scene.kind[p] \in {"serve", "once"} /\ ~Over(p)
  BY <1>t, <1>w DEF Placed, Over
<1>k. \A p \in Procs : Keeps(p)
  BY DEF Locks
<1>1. ASSUME NEW p \in Procs, Pass(p) PROVE Locks'
  <2>1. /\ life[p] = "up" /\ scene.kind[p] # "hand" /\ at[p] = "idle"
        /\ UNCHANGED <<scene, life, lock>>
    BY <1>1, <1>t DEF Pass, Watches
  <2>2. CASE Holds(p)
    <3>1. at' = [at EXCEPT ![p] = "read"] /\ locked' = locked /\ lock = p
      BY <1>1, <2>2 DEF Pass, Holds, Goes
    <3>2. \A q \in Procs : Over(q) => Over(q)'
      BY <2>1, <3>1, <1>t DEF Over
    <3>3. ASSUME NEW q \in Procs PROVE Keeps(q)'
      BY <2>1, <3>1, <3>2, <1>k, <1>t DEF Keeps, Tick
    <3> QED
      BY <2>1, <3>3 DEF Locks
  <2>3. CASE ~Holds(p)
    <3>1. at' = [at EXCEPT ![p] = "take"] /\ locked' = locked \ {p}
      BY <1>1, <2>3 DEF Pass, Goes
    <3>2. lock # p
      BY <2>1, <2>3, <1>k DEF Holds, Keeps
    <3>3. \A q \in Procs : Over(q) => Over(q)'
      BY <2>1, <3>1, <1>t DEF Over
    <3>4. ASSUME NEW q \in Procs PROVE Keeps(q)'
      BY <2>1, <3>1, <3>2, <3>3, <1>k, <1>t DEF Keeps, Tick
    <3> QED
      BY <2>1, <3>4 DEF Locks
  <2> QED
    BY <2>2, <2>3
<1>2. ASSUME NEW p \in Procs, Create(p) PROVE Locks'
  <2>1. at[p] = "take" /\ UNCHANGED <<scene, life>> /\ lock # p
    BY <1>2, <1>k DEF Create, Keeps
  <2>2. life[p] = "up" /\ scene.kind[p] # "hand"
    BY <1>w, <2>1
  <2>3. CASE lock = 0
    <3>1. lock' = p /\ locked' = locked \cup {p} /\ at' = [at EXCEPT ![p] = "read"]
      BY <1>2, <2>3 DEF Create, Goes
    <3>2. \A q \in Procs : Over(q) => Over(q)'
      BY <2>1, <3>1, <1>t DEF Over
    <3>3. ASSUME NEW q \in Procs PROVE Keeps(q)'
      BY <2>1, <2>3, <3>1, <3>2, <1>k, <1>t DEF Keeps, Tick
    <3> QED
      BY <2>1, <2>2, <3>1, <3>3 DEF Locks
  <2>4. CASE lock # 0
    <3>1. at' = [at EXCEPT ![p] = "look"] /\ UNCHANGED <<lock, locked>>
      BY <1>2, <2>4 DEF Create, Goes
    <3>2. \A r \in Procs \ {p} : scene.kind[r] = "hand" \/ lock = r
      BY <2>1, <2>2, <2>4 DEF Locks, Pair
    <3>3. \A q \in Procs : Over(q) => Over(q)'
      BY <2>1, <3>1, <1>t DEF Over
    <3>4. ASSUME NEW q \in Procs PROVE Keeps(q)'
      BY <2>1, <3>1, <3>2, <3>3, <1>k, <1>t DEF Keeps, Tick
    <3> QED
      BY <2>1, <3>1, <3>4 DEF Locks
  <2> QED
    BY <2>3, <2>4
<1>3. ASSUME NEW p \in Procs, Judge(p) PROVE Locks'
  <2>1. at[p] = "look" /\ UNCHANGED <<scene, life, lock, locked>>
    BY <1>3 DEF Judge
  <2>2. CASE Stale(p)
    <3>1. at' = [at EXCEPT ![p] = "remove"]
      BY <1>3, <2>2 DEF Judge, Goes
    <3>2. lock \in Procs => life[lock] # "off"
      BY <1>t DEF Locks
    <3>3. \A r \in Procs \ {p} : scene.kind[r] = "hand" \/ Over(r)
      BY <1>k, <1>t, <2>1, <2>2, <3>2 DEF Keeps, Stale, Up, Over
    <3>4. \A q \in Procs : Over(q) => Over(q)'
      BY <2>1, <3>1, <1>t DEF Over
    <3>5. ASSUME NEW q \in Procs PROVE Keeps(q)'
      BY <2>1, <3>1, <3>3, <3>4, <1>k, <1>t DEF Keeps, Tick
    <3> QED
      BY <2>1, <3>5 DEF Locks
  <2>3. CASE ~Stale(p)
    <3>1. \E to \in {"idle", "done"} : at' = [at EXCEPT ![p] = to]
      BY <1>3, <2>3 DEF Judge, Refused, Goes
    <3>2. ~Over(p)
      BY <2>1, <1>w
    <3> QED
      BY <2>1, <3>1, <3>2, <1>t, StillLocks
  <2> QED
    BY <2>2, <2>3
<1>4. ASSUME NEW p \in Procs, Remove(p) PROVE Locks'
  <2>1. /\ at[p] = "remove" /\ lock' = 0 /\ UNCHANGED <<scene, life, locked>>
        /\ \E to \in {"take", "idle", "done"} : at' = [at EXCEPT ![p] = to]
    BY <1>4 DEF Remove, Refused, Goes
  <2>2. \A r \in Procs \ {p} : scene.kind[r] = "hand" \/ Over(r)
    BY <2>1, <1>k DEF Keeps
  <2>3. \A r \in Procs \ {p} : at[r] \in {"idle", "asked", "done"}
    BY <2>2, <1>w, <1>t DEF Places, Placed
  <2>4. \A q \in Procs : Over(q) => Over(q)'
    BY <2>1, <1>t, <1>w DEF Over
  <2>5. ASSUME NEW q \in Procs PROVE Keeps(q)'
    BY <2>1, <2>3, <2>4, <1>k, <1>t DEF Keeps, Tick
  <2> QED
    BY <2>1, <2>5 DEF Locks
<1>5. ASSUME NEW p \in Procs, EndTick(p) PROVE Locks'
  <2>1. at[p] \in {"end", "launch"} /\ UNCHANGED <<scene, life>>
    BY <1>5 DEF EndTick
  <2>2. lock = p /\ life[p] = "up" /\ scene.kind[p] # "hand" /\ ~Over(p)
    BY <2>1, <1>k, <1>w DEF Keeps, Tick
  <2>3. CASE scene.kind[p] = "once"
    <3>1. at' = [at EXCEPT ![p] = "done"] /\ lock' = 0 /\ locked' = locked \ {p}
      BY <1>5, <2>2, <2>3 DEF EndTick, LetGo, Goes
    <3>2. \A q \in Procs : Over(q) => Over(q)'
      BY <2>1, <3>1, <1>t DEF Over
    <3>3. Over(p)'
      BY <3>1, <1>t DEF Over
    <3>4. ASSUME NEW q \in Procs PROVE Keeps(q)'
      <4>1. Tick(q)' => FALSE
        BY <2>1, <2>2, <3>1, <1>k, <1>t DEF Keeps, Tick
      <4>2. Keeps(q) /\ (q # p => at'[q] = at[q]) /\ at'[p] = "done"
        BY <3>1, <1>k, <1>t
      <4> QED
        BY <2>1, <2>2, <3>1, <3>2, <3>3, <4>1, <4>2, <1>t DEF Keeps
    <3> QED
      BY <2>1, <3>1, <3>4 DEF Locks
  <2>4. CASE scene.kind[p] # "once"
    <3>1. at' = [at EXCEPT ![p] = "idle"] /\ UNCHANGED <<lock, locked>>
      BY <1>5, <2>4 DEF EndTick, Goes
    <3> QED
      BY <2>1, <2>2, <3>1, <1>t, StillLocks
  <2> QED
    BY <2>3, <2>4
<1>6. ASSUME NEW p \in Procs, Leave(p) PROVE Locks'
  <2>1. /\ life[p] = "up" /\ at[p] = "idle" /\ life' = [life EXCEPT ![p] = "leaving"]
        /\ lock' = (IF lock = p THEN 0 ELSE lock) /\ locked' = locked \ {p} /\ UNCHANGED <<scene, at>>
    BY <1>6 DEF Leave, LetGo
  <2>2. \A q \in Procs : Over(q) => Over(q)'
    BY <2>1, <1>t DEF Over
  <2>3. Over(p)'
    BY <2>1, <1>t DEF Over
  <2>4. ASSUME NEW q \in Procs PROVE Keeps(q)'
    <3>1. Keeps(q) /\ (q # p => life'[q] = life[q]) /\ life'[p] = "leaving" /\ at'[q] = at[q]
      BY <2>1, <1>k, <1>t
    <3> QED
      BY <2>1, <2>2, <2>3, <3>1, <1>t DEF Keeps, Tick
  <2> QED
    BY <2>1, <2>4, <1>t DEF Locks
<1>7. ASSUME NEW p \in Procs, Die(p) PROVE Locks'
  <2>1. /\ life' = [life EXCEPT ![p] = "dead"] /\ locked' = locked \ {p}
        /\ at' = [at EXCEPT ![p] = "idle"] /\ UNCHANGED <<scene, lock>>
    BY <1>7 DEF Die
  <2>2. \A q \in Procs : Over(q) => Over(q)'
    BY <2>1, <1>t DEF Over
  <2>3. ASSUME NEW q \in Procs PROVE Keeps(q)'
    BY <2>1, <2>2, <1>k, <1>t DEF Keeps, Tick
  <2> QED
    BY <2>1, <2>3, <1>t DEF Locks
<1>8. ASSUME NEW p \in Procs, Begin(p) PROVE Locks'
  <2>1. life[p] = "off" /\ life' = [life EXCEPT ![p] = "up"] /\ UNCHANGED <<scene, lock, locked, at>>
    BY <1>8 DEF Begin
  <2>2. lock # p /\ at[p] = "idle"
    BY <2>1, <1>t DEF Locks, Placed
  <2>3. \A q \in Procs : Over(q) => Over(q)'
    BY <2>1, <1>t DEF Over
  <2>4. ASSUME NEW q \in Procs PROVE Keeps(q)'
    BY <2>1, <2>2, <2>3, <1>k, <1>t DEF Keeps, Tick
  <2> QED
    BY <2>1, <2>4, <1>t DEF Locks
<1>9. ASSUME NEW p \in Procs, Read(p) \/ Recovering(p) \/ Select(p) PROVE Locks'
  <2>1. /\ UNCHANGED <<scene, life, lock, locked>> /\ at[p] \in {"read", "recover", "wrote", "select"}
        /\ \/ UNCHANGED at
           \/ \E to \in {"recover", "wrote", "select", "end", "launch"} : at' = [at EXCEPT ![p] = to]
    <3>1. CASE Read(p)
      BY <3>1 DEF Read, Goes
    <3>2. CASE Recovering(p)
      BY <3>2, RecoveringKeeps
    <3>3. CASE Select(p)
      BY <3>3 DEF Select, Goes
    <3> QED
      BY <1>9, <3>1, <3>2, <3>3
  <2>2. Tick(p) /\ Tick(p)'
    BY <2>1, <1>t DEF Tick
  <2> QED
    BY <2>1, <2>2, <1>t, StillLocks
<1>10. ASSUME NEW p \in Procs, NEW k \in Tickets, AskRun(p, k) \/ RunOne(p, k) PROVE Locks'
  <2>1. /\ UNCHANGED <<scene, life, lock, locked>> /\ at[p] \in {"idle", "asked"}
        /\ \E to \in {"asked", "done"} : at' = [at EXCEPT ![p] = to]
        /\ life[p] = "up"
    BY <1>10, <1>t DEF AskRun, RunOne, Goes, Placed
  <2>2. ~Over(p)
    BY <2>1, <1>t DEF Over
  <2> QED
    BY <2>1, <2>2, <1>t, StillLocks
<1>11. ASSUME NEW p \in Procs, Driving(p) \/ \E k \in Tickets : Start(p, k) PROVE Locks'
  <2>1. CASE Driving(p)
    BY <2>1, DrivingKeeps, StillLocks
  <2>2. CASE \E k \in Tickets : Start(p, k)
    BY <2>2, StillLocks DEF Start
  <2> QED
    BY <1>11, <2>1, <2>2
<1>12. ASSUME UNCHANGED vars PROVE Locks'
  BY <1>12, StillLocks
<1> QED
  BY <1>1, <1>2, <1>3, <1>4, <1>5, <1>6, <1>7, <1>8, <1>9, <1>10, <1>11, <1>12
     DEF Next, Watching, Ticking

\* The processes' order, and the lock, hold of every reachable state.
LockInv == Shapes /\ InOrder /\ Alone /\ (~scene.inTurn => Locks)

\* LockInv is inductive when at most two watchers run on the machine, and gives OneWatcher.
LEMMA LockInductive ==
  ASSUME TwoAtMost
  PROVE  /\ Init => LockInv
         /\ LockInv /\ [Next]_vars => LockInv'
         /\ LockInv => OneWatcher
<1>1. ASSUME Init PROVE LockInv
  <2>1. Shapes
    BY <1>1, InitShapes
  <2>2. InOrder /\ Alone
    BY <1>1 DEF Init, InOrder, Alone, Up
  <2>3. Locks
    BY <1>1 DEF Init, Locks, Keeps, Tick
  <2> QED
    BY <2>1, <2>2, <2>3 DEF LockInv
<1>2. ASSUME LockInv, [Next]_vars PROVE LockInv'
  <2>1. Shapes'
    BY <1>2, NextShapes DEF LockInv
  <2>2. InOrder' /\ Alone'
    BY <1>2, NextOrder DEF LockInv, Shapes, Formed
  <2>3. ASSUME ~scene'.inTurn PROVE Locks'
    <3>1. scene' = scene
      BY <1>2, SceneKept
    <3>2. Pair
      BY <1>2, <2>3, <3>1 DEF TwoAtMost, Pair, LockInv, Shapes, Formed, Types
    <3> QED
      BY <1>2, <2>3, <3>1, <3>2, NextLocks DEF LockInv, Shapes, Formed
  <2> QED
    BY <2>1, <2>2, <2>3 DEF LockInv
<1>3. ASSUME LockInv PROVE OneWatcher
  <2> SUFFICES ASSUME NEW p \in Procs, NEW q \in Procs, Tick(p), Tick(q) PROVE p = q
    BY DEF OneWatcher
  <2>1. CASE scene.inTurn
    <3>1. Up(p) /\ Up(q)
      BY <1>3 DEF LockInv, Shapes, Formed, Placed, Tick, Up
    <3> QED
      BY <1>3, <2>1, <3>1 DEF LockInv, Alone
  <2>2. CASE ~scene.inTurn
    BY <1>3, <2>2 DEF LockInv, Locks, Keeps
  <2> QED
    BY <2>1, <2>2
<1> QED
  BY <1>1, <1>2, <1>3

\* However they crash, two watchers never tick at once: one lock file between
\* them is enough.
THEOREM OneWatches == TwoAtMost => (Spec => []OneWatcher)
<1> SUFFICES ASSUME TwoAtMost PROVE Spec => []OneWatcher
  OBVIOUS
<1>1. Init => LockInv
  BY LockInductive
<1>2. LockInv /\ [Next]_vars => LockInv'
  BY LockInductive
<1>3. LockInv => OneWatcher
  BY LockInductive
<1> QED
  BY <1>1, <1>2, <1>3, PTL DEF Spec

-----------------------------------------------------------------------------
(* The ledger, and what the watchers know of it.                            *)

\* A run is named after the attempt it began with, and carried on only when that
\* one, and those after it, have ended.
Sound(led) ==
  \A k \in Tickets : \A i \in DOMAIN led[k] :
    /\ led[k][i].run <= i
    /\ \A n \in DOMAIN led[k] : i < n /\ led[k][n].run = led[k][i].run => ~Open(led[k][i])

\* What an older ledger says of an attempt is still so, but that it may have ended.
SameAttempt(a, b) == b.pid = a.pid /\ b.run = a.run /\ b.no = a.no /\ (Open(b) => Open(a))
Follows(old, new) ==
  \A k \in Tickets :
    /\ Len(old[k]) <= Len(new[k])
    /\ \A i \in DOMAIN old[k] : SameAttempt(old[k][i], new[k][i])

\* A tick that may still close or start something for a ticket.
Decides(p, k) == at[p] \in {"recover", "wrote", "select"} \/ (at[p] = "launch" /\ k \in plan[p])

\* Since it read, the ticket got runs of their own at most.
Since(p) ==
  \A k \in Tickets : Decides(p, k) =>
    \A i \in DOMAIN ledger[k] : i > Len(read[p][k]) => ledger[k][i].run = i

\* What is to be started was never tried, or its last attempt has ended.
Planned(p) ==
  at[p] = "launch" => \A k \in plan[p] :
    read[p][k] = << >> \/ (Len(read[p][k]) < MaxAttempts /\ ~Open(Latest(read[p], k)))

\* A run that is driven is accounted for: the last attempt that names it is open,
\* and its process's; and it is driven once.
Accounted(p, k, r) ==
  \E i \in DOMAIN ledger[k] : LastOf(ledger, k, r, i) /\ ledger[k][i].pid = p /\ Open(ledger[k][i])
Accounts(p) == \A j \in Driven(p) : Accounted(p, j.key, j.run)
OneEach(p)  == \A j, l \in Driven(p) : j.key = l.key /\ j.run = l.run => j = l

Knows(p) == Sound(read[p]) /\ Follows(read[p], ledger) /\ Since(p) /\ Planned(p)

\* What is driven is accounted for while no run goes quiet under a live process.
Drives(p) == Accounts(p) /\ OneEach(p)
Core ==
  /\ Sound(ledger) /\ \A p \in Procs : Knows(p)
  /\ ~scene.hush => \A p \in Procs : Drives(p)

\* A ledger that has the lines it had, some of them finished.
Settles(old, new) ==
  Follows(old, new) /\ \A k \in Tickets : Len(new[k]) = Len(old[k]) /\ DOMAIN new[k] = DOMAIN old[k]

\* A ledger that did not change follows, and settles, itself.
LEMMA FollowsItself ==
  ASSUME NEW led \in LedgerType
  PROVE  Follows(led, led) /\ Settles(led, led)
<1>1. \A k \in Tickets : Len(led[k]) \in Nat
  BY Indexed
<1> QED
  BY <1>1 DEF Follows, SameAttempt, Settles

\* Follows is transitive.
LEMMA FollowsOn ==
  ASSUME NEW a \in LedgerType, NEW b \in LedgerType, NEW c \in LedgerType, Follows(a, b), Follows(b, c)
  PROVE  Follows(a, c)
<1> SUFFICES ASSUME NEW k \in Tickets
             PROVE  /\ Len(a[k]) <= Len(c[k])
                    /\ \A i \in DOMAIN a[k] : SameAttempt(a[k][i], c[k][i])
  BY DEF Follows
<1>1. /\ Len(a[k]) \in Nat /\ Len(b[k]) \in Nat /\ Len(c[k]) \in Nat
      /\ DOMAIN a[k] = 1 .. Len(a[k]) /\ DOMAIN b[k] = 1 .. Len(b[k])
  BY Indexed
<1>2. Len(a[k]) <= Len(b[k]) /\ Len(b[k]) <= Len(c[k])
  BY DEF Follows
<1>3. DOMAIN a[k] \subseteq DOMAIN b[k]
  BY <1>1, <1>2
<1>4. \A i \in DOMAIN a[k] : SameAttempt(a[k][i], b[k][i]) /\ SameAttempt(b[k][i], c[k][i])
  BY <1>3 DEF Follows
<1>5. \A i \in DOMAIN a[k] : SameAttempt(a[k][i], c[k][i])
  BY <1>4 DEF SameAttempt
<1> QED
  BY <1>1, <1>2, <1>5

\* Closing lines the way recovery and the end of a run do keeps a ledger sound.
LEMMA SettledSound ==
  ASSUME NEW old \in LedgerType, NEW new \in LedgerType, Sound(old), Settles(old, new)
  PROVE  Sound(new)
<1> SUFFICES ASSUME NEW k \in Tickets, NEW i \in DOMAIN new[k]
             PROVE  /\ new[k][i].run <= i
                    /\ \A n \in DOMAIN new[k] : i < n /\ new[k][n].run = new[k][i].run => ~Open(new[k][i])
  BY DEF Sound
<1>1. DOMAIN new[k] = DOMAIN old[k]
  BY DEF Settles
<1>2. \A n \in DOMAIN old[k] : new[k][n].run = old[k][n].run /\ (Open(new[k][n]) => Open(old[k][n]))
  BY DEF Settles, Follows, SameAttempt
<1> QED
  BY <1>1, <1>2 DEF Sound

\* An attempt that is closed, and one with its finished line.
LEMMA FinishedSame ==
  ASSUME NEW a \in Attempts, NEW end \in {"answer", "again"}, NEW c \in Nat
  PROVE  SameAttempt(a, Finished(a, end, c)) /\ ~Open(Finished(a, end, c))
BY FinishedType DEF SameAttempt, Open

\* What a process knows it still knows when others finish lines.
LEMMA StillKnows ==
  ASSUME Types, ledger' \in LedgerType, NEW q \in Procs, Knows(q), Settles(ledger, ledger'),
         read'[q] = read[q], at'[q] = "launch" => at[q] = "launch" /\ plan'[q] \subseteq plan[q],
         \A k \in Tickets : Decides(q, k)' => Decides(q, k)
  PROVE  Knows(q)'
<1>1. read[q] \in LedgerType /\ ledger \in LedgerType
  BY DEF Types
<1>2. Follows(read[q], ledger')
  BY <1>1, FollowsOn DEF Knows, Settles
<1>3. \A k \in Tickets : DOMAIN ledger'[k] = DOMAIN ledger[k]
  BY DEF Settles
<1>4. \A k \in Tickets : \A i \in DOMAIN ledger[k] : ledger'[k][i].run = ledger[k][i].run
  BY DEF Settles, Follows, SameAttempt
<1>5. Since(q)'
  BY <1>3, <1>4 DEF Knows, Since
<1>6. Planned(q)'
  BY DEF Knows, Planned, Latest
<1> QED
  BY <1>2, <1>5, <1>6 DEF Knows

\* A run stays accounted for when the lines of others are finished.
LEMMA StillAccounted ==
  ASSUME Types, ledger' \in LedgerType, Settles(ledger, ledger'), NEW p \in Procs, NEW k \in Tickets, NEW r,
         Accounted(p, k, r),
         \A i \in DOMAIN ledger[k] : LastOf(ledger, k, r, i) /\ ledger[k][i].pid = p /\ Open(ledger[k][i])
                                       => Open(ledger'[k][i])
  PROVE  Accounted(p, k, r)'
<1>1. PICK i \in DOMAIN ledger[k] :
        LastOf(ledger, k, r, i) /\ ledger[k][i].pid = p /\ Open(ledger[k][i])
  BY DEF Accounted
<1>2. DOMAIN ledger'[k] = DOMAIN ledger[k]
  BY DEF Settles
<1>3. \A n \in DOMAIN ledger[k] : ledger'[k][n].run = ledger[k][n].run /\ ledger'[k][n].pid = ledger[k][n].pid
  BY DEF Settles, Follows, SameAttempt
<1>4. LastOf(ledger', k, r, i)
  BY <1>1, <1>2, <1>3 DEF LastOf
<1>5. Open(ledger'[k][i])
  BY <1>1
<1> QED
  BY <1>1, <1>2, <1>3, <1>4, <1>5 DEF Accounted

\* A run that is started is new, or one whose attempts have all ended.
Startable(k, r) ==
  r <= Len(ledger[k]) + 1 /\ \A i \in DOMAIN ledger[k] : ledger[k][i].run = r => ~Open(ledger[k][i])

\* The run id after the last line of a ledger is one no line names, and its run may start.
LEMMA NewStartable ==
  ASSUME Types, Core, NEW k \in Tickets
  PROVE  /\ Startable(k, Len(ledger[k]) + 1)
         /\ \A i \in DOMAIN ledger[k] : ledger[k][i].run # Len(ledger[k]) + 1
<1>1. /\ Len(ledger[k]) \in Nat /\ DOMAIN ledger[k] = 1 .. Len(ledger[k])
      /\ \A i \in DOMAIN ledger[k] : ledger[k][i] \in Attempts
  BY Indexed DEF Types
<1>2. \A i \in DOMAIN ledger[k] : ledger[k][i].run <= i /\ ledger[k][i].run \in Int
  BY <1>1, AttemptType DEF Core, Sound, Lines
<1>3. \A i \in DOMAIN ledger[k] : ledger[k][i].run # Len(ledger[k]) + 1
  BY <1>1, <1>2
<1> QED
  BY <1>1, <1>3 DEF Startable

\* What a tick that planned a ticket carries on had ended when it read, and nobody
\* has carried it on since.
LEMMA PlannedStartable ==
  ASSUME Types, Core, NEW p \in Procs, NEW k \in Tickets, at[p] = "launch", k \in plan[p],
         NEW r, NEW spent, Launched(p, k, Len(read[p][k]) + 1, r, spent)
  PROVE  Startable(k, r)
<1>1. CASE r = Len(ledger[k]) + 1
  BY <1>1, NewStartable
<1>2. CASE Len(read[p][k]) + 1 > 1 /\ r = Latest(read[p], k).run
  <2> DEFINE m == Len(read[p][k])
  <2>1. /\ read[p] \in LedgerType /\ ledger \in LedgerType
        /\ m \in Nat /\ DOMAIN read[p][k] = 1 .. m
        /\ Len(ledger[k]) \in Nat /\ DOMAIN ledger[k] = 1 .. Len(ledger[k])
    BY Indexed DEF Types
  <2>2. m <= Len(ledger[k]) /\ m \in DOMAIN read[p][k] /\ r = read[p][k][m].run
    BY <1>2, <2>1 DEF Core, Knows, Follows, Latest
  <2>3. \A i \in DOMAIN ledger[k] : ledger[k][i] \in Attempts
    BY <2>1, Indexed
  <2>4. r \in Int /\ r <= m
    <3>1. read[p][k][m] \in Attempts
      BY <2>1, <2>2, Indexed
    <3>2. read[p][k][m].run <= m
      BY <2>2 DEF Core, Knows, Sound
    <3> QED
      BY <2>2, <3>1, <3>2, AttemptType DEF Lines
  <2>5. ~Open(read[p][k][m])
    <3>1. read[p][k] # << >>
      BY <1>2, <2>1
    <3> QED
      BY <3>1 DEF Core, Knows, Planned, Latest
  <2>6. SameAttempt(read[p][k][m], ledger[k][m]) /\ m \in DOMAIN ledger[k]
    BY <2>1, <2>2 DEF Core, Knows, Follows
  <2>7. ASSUME NEW i \in DOMAIN ledger[k], ledger[k][i].run = r PROVE ~Open(ledger[k][i])
    <3>1. CASE i = m
      BY <2>5, <2>6, <3>1 DEF SameAttempt
    <3>2. CASE i < m
      <4>1. ledger[k][m].run = ledger[k][i].run
        BY <2>2, <2>6, <2>7 DEF SameAttempt
      <4> QED
        BY <2>6, <3>2, <4>1 DEF Core, Sound
    <3>3. CASE i > m
      <4>1. ledger[k][i].run = i
        BY <3>3 DEF Core, Knows, Since, Decides
      <4> QED
        BY <2>1, <2>4, <2>7, <3>3, <4>1
    <3> QED
      BY <2>1, <3>1, <3>2, <3>3
  <2> QED
    BY <2>1, <2>2, <2>4, <2>7 DEF Startable
<1> QED
  BY <1>1, <1>2 DEF Launched

\* A launch: the ledger is sound still, every run that was accounted for still is,
\* and the new one too, which no process drove.
LEMMA LaunchCore ==
  ASSUME Types, Core, NEW p \in Procs, NEW k \in Tickets, NEW no \in Lines, NEW r, NEW spent \in Nat, Launched(p, k, no, r, spent),
         Startable(k, r)
  PROVE  /\ ledger' \in LedgerType /\ Sound(ledger') /\ Follows(ledger, ledger')
         /\ \A q \in Procs : ~Accounted(q, k, r)
         /\ \A q \in Procs : \A l \in Tickets : \A s : Accounted(q, l, s) => Accounted(q, l, s)'
         /\ Accounted(p, k, r)'
<1> DEFINE a == [pid |-> p, run |-> r, no |-> no, end |-> "open", cost |-> 0]
           n == Len(ledger[k])
           new == ledger'
<1>1. a \in Attempts /\ a.run = r /\ a.pid = p /\ Open(a)
  BY LaunchTypes DEF Open
<1>2. ledger' = [ledger EXCEPT ![k] = Append(ledger[k], a)] /\ r \in Lines
  BY DEF Launched
<1> HIDE DEF a
<1>3. /\ new \in LedgerType /\ \A l \in Tickets \ {k} : new[l] = ledger[l]
      /\ Len(new[k]) = n + 1 /\ DOMAIN new[k] = 1 .. n + 1
      /\ \A i \in DOMAIN ledger[k] : new[k][i] = ledger[k][i]
      /\ new[k][n + 1] = a
  BY <1>1, <1>2, AppendEffect DEF Types
<1>4. /\ n \in Nat /\ DOMAIN ledger[k] = 1 .. n
      /\ \A l \in Tickets : Len(ledger[l]) \in Nat
  BY Indexed DEF Types
<1> HIDE DEF new
<1>5. Sound(new)
  <2> SUFFICES ASSUME NEW l \in Tickets, NEW i \in DOMAIN new[l]
               PROVE  /\ new[l][i].run <= i
                      /\ \A m \in DOMAIN new[l] : i < m /\ new[l][m].run = new[l][i].run => ~Open(new[l][i])
    BY DEF Sound
  <2>1. CASE l # k
    BY <1>3, <2>1 DEF Core, Sound
  <2>2. CASE l = k /\ i = n + 1
    BY <1>1, <1>3, <1>4, <2>2 DEF Startable
  <2>3. CASE l = k /\ i # n + 1
    <3>1. i \in DOMAIN ledger[k] /\ new[k][i] = ledger[k][i]
      BY <1>3, <1>4, <2>3
    <3>2. ASSUME NEW m \in DOMAIN new[k], i < m, new[k][m].run = new[k][i].run PROVE ~Open(new[k][i])
      <4>1. CASE m = n + 1
        BY <1>1, <1>3, <3>1, <3>2, <4>1 DEF Startable
      <4>2. CASE m # n + 1
        <5>1. m \in DOMAIN ledger[k] /\ new[k][m] = ledger[k][m]
          BY <1>3, <1>4, <4>2
        <5> QED
          BY <3>1, <3>2, <5>1 DEF Core, Sound
      <4> QED
        BY <4>1, <4>2
    <3> QED
      BY <2>3, <3>1, <3>2 DEF Core, Sound
  <2> QED
    BY <2>1, <2>2, <2>3
<1>6. Follows(ledger, new)
  <2>1. \A l \in Tickets : Len(ledger[l]) <= Len(new[l])
    BY <1>3, <1>4
  <2>2. \A l \in Tickets : \A i \in DOMAIN ledger[l] : new[l][i] = ledger[l][i]
    BY <1>3
  <2> QED
    BY <2>1, <2>2 DEF Follows, SameAttempt
<1>7. \A q \in Procs : ~Accounted(q, k, r)
  BY DEF Accounted, LastOf, Startable
<1>8. ASSUME NEW q \in Procs, NEW l \in Tickets, NEW s, Accounted(q, l, s) PROVE Accounted(q, l, s)'
  <2>1. CASE l # k
    <3>1. ledger'[l] = ledger[l]
      BY <1>3, <2>1 DEF new
    <3> QED
      BY <1>8, <3>1 DEF Accounted, LastOf
  <2>2. CASE l = k
    <3>1. s # r
      BY <1>7, <1>8, <2>2
    <3>2. PICK i \in DOMAIN ledger[k] :
            LastOf(ledger, k, s, i) /\ ledger[k][i].pid = q /\ Open(ledger[k][i])
      BY <1>8, <2>2 DEF Accounted
    <3>3. i \in DOMAIN new[k] /\ new[k][i] = ledger[k][i]
      BY <1>3, <1>4, <3>2
    <3>4. ASSUME NEW m \in DOMAIN new[k], m > i PROVE new[k][m].run # s
      <4>1. CASE m = n + 1
        BY <1>1, <1>3, <3>1, <4>1
      <4>2. CASE m # n + 1
        <5>1. m \in DOMAIN ledger[k] /\ new[k][m] = ledger[k][m]
          BY <1>3, <1>4, <4>2
        <5> QED
          BY <3>2, <3>4, <5>1 DEF LastOf
      <4> QED
        BY <4>1, <4>2
    <3>5. LastOf(new, k, s, i)
      BY <3>2, <3>3, <3>4 DEF LastOf
    <3> QED
      BY <2>2, <3>2, <3>3, <3>5 DEF Accounted, new
  <2> QED
    BY <2>1, <2>2
<1>9. Accounted(p, k, r)'
  <2>1. LastOf(new, k, r, n + 1)
    BY <1>1, <1>3, <1>4 DEF LastOf
  <2>2. new[k][n + 1].pid = p /\ Open(new[k][n + 1]) /\ n + 1 \in DOMAIN new[k]
    BY <1>1, <1>3, <1>4
  <2> HIDE DEF n
  <2> QED
    BY <2>1, <2>2 DEF Accounted, new
<1> QED
  BY <1>3, <1>5, <1>6, <1>7, <1>8, <1>9 DEF new

\* What the new job does to what is driven.
LEMMA LaunchDrives ==
  ASSUME Types, Core, NEW p \in Procs, NEW k \in Tickets, NEW no \in Lines, NEW r, NEW spent \in Nat, Launched(p, k, no, r, spent),
         Startable(k, r), ~scene.hush
  PROVE  \A q \in Procs : Drives(q)'
<1> DEFINE j == [key |-> k, run |-> r, at |-> "building", allow |-> Allowed(spent, k, r)]
<1>1. j.key = k /\ j.run = r /\ jobs' = [jobs EXCEPT ![p] = jobs[p] \cup {j}]
  BY DEF Launched
<1> HIDE DEF j
<1>2. \A q \in Procs : Driven(q)' \subseteq Driven(q) \cup (IF q = p THEN {j} ELSE {})
  BY <1>1 DEF Driven, Types
<1>3. /\ \A q \in Procs : ~Accounted(q, k, r)
      /\ \A q \in Procs : \A l \in Tickets : \A s : Accounted(q, l, s) => Accounted(q, l, s)'
      /\ Accounted(p, k, r)'
  BY LaunchCore
<1>4. \A q \in Procs : \A l \in Driven(q) : l.key \in Tickets /\ Accounted(q, l.key, l.run)
  BY JobType DEF Core, Drives, Accounts, Driven
<1>5. ASSUME NEW q \in Procs PROVE Accounts(q)'
  <2>1. ASSUME NEW l \in Driven(q)' PROVE Accounted(q, l.key, l.run)'
    <3>1. CASE l \in Driven(q)
      BY <1>3, <1>4, <3>1
    <3>2. CASE q = p /\ l = j
      BY <1>1, <1>3, <3>2
    <3> QED
      BY <1>2, <2>1, <3>1, <3>2
  <2> QED
    BY <2>1 DEF Accounts
<1>6. ASSUME NEW q \in Procs PROVE OneEach(q)'
  <2>1. ASSUME NEW l \in Driven(q) PROVE ~(l.key = j.key /\ l.run = j.run)
    BY <1>1, <1>3, <1>4, <2>1
  <2>2. \A l, m \in Driven(q) : l.key = m.key /\ l.run = m.run => l = m
    BY DEF Core, Drives, OneEach
  <2>3. \A l, m \in Driven(q)' : l.key = m.key /\ l.run = m.run => l = m
    BY <1>2, <2>1, <2>2
  <2> QED
    BY <2>3 DEF OneEach
<1> QED
  BY <1>5, <1>6 DEF Drives

\* A job moved on drives the run it drove, or, recorded, drives it no more.
LEMMA MovesDriven ==
  ASSUME Types, NEW p \in Procs, NEW j \in Driven(p), NEW to \in {"building", "going", "stopped", "ended", "recorded"},
         Moves(p, j, to), \A q \in Procs : OneEach(q)
  PROVE  /\ \A q \in Procs : OneEach(q)'
         /\ \A q \in Procs : \A l \in Driven(q)' : \E m \in Driven(q) :
              m.key = l.key /\ m.run = l.run /\ (q = p /\ to = "recorded" => m # j)
<1> DEFINE moved == [j EXCEPT !.at = to]
<1>1. j \in jobs[p] /\ j.at # "recorded"
  BY DEF Driven
<1>2. moved.key = j.key /\ moved.run = j.run /\ moved.at = to
  BY <1>1, JobType DEF Job
<1>3. jobs' = [jobs EXCEPT ![p] = (jobs[p] \ {j}) \cup {moved}]
  BY DEF Moves, Types
<1> HIDE DEF moved
<1>4. \A q \in Procs \ {p} : Driven(q)' = Driven(q)
  BY <1>3 DEF Driven, Types
<1>5. Driven(p)' \subseteq (Driven(p) \ {j}) \cup (IF to = "recorded" THEN {} ELSE {moved})
  BY <1>2, <1>3 DEF Driven, Types
<1>6. ASSUME NEW q \in Procs PROVE OneEach(q)'
  <2>1. CASE q # p
    BY <1>4, <2>1 DEF OneEach
  <2>2. CASE q = p
    <3>1. \A l \in Driven(p) \ {j} : ~(l.key = moved.key /\ l.run = moved.run)
      BY <1>2 DEF OneEach
    <3>2. \A l, m \in Driven(p) : l.key = m.key /\ l.run = m.run => l = m
      BY DEF OneEach
    <3>3. \A l, m \in Driven(p)' : l.key = m.key /\ l.run = m.run => l = m
      BY <1>5, <3>1, <3>2
    <3> QED
      BY <2>2, <3>3 DEF OneEach
  <2> QED
    BY <2>1, <2>2
<1>7. ASSUME NEW q \in Procs, NEW l \in Driven(q)'
      PROVE  \E m \in Driven(q) : m.key = l.key /\ m.run = l.run /\ (q = p /\ to = "recorded" => m # j)
  <2>1. CASE q # p
    BY <1>4, <1>7, <2>1
  <2>2. CASE q = p
    <3>1. CASE l \in Driven(p) \ {j}
      BY <2>2, <3>1
    <3>2. CASE to # "recorded" /\ l = moved
      BY <1>2, <2>2, <3>2
    <3> QED
      BY <1>5, <1>7, <2>2, <3>1, <3>2
  <2> QED
    BY <2>1, <2>2
<1> QED
  BY <1>6, <1>7

\* What is driven stays accounted for while the ledger, and who drives what, stay.
LEMMA StillDrives ==
  ASSUME Core, ~scene.hush, UNCHANGED ledger, \A q \in Procs : OneEach(q)',
         \A q \in Procs : \A l \in Driven(q)' : \E m \in Driven(q) : m.key = l.key /\ m.run = l.run
  PROVE  \A q \in Procs : Drives(q)'
<1> SUFFICES ASSUME NEW q \in Procs PROVE Accounts(q)'
  BY DEF Drives
<1>1. ASSUME NEW l \in Driven(q)' PROVE Accounted(q, l.key, l.run)'
  <2>1. PICK m \in Driven(q) : m.key = l.key /\ m.run = l.run
    BY <1>1
  <2>2. Accounted(q, l.key, l.run)
    BY <2>1 DEF Core, Drives, Accounts
  <2> QED
    BY <2>2 DEF Accounted, LastOf
<1> QED
  BY <1>1 DEF Accounts

\* A run's finished line ends the last attempt that names it, and no other.
LEMMA RecordEffect ==
  ASSUME Types, NEW p \in Procs, NEW j \in jobs[p], RecordFinished(p, j)
  PROVE  /\ ledger' \in LedgerType
         /\ \E end \in {"answer", "again"} :
              Rewritten(ledger, ledger', j.key, AttemptOf(ledger, j.key, j.run), end,
                        Added(ledger, j.key, j.run))
         /\ j.key \in Tickets /\ j.run \in Lines /\ Added(ledger, j.key, j.run) \in Nat
<1> DEFINE k == j.key
           r == j.run
           end == EndOf(RunState(j))
           c == Added(ledger, k, r)
<1>1. k \in Tickets /\ r \in Lines
  BY JobType
<1>2. ledger' = Closed(ledger, k, r, end, c)
  BY DEF RecordFinished
<1>3. end \in {"answer", "again"} /\ c \in Nat
  <2>1. RunState(j) \in State /\ ledger \in LedgerType
    BY <1>1 DEF Types, RunState
  <2> QED
    BY <1>1, <2>1, EndType, AddedType
<1> HIDE DEF end, c, k, r
<1>4. ledger' \in LedgerType /\ Rewritten(ledger, ledger', k, AttemptOf(ledger, k, r), end, c)
  <2>1. ledger \in LedgerType /\ ledger' = Closed(ledger, k, r, end, c)
    BY <1>2 DEF Types
  <2>2. k \in Tickets /\ r \in Lines /\ end \in {"answer", "again"} /\ c \in Nat
    BY <1>1, <1>3
  <2> QED
    BY <2>1, <2>2, CloseEffect
<1> QED
  BY <1>1, <1>3, <1>4 DEF k, r, c

\* A ledger with one line finished settles the one it was.
LEMMA FinishSettles ==
  ASSUME NEW old \in LedgerType, NEW new, NEW k \in Tickets, NEW i, NEW end \in {"answer", "again"}, NEW c \in Nat,
         Rewritten(old, new, k, i, end, c)
  PROVE  Settles(old, new)
<1>1. \A l \in Tickets : \A n \in DOMAIN old[l] : old[l][n] \in Attempts
  BY Indexed
<1>2. \A l \in Tickets : \A n \in DOMAIN old[l] : SameAttempt(old[l][n], new[l][n])
  <2> SUFFICES ASSUME NEW l \in Tickets, NEW n \in DOMAIN old[l]
               PROVE  SameAttempt(old[l][n], new[l][n])
    OBVIOUS
  <2>1. new[l][n] \in {Finished(old[l][n], end, c), old[l][n]}
    BY DEF Rewritten
  <2> QED
    BY <1>1, <2>1, FinishedSame DEF SameAttempt
<1>3. \A l \in Tickets : Len(old[l]) <= Len(new[l])
  <2>1. \A l \in Tickets : Len(old[l]) \in Nat
    BY Indexed
  <2> QED
    BY <2>1 DEF Rewritten
<1>4. \A l \in Tickets : Len(new[l]) = Len(old[l]) /\ DOMAIN new[l] = DOMAIN old[l]
  BY DEF Rewritten
<1> QED
  BY <1>2, <1>3, <1>4 DEF Settles, Follows

\* So does the one a run's finished line leaves.
LEMMA RecordSettles ==
  ASSUME Types, NEW p \in Procs, NEW j \in jobs[p], RecordFinished(p, j)
  PROVE  ledger' \in LedgerType /\ Settles(ledger, ledger')
<1> DEFINE k == j.key
           i == AttemptOf(ledger, k, j.run)
           c == Added(ledger, k, j.run)
<1>1. ledger' \in LedgerType /\ k \in Tickets /\ c \in Nat /\ ledger \in LedgerType
  BY RecordEffect DEF Types
<1>2. PICK end \in {"answer", "again"} : Rewritten(ledger, ledger', k, i, end, c)
  BY RecordEffect
<1> HIDE DEF k, i, c
<1> QED
  BY <1>1, <1>2, FinishSettles

\* A finished line is its own run's: the others stay accounted for.
LEMMA RecordDrives ==
  ASSUME Types, Core, ~scene.hush, NEW p \in Procs, NEW j \in jobs[p], RecordFinished(p, j)
  PROVE  \A q \in Procs : Drives(q)'
<1> DEFINE i == AttemptOf(ledger, j.key, j.run)
<1>1. Moves(p, j, "recorded") /\ j.at = "ended" /\ j.key \in Tickets
  BY JobType DEF RecordFinished
<1>2. \A l \in Tickets : \A n \in DOMAIN ledger[l] :
        ~(l = j.key /\ n = i) => ledger'[l][n] = ledger[l][n]
  BY RecordEffect DEF Rewritten
<1>3. ledger' \in LedgerType /\ Settles(ledger, ledger')
  BY RecordSettles
<1> HIDE DEF i
<1>6. j \in Driven(p)
  BY <1>1 DEF Driven
<1>7. \A q \in Procs : OneEach(q)
  BY DEF Core, Drives
<1>8. /\ \A q \in Procs : OneEach(q)'
      /\ \A q \in Procs : \A l \in Driven(q)' : \E m \in Driven(q) :
           m.key = l.key /\ m.run = l.run /\ (q = p => m # j)
  BY <1>1, <1>6, <1>7, MovesDriven
<1>9. ASSUME NEW q \in Procs, NEW l \in Driven(q)' PROVE Accounted(q, l.key, l.run)'
  <2>1. PICK m \in Driven(q) : m.key = l.key /\ m.run = l.run /\ (q = p => m # j)
    BY <1>8, <1>9
  <2>2. Accounted(q, m.key, m.run) /\ m.key \in Tickets
    BY JobType DEF Core, Drives, Accounts, Driven
  <2>3. ASSUME NEW n \in DOMAIN ledger[m.key], LastOf(ledger, m.key, m.run, n),
               ledger[m.key][n].pid = q, Open(ledger[m.key][n])
        PROVE  Open(ledger'[m.key][n])
    <3>1. CASE m.key = j.key /\ n = i
      <4>1. PICK o \in DOMAIN ledger[j.key] :
              LastOf(ledger, j.key, j.run, o) /\ ledger[j.key][o].pid = p /\ Open(ledger[j.key][o])
        BY <1>6 DEF Core, Drives, Accounts, Accounted
      <4>2. i = o
        BY <1>1, <4>1, LastIs DEF i, Types
      <4>3. m.run = j.run /\ q = p
        BY <2>3, <3>1, <4>1, <4>2 DEF LastOf
      <4>4. m = j
        BY <1>6, <1>7, <3>1, <4>3 DEF OneEach
      <4> QED
        BY <2>1, <4>3, <4>4
    <3>2. CASE ~(m.key = j.key /\ n = i)
      BY <1>2, <2>2, <2>3, <3>2
    <3> QED
      BY <3>1, <3>2
  <2>4. Accounted(q, m.key, m.run)'
    BY <1>3, <2>2, <2>3, StillAccounted
  <2> QED
    BY <2>1, <2>4
<1> QED
  BY <1>8, <1>9 DEF Drives, Accounts

\* Recovery settles the ledger.
LEMMA RecoverSettles ==
  ASSUME Shapes, NEW p \in Procs, NEW x \in todo[p], Recover(p, x)
  PROVE  ledger' \in LedgerType /\ Settles(ledger, ledger')
<1> DEFINE k == x[1]
           r == RunOf(p, x)
           i == AttemptOf(ledger, k, r)
           c == Added(read[p], k, r)
<1>1. k \in Tickets /\ c \in Nat
  <2>1. k \in Tickets /\ r \in Lines
    BY SeenIs
  <2>2. Types /\ read[p] \in LedgerType
    BY DEF Shapes, Formed, Types
  <2> HIDE DEF k, r
  <2> QED
    BY <2>1, <2>2, AddedType
<1>2. ledger' \in LedgerType /\ ledger \in LedgerType
  BY RecoverEffect DEF Shapes, Formed, Types
<1>3. PICK end \in {"answer", "again"} : Rewritten(ledger, ledger', k, i, end, c)
  BY RecoverEffect
<1> HIDE DEF k, r, i, c
<1> QED
  BY <1>1, <1>2, <1>3, FinishSettles

\* A tick closes what nobody drives, while none is quiet under a live process.
LEMMA RecoverDrives ==
  ASSUME Shapes, Core, ~scene.hush, NEW p \in Procs, NEW x \in todo[p], Recover(p, x)
  PROVE  \A q \in Procs : Drives(q)'
<1> DEFINE k == x[1]
           m == x[2]
           s == RunOf(p, x)
           i == AttemptOf(ledger, k, s)
<1>1. /\ k \in Tickets /\ m \in DOMAIN read[p][k] /\ s = read[p][k][m].run
      /\ read[p][k][m] \in Attempts /\ Open(read[p][k][m])
  BY SeenIs DEF Seen, RunOf
<1>2. ~Up(read[p][k][m].pid) /\ at[p] \in {"recover", "wrote"} /\ jobs' = jobs
  <2>1. Looks(p, x) /\ Lost(p, x)
    BY RecoverEffect
  <2>2. at[p] \in {"recover", "wrote"} /\ jobs' = jobs
    BY <2>1, LooksIs
  <2> QED
    BY <2>1, <2>2 DEF Lost, Orphaned, Seen
<1>3. read[p] \in LedgerType /\ ledger \in LedgerType /\ Placed /\ Types
  BY DEF Shapes, Formed, Types
<1>4. ledger' \in LedgerType /\ Settles(ledger, ledger')
  BY RecoverSettles
<1>5. \A l \in Tickets : \A n \in DOMAIN ledger[l] :
        ~(l = k /\ n = i) => ledger'[l][n] = ledger[l][n]
  BY RecoverEffect DEF Rewritten
<1> HIDE DEF k, m, s
<1>6. ASSUME NEW q \in Procs, NEW j \in Driven(q) PROVE Accounted(q, j.key, j.run)'
  <2> DEFINE h == j.key
             r == j.run
  <2>1. h \in Tickets /\ Accounted(q, h, r) /\ Up(q)
    BY <1>3, JobType DEF Core, Drives, Accounts, Driven, Placed
  <2> HIDE DEF h, r
  <2>2. ASSUME NEW n \in DOMAIN ledger[h], LastOf(ledger, h, r, n), ledger[h][n].pid = q, Open(ledger[h][n])
        PROVE  Open(ledger'[h][n])
    <3>1. SUFFICES ASSUME h = k, n = i PROVE FALSE
      BY <1>5, <2>1, <2>2
    <3>4. /\ Len(read[p][k]) \in Nat /\ DOMAIN read[p][k] = 1 .. Len(read[p][k])
          /\ Len(ledger[k]) \in Nat /\ DOMAIN ledger[k] = 1 .. Len(ledger[k])
      BY <1>1, <1>3, Indexed
    <3>5. Len(read[p][k]) <= Len(ledger[k]) /\ m \in DOMAIN ledger[k] /\ SameAttempt(read[p][k][m], ledger[k][m])
      BY <1>1, <3>4 DEF Core, Knows, Follows
    <3>6. i \in DOMAIN ledger[k] /\ ledger[k][i].run = s /\ m <= i
      BY <1>1, <1>3, <3>4, <3>5, LastNamed DEF SameAttempt
    <3> HIDE DEF i
    <3>7. CASE i = m
      <4>1. ledger[k][i].pid = read[p][k][m].pid
        BY <3>5, <3>7 DEF SameAttempt
      <4> QED
        BY <1>2, <2>1, <2>2, <3>1, <4>1
    <3>8. CASE m < i /\ i \in DOMAIN read[p][k]
      <4>1. read[p][k][i].run = read[p][k][m].run
        BY <1>1, <3>6, <3>8 DEF Core, Knows, Follows, SameAttempt
      <4> QED
        BY <1>1, <3>8, <4>1 DEF Core, Knows, Sound
    <3>9. CASE m < i /\ i > Len(read[p][k])
      <4>1. ledger[k][i].run = i
        BY <1>1, <1>2, <3>6, <3>9 DEF Core, Knows, Since, Decides
      <4>2. s <= m /\ s \in Int
        BY <1>1, AttemptType DEF Core, Knows, Sound, Lines
      <4> QED
        BY <3>4, <3>5, <3>6, <3>9, <4>1, <4>2
    <3> QED
      BY <3>4, <3>5, <3>6, <3>7, <3>8, <3>9
  <2>3. Accounted(q, h, r)'
    BY <1>3, <1>4, <2>1, <2>2, StillAccounted
  <2> QED
    BY <2>3 DEF h, r
<1>7. \A q \in Procs : Driven(q)' = Driven(q)
  BY <1>2 DEF Driven
<1> QED
  BY <1>6, <1>7 DEF Core, Drives, Accounts, OneEach

\* A step of one process that leaves the ledger as it is.
LEMMA QuietCore ==
  ASSUME Types, Core, UNCHANGED <<scene, ledger>>, NEW p \in Procs, Knows(p)', jobs'[p] \subseteq jobs[p],
         \A q \in Procs \ {p} : read'[q] = read[q] /\ at'[q] = at[q] /\ plan'[q] = plan[q] /\ jobs'[q] = jobs[q]
  PROVE  Core'
<1>1. ledger \in LedgerType
  BY DEF Types
<1>2. Settles(ledger, ledger')
  BY <1>1, FollowsItself
<1>3. ASSUME NEW q \in Procs PROVE Knows(q)'
  <2>1. CASE q = p
    BY <2>1
  <2>2. CASE q # p
    <3>1. Knows(q)
      BY DEF Core
    <3>2. \A k \in Tickets : Decides(q, k)' => Decides(q, k)
      BY <2>2 DEF Decides
    <3> QED
      BY <1>1, <1>2, <2>2, <3>1, <3>2, StillKnows
  <2> QED
    BY <2>1, <2>2
<1>4. \A q \in Procs : Driven(q)' \subseteq Driven(q)
  BY DEF Driven
<1>5. ASSUME ~scene.hush PROVE \A q \in Procs : Drives(q)'
  <2>1. \A q \in Procs : OneEach(q)'
    BY <1>4, <1>5 DEF Core, Drives, OneEach
  <2> QED
    BY <1>4, <1>5, <2>1, StillDrives
<1> QED
  BY <1>3, <1>5 DEF Core

\* Nothing was read, or all there is.
LEMMA ReadSound ==
  ASSUME Types, Core, UNCHANGED ledger, NEW p \in Procs,
         \/ read'[p] = read[p] \/ read'[p] = ledger \/ read'[p] = [k \in Tickets |-> << >>]
  PROVE  Sound(read'[p]) /\ Follows(read'[p], ledger')
<1>1. CASE read'[p] = read[p]
  BY <1>1 DEF Core, Knows
<1>2. CASE read'[p] = ledger
  BY <1>2, FollowsItself DEF Core, Types
<1>3. CASE read'[p] = [k \in Tickets |-> << >>]
  <2>1. \A k \in Tickets : Len(read'[p][k]) = 0 /\ DOMAIN read'[p][k] = {}
    BY <1>3
  <2>2. \A k \in Tickets : Len(ledger[k]) \in Nat
    BY Indexed DEF Types
  <2> QED
    BY <2>1, <2>2 DEF Sound, Follows
<1> QED
  BY <1>1, <1>2, <1>3

\* A process that decides nothing any more.
LEMMA IdleCore ==
  ASSUME Types, Core, UNCHANGED <<scene, ledger>>, NEW p \in Procs,
         at'[p] \notin {"recover", "wrote", "select", "launch"},
         \/ read'[p] = read[p] \/ read'[p] = ledger \/ read'[p] = [k \in Tickets |-> << >>],
         jobs'[p] \subseteq jobs[p],
         \A q \in Procs \ {p} : read'[q] = read[q] /\ at'[q] = at[q] /\ plan'[q] = plan[q] /\ jobs'[q] = jobs[q]
  PROVE  Core'
<1>1. Sound(read'[p]) /\ Follows(read'[p], ledger')
  BY ReadSound
<1>2. Since(p)' /\ Planned(p)'
  BY DEF Since, Decides, Planned
<1>3. Knows(p)'
  BY <1>1, <1>2 DEF Knows
<1> QED
  BY <1>3, QuietCore

\* A tick that reads, before it recovers or after it wrote.
LEMMA ReadKnows ==
  ASSUME Types, Core, UNCHANGED ledger, NEW p \in Procs, read'[p] = ledger, at'[p] # "launch"
  PROVE  Knows(p)'
<1>1. Sound(read'[p]) /\ Follows(read'[p], ledger')
  BY ReadSound
<1>2. Since(p)'
  <2>1. \A k \in Tickets : \A i \in DOMAIN ledger[k] : ~(i > Len(ledger[k]))
    BY Indexed DEF Types
  <2> QED
    BY <2>1 DEF Since
<1>3. Planned(p)'
  BY DEF Planned
<1> QED
  BY <1>1, <1>2, <1>3 DEF Knows

\* Reading the ledger disturbs nothing of Core.
LEMMA ReadCore ==
  ASSUME Types, Core, NEW p \in Procs, Read(p)
  PROVE  Core'
<1>1. /\ read' = [read EXCEPT ![p] = ledger] /\ at' = [at EXCEPT ![p] = "recover"]
      /\ UNCHANGED <<scene, plan, jobs, ledger>>
  BY DEF Read, Goes
<1>2. read'[p] = ledger /\ at'[p] = "recover"
  BY <1>1 DEF Types, WatcherTypes
<1>3. Knows(p)'
  BY <1>1, <1>2, ReadKnows
<1> QED
  BY <1>1, <1>3, QuietCore DEF Types, WatcherTypes

\* Nor does the end of recovery.
LEMMA RecoveredCore ==
  ASSUME Types, Core, NEW p \in Procs, Recovered(p)
  PROVE  Core'
<1>1. /\ at[p] \in {"recover", "wrote"} /\ at' = [at EXCEPT ![p] = "select"]
      /\ UNCHANGED <<scene, plan, jobs, ledger>>
      /\ \E led \in {ledger, read[p]} : read' = [read EXCEPT ![p] = led]
  BY DEF Recovered, Goes, Types
<1>2. /\ at'[p] = "select" /\ read'[p] \in {ledger, read[p]}
      /\ \A q \in Procs \ {p} : at'[q] = at[q] /\ read'[q] = read[q]
  BY <1>1 DEF Types, WatcherTypes
<1>3. Knows(p)'
  <2>1. CASE read'[p] = ledger
    BY <1>1, <1>2, <2>1, ReadKnows
  <2>2. CASE read'[p] = read[p]
    <3>1. Knows(p) /\ \A k \in Tickets : Decides(p, k)
      BY <1>1 DEF Core, Decides
    <3>2. Settles(ledger, ledger') /\ ledger' \in LedgerType
      BY <1>1, FollowsItself DEF Types
    <3> QED
      BY <1>2, <2>2, <3>1, <3>2, StillKnows
  <2> QED
    BY <1>2, <2>1, <2>2
<1> QED
  BY <1>1, <1>2, <1>3, QuietCore

\* Choosing the day's tickets disturbs nothing of Core.
LEMMA SelectCore ==
  ASSUME Types, Core, NEW p \in Procs, Select(p)
  PROVE  Core'
<1>1. at[p] = "select" /\ UNCHANGED <<scene, read, jobs, ledger>>
  BY DEF Select
<1>2. CASE at' = [at EXCEPT ![p] = "end"] /\ UNCHANGED plan
  BY <1>1, <1>2, IdleCore DEF Types, WatcherTypes
<1>3. CASE at' = [at EXCEPT ![p] = "launch"] /\ \E ks \in SUBSET Wanted(read[p]) : plan' = [plan EXCEPT ![p] = ks]
  <2>1. PICK ks \in SUBSET Wanted(read[p]) : plan' = [plan EXCEPT ![p] = ks]
    BY <1>3
  <2>2. at'[p] = "launch" /\ plan'[p] = ks
    BY <1>3, <2>1 DEF Types, WatcherTypes
  <2>3. Knows(p)
    BY DEF Core
  <2>4. Since(p)'
    BY <1>1, <2>3 DEF Knows, Since, Decides
  <2>5. \A k \in ks : read[p][k] = << >> \/ (Len(read[p][k]) < MaxAttempts /\ ~Open(Latest(read[p], k)))
    BY DEF Wanted, Retryable, Open
  <2>6. Planned(p)'
    BY <1>1, <2>2, <2>5 DEF Planned, Latest
  <2>7. Knows(p)'
    BY <1>1, <2>3, <2>4, <2>6 DEF Knows
  <2> QED
    BY <1>1, <1>3, <2>1, <2>7, QuietCore DEF Types, WatcherTypes
<1> QED
  BY <1>2, <1>3 DEF Select, Goes

\* Recovery keeps Core: what it closes is settled in the ledger.
LEMMA RecoverKnows ==
  ASSUME Shapes, Core, NEW p \in Procs, NEW x \in todo[p], Recover(p, x)
  PROVE  Core'
<1>1. ledger' \in LedgerType /\ Settles(ledger, ledger') /\ Types
  BY RecoverSettles DEF Shapes, Formed
<1>2. ~scene.hush => \A q \in Procs : Drives(q)'
  BY RecoverDrives
<1>3. Looks(p, x) /\ at' = [at EXCEPT ![p] = "wrote"]
  BY RecoverEffect
<1>4. at[p] \in {"recover", "wrote"} /\ UNCHANGED <<scene, read, plan>>
  BY <1>3, LooksIs
<1>5. Sound(ledger')
  BY <1>1, SettledSound DEF Core, Types
<1>6. ASSUME NEW q \in Procs PROVE Knows(q)'
  <2>1. Knows(q)
    BY DEF Core
  <2>2. (at'[q] = "launch" => at[q] = "launch") /\ \A k \in Tickets : Decides(q, k)' => Decides(q, k)
    BY <1>1, <1>3, <1>4 DEF Decides, Types, WatcherTypes
  <2> QED
    BY <1>1, <1>4, <2>1, <2>2, StillKnows
<1> QED
  BY <1>2, <1>4, <1>5, <1>6 DEF Core

\* Recording the end of a run keeps Core, whatever the watcher had read before it.
LEMMA RecordKnows ==
  ASSUME Types, Core, NEW p \in Procs, NEW j \in jobs[p], RecordFinished(p, j)
  PROVE  Core'
<1>1. ledger' \in LedgerType /\ Settles(ledger, ledger')
  BY RecordSettles
<1>2. UNCHANGED <<scene, at, read, plan>>
  BY DEF RecordFinished, watcher
<1>3. Sound(ledger')
  BY <1>1, SettledSound DEF Core, Types
<1>4. ASSUME NEW q \in Procs PROVE Knows(q)'
  <2>1. Knows(q) /\ \A k \in Tickets : Decides(q, k)' => Decides(q, k)
    BY <1>2 DEF Core, Decides
  <2> QED
    BY <1>1, <1>2, <2>1, StillKnows
<1>5. ~scene.hush => \A q \in Procs : Drives(q)'
  BY RecordDrives
<1> QED
  BY <1>2, <1>3, <1>4, <1>5 DEF Core

\* A launch by the one that ticks, or by hand: what the others know stays true.
LEMMA LaunchKnows ==
  ASSUME Types, Core, NEW p \in Procs, NEW k \in Tickets, NEW no \in Lines, NEW r, NEW spent \in Nat, Launched(p, k, no, r, spent),
         Startable(k, r), UNCHANGED scene,
         \A q \in Procs \ {p} : at'[q] = at[q] /\ plan'[q] = plan[q] /\ read'[q] = read[q],
         \/ at[p] = "launch" /\ at'[p] = "launch" /\ plan'[p] = plan[p] \ {k} /\ read'[p] = read[p]
         \/ at'[p] = "done" /\ read'[p] = [l \in Tickets |-> << >>],
         (\A q \in Procs \ {p} : ~Tick(q)) \/ r = Len(ledger[k]) + 1
  PROVE  Core'
<1> DEFINE n == Len(ledger[k])
<1>1. ledger' \in LedgerType /\ Sound(ledger') /\ Follows(ledger, ledger')
  BY LaunchCore
<1>2. ~scene.hush => \A q \in Procs : Drives(q)'
  BY LaunchDrives
<1>3. /\ \A l \in Tickets \ {k} : ledger'[l] = ledger[l]
      /\ DOMAIN ledger'[k] = 1 .. n + 1 /\ \A i \in DOMAIN ledger[k] : ledger'[k][i] = ledger[k][i]
      /\ ledger'[k][n + 1].run = r
  <2> DEFINE a == [pid |-> p, run |-> r, no |-> no, end |-> "open", cost |-> 0]
  <2>1. a \in Attempts /\ a.run = r
    BY LaunchTypes
  <2>2. ledger' = [ledger EXCEPT ![k] = Append(ledger[k], a)]
    BY DEF Launched
  <2> HIDE DEF a
  <2> QED
    BY <2>1, <2>2, AppendEffect DEF Types
<1>4. n \in Nat /\ DOMAIN ledger[k] = 1 .. n
  BY Indexed DEF Types
<1>5. ASSUME NEW q \in Procs, read'[q] = read[q], q = p => at[p] = "launch" /\ at'[p] = "launch" /\ plan'[p] = plan[p] \ {k}
      PROVE  Knows(q)'
  <2>1. Knows(q) /\ Sound(read'[q])
    BY <1>5 DEF Core, Knows
  <2>2. Follows(read'[q], ledger')
    BY <1>1, <1>5, <2>1, FollowsOn DEF Knows, Types
  <2>3. Planned(q)'
    BY <1>5, <2>1 DEF Knows, Planned, Latest
  <2>4. Since(q)'
    <3>1. SUFFICES ASSUME NEW l \in Tickets, Decides(q, l)', NEW i \in DOMAIN ledger'[l], i > Len(read[q][l])
                   PROVE  ledger'[l][i].run = i
      BY <1>5 DEF Since
    <3>2. Decides(q, l) /\ (q = p => l # k)
      BY <1>5, <3>1 DEF Decides
    <3>3. CASE l # k
      BY <1>3, <2>1, <3>1, <3>2, <3>3 DEF Knows, Since
    <3>4. CASE l = k /\ i # n + 1
      <4>1. i \in DOMAIN ledger[k] /\ ledger'[k][i] = ledger[k][i]
        BY <1>3, <1>4, <3>1, <3>4
      <4> QED
        BY <2>1, <3>1, <3>2, <3>4, <4>1 DEF Knows, Since
    <3>5. CASE l = k /\ i = n + 1
      <4>1. q # p /\ Tick(q)
        BY <3>2, <3>5 DEF Decides, Tick
      <4> QED
        BY <1>3, <3>5, <4>1
    <3> QED
      BY <3>3, <3>4, <3>5
  <2> QED
    BY <2>1, <2>2, <2>3, <2>4 DEF Knows
<1>6. ASSUME at'[p] = "done", read'[p] = [l \in Tickets |-> << >>] PROVE Knows(p)'
  <2>1. \A l \in Tickets : Len(read'[p][l]) = 0 /\ DOMAIN read'[p][l] = {}
    BY <1>6
  <2>2. \A l \in Tickets : Len(ledger'[l]) \in Nat
    BY <1>1, Indexed
  <2>3. Sound(read'[p]) /\ Follows(read'[p], ledger')
    BY <2>1, <2>2 DEF Sound, Follows
  <2> QED
    BY <1>6, <2>3 DEF Knows, Since, Decides, Planned
<1>7. \A q \in Procs : Knows(q)'
  BY <1>5, <1>6
<1> QED
  BY <1>1, <1>2, <1>7 DEF Core

\* Every step keeps it, while one process ticks at a time.
LEMMA NextCore ==
  ASSUME Shapes, Core, OneWatcher, [Next]_vars
  PROVE  Core'
<1> USE DEF Shapes, Formed
<1>t. at \in [Procs -> Places] /\ read \in [Procs -> LedgerType] /\ jobs \in [Procs -> SUBSET Job]
  BY DEF Types, WatcherTypes
<1>u. scene' = scene
  BY SceneKept
<1>1. ASSUME NEW p \in Procs, Pass(p) \/ Create(p) \/ Judge(p) \/ Remove(p) PROVE Core'
  <2>1. /\ UNCHANGED <<read, plan, jobs, ledger>>
        /\ \E to \in {"read", "take", "look", "remove", "idle", "done"} : at' = [at EXCEPT ![p] = to]
    BY <1>1 DEF Pass, Create, Judge, Remove, Refused, Goes
  <2> QED
    BY <1>t, <1>u, <2>1, IdleCore
<1>2. ASSUME NEW p \in Procs, EndTick(p) PROVE Core'
  <2>1. /\ read' = [read EXCEPT ![p] = [k \in Tickets |-> << >>]] /\ plan' = [plan EXCEPT ![p] = {}]
        /\ UNCHANGED <<jobs, ledger>> /\ \E to \in {"idle", "done"} : at' = [at EXCEPT ![p] = to]
    BY <1>2 DEF EndTick, Goes
  <2> DEFINE none == [k \in Tickets |-> << >>]
  <2>2. /\ read'[p] = none /\ at'[p] \in {"idle", "done"}
        /\ \A q \in Procs \ {p} : read'[q] = read[q] /\ at'[q] = at[q] /\ plan'[q] = plan[q]
    <3> HIDE DEF none
    <3>1. read' = [read EXCEPT ![p] = none]
      BY <2>1 DEF none
    <3> QED
      BY <1>t, <2>1, <3>1 DEF Types, WatcherTypes
  <2> QED
    BY <1>u, <2>1, <2>2, IdleCore
<1>3. ASSUME NEW p \in Procs, Die(p) PROVE Core'
  <2>1. /\ read' = [read EXCEPT ![p] = [k \in Tickets |-> << >>]] /\ plan' = [plan EXCEPT ![p] = {}]
        /\ jobs' = [jobs EXCEPT ![p] = {}] /\ ledger' = ledger /\ at' = [at EXCEPT ![p] = "idle"]
    BY <1>3 DEF Die
  <2> DEFINE none == [k \in Tickets |-> << >>]
  <2>2. /\ read'[p] = none /\ at'[p] = "idle" /\ jobs'[p] = {}
        /\ \A q \in Procs \ {p} : read'[q] = read[q] /\ at'[q] = at[q] /\ plan'[q] = plan[q] /\ jobs'[q] = jobs[q]
    <3> HIDE DEF none
    <3>1. read' = [read EXCEPT ![p] = none]
      BY <2>1 DEF none
    <3> QED
      BY <1>t, <2>1, <3>1 DEF Types, WatcherTypes
  <2> QED
    BY <1>u, <2>1, <2>2, IdleCore
<1>4. ASSUME NEW p \in Procs, NEW k \in Tickets, AskRun(p, k) PROVE Core'
  <2>1. /\ UNCHANGED <<jobs, ledger>>
        /\ \/ at' = [at EXCEPT ![p] = "done"] /\ UNCHANGED <<read, plan>>
           \/ /\ at' = [at EXCEPT ![p] = "asked"] /\ read' = [read EXCEPT ![p] = ledger]
              /\ plan' = [plan EXCEPT ![p] = {k}]
    BY <1>4, AskRunIs
  <2>2. /\ read'[p] \in {ledger, read[p]} /\ at'[p] \in {"done", "asked"}
        /\ \A q \in Procs \ {p} : read'[q] = read[q] /\ at'[q] = at[q] /\ plan'[q] = plan[q]
    BY <1>t, <2>1 DEF Types, WatcherTypes
  <2> QED
    BY <1>u, <2>1, <2>2, IdleCore
<1>5. ASSUME NEW p \in Procs, Begin(p) \/ Leave(p) PROVE Core'
  <2>1. UNCHANGED <<at, read, plan, jobs, ledger>>
    BY <1>5 DEF Begin, Leave
  <2>2. at[p] \notin {"recover", "wrote", "select", "launch"}
    BY <1>5 DEF Begin, Leave, Placed
  <2> QED
    BY <1>u, <2>1, <2>2, IdleCore
<1>6. ASSUME NEW p \in Procs, NEW k \in Tickets, Start(p, k) PROVE Core'
  <2> DEFINE no == Len(read[p][k]) + 1
  <2>1. /\ at[p] = "launch" /\ k \in plan[p]
        /\ plan' = [plan EXCEPT ![p] = plan[p] \ {k}] /\ UNCHANGED <<at, read>> /\ no \in Lines
        /\ usd[p] \in Nat
    BY <1>6, StartIs
  <2>2. PICK r : Launched(p, k, no, r, usd[p])
    BY <1>6, StartIs
  <2>3. Startable(k, r)
    BY <2>1, <2>2, PlannedStartable
  <2>4. \A q \in Procs \ {p} : ~Tick(q)
    BY <2>1 DEF OneWatcher, Tick
  <2>5. plan'[p] = plan[p] \ {k} /\ \A q \in Procs \ {p} : plan'[q] = plan[q]
    BY <2>1 DEF Types, WatcherTypes
  <2> HIDE DEF no
  <2> QED
    BY <1>u, <2>1, <2>2, <2>3, <2>4, <2>5, LaunchKnows
<1>7. ASSUME NEW p \in Procs, NEW k \in Tickets, RunOne(p, k) PROVE Core'
  <2> DEFINE none == [l \in Tickets |-> << >>]
             spent == USDToday(read[p])
  <2>1. /\ at' = [at EXCEPT ![p] = "done"] /\ read' = [read EXCEPT ![p] = none]
        /\ plan' = [plan EXCEPT ![p] = {}]
    BY <1>7, RunOneIs
  <2>2. /\ at'[p] = "done" /\ read'[p] = none
        /\ \A q \in Procs \ {p} : at'[q] = at[q] /\ plan'[q] = plan[q] /\ read'[q] = read[q]
    <3> HIDE DEF none
    <3> QED
      BY <1>t, <2>1 DEF Types, WatcherTypes
  <2>3. CASE UNCHANGED <<jobs, ledger>>
    BY <1>u, <2>2, <2>3, IdleCore
  <2>4. CASE /\ Len(read[p][k]) + 1 \in Lines /\ spent \in Nat
             /\ Launched(p, k, Len(read[p][k]) + 1, Len(ledger[k]) + 1, spent)
    <3>1. Startable(k, Len(ledger[k]) + 1)
      BY NewStartable
    <3> HIDE DEF spent
    <3> QED
      BY <1>u, <2>2, <2>4, <3>1, LaunchKnows
  <2> QED
    BY <1>7, <2>3, <2>4, RunOneIs
<1>8. ASSUME UNCHANGED <<at, read, plan, ledger>>,
             ~scene.hush => /\ \A q \in Procs : OneEach(q)'
                            /\ \A q \in Procs : \A l \in Driven(q)' : \E m \in Driven(q) :
                                 m.key = l.key /\ m.run = l.run
      PROVE  Core'
  <2>1. ~scene.hush => \A q \in Procs : Drives(q)'
    BY <1>8, StillDrives
  <2>2. \A q \in Procs : Knows(q)'
    BY <1>8 DEF Core, Knows, Since, Decides, Planned, Latest
  <2> QED
    BY <1>8, <1>u, <2>1, <2>2 DEF Core
<1>9. ASSUME NEW p \in Procs, NEW j \in Driven(p), UNCHANGED <<at, read, plan, ledger>>,
             NEW to \in {"building", "going", "stopped", "ended", "recorded"}, Moves(p, j, to)
      PROVE  Core'
  <2>1. ASSUME ~scene.hush
        PROVE  /\ \A q \in Procs : OneEach(q)'
               /\ \A q \in Procs : \A l \in Driven(q)' : \E m \in Driven(q) :
                    m.key = l.key /\ m.run = l.run
    <3>1. \A q \in Procs : OneEach(q)
      BY <2>1 DEF Core, Drives
    <3> QED
      BY <1>9, <3>1, MovesDriven
  <2> QED
    BY <1>8, <1>9, <2>1
<1>10. ASSUME \A q \in Procs : jobs'[q] \subseteq jobs[q], UNCHANGED <<at, read, plan, ledger>> PROVE Core'
  <2>1. \A q \in Procs : Driven(q)' \subseteq Driven(q)
    BY <1>10 DEF Driven
  <2>2. ~scene.hush => \A q \in Procs : OneEach(q)'
    BY <2>1 DEF Core, Drives, OneEach
  <2> QED
    BY <1>8, <1>10, <2>1, <2>2
<1>11. ASSUME NEW p \in Procs, NEW j \in jobs[p], Prepare(p, j) \/ Spend(p, j) \/ Settle(p, j) PROVE Core'
  <2>1. j \in Driven(p) /\ UNCHANGED <<at, read, plan, ledger>>
    BY <1>11 DEF Driven, Prepare, Spend, Settle, watcher
  <2>2. UNCHANGED jobs \/ \E to \in {"going", "stopped", "ended"} : Moves(p, j, to)
    BY <1>11, DiskEffect DEF Prepare, Settle
  <2>3. CASE UNCHANGED jobs
    BY <1>10, <2>1, <2>3
  <2> QED
    BY <1>9, <2>1, <2>2, <2>3
<1>12. ASSUME NEW p \in Procs, NEW j \in jobs[p], Done(p, j) PROVE Core'
  <2>1. UNCHANGED <<at, read, plan, ledger>> /\ \A q \in Procs : jobs'[q] \subseteq jobs[q]
    BY <1>t, <1>12 DEF Done
  <2> QED
    BY <1>10, <2>1
<1>13. ASSUME UNCHANGED vars PROVE Core'
  BY <1>10, <1>13
<1>14. ASSUME NEW p \in Procs, Driving(p) PROVE Core'
  BY <1>11, <1>12, <1>14, RecordKnows DEF Driving
<1>15. ASSUME NEW p \in Procs, NEW x \in todo[p], RecoverFails(p, x) \/ PassOver(p, x) PROVE Core'
  <2>1. Looks(p, x) /\ UNCHANGED <<at, ledger>>
    BY <1>15 DEF RecoverFails, PassOver
  <2>2. UNCHANGED <<read, plan, jobs>>
    BY <2>1, LooksIs
  <2> QED
    BY <1>10, <2>1, <2>2
<1>16. ASSUME NEW p \in Procs, Ticking(p) PROVE Core'
  BY <1>2, <1>6, <1>15, <1>16, ReadCore, RecoverKnows, RecoveredCore, SelectCore DEF Ticking, Recovering
<1> QED
  BY <1>1, <1>3, <1>4, <1>5, <1>7, <1>13, <1>14, <1>16 DEF Next, Watching

\* The initial state satisfies Core.
LEMMA InitCore == Init => Core
<1> SUFFICES ASSUME Init PROVE Core
  OBVIOUS
<1>1. /\ \A p \in Procs : Driven(p) = {} /\ at[p] = "idle"
      /\ ledger = [k \in Tickets |-> << >>] /\ \A p \in Procs : read[p] = ledger
  BY DEF Init, Driven
<1>2. \A k \in Tickets : Len(ledger[k]) = 0 /\ DOMAIN ledger[k] = {}
  BY <1>1
<1>3. Sound(ledger) /\ Follows(ledger, ledger)
  BY <1>2 DEF Sound, Follows
<1>4. \A p \in Procs : Knows(p)
  BY <1>1, <1>3 DEF Knows, Since, Decides, Planned
<1> QED
  BY <1>1, <1>3, <1>4 DEF Core, Drives, Accounts, OneEach

\* No tick closes an attempt that a process is still driving.
LEMMA CoreCloses == Types /\ Core => ClosedByItsOwn
<1> SUFFICES ASSUME Types, Core, ~scene.hush, NEW p \in Procs, NEW j \in Driven(p)
             PROVE  Open(ledger[j.key][AttemptOf(ledger, j.key, j.run)])
  BY DEF ClosedByItsOwn
<1>1. j.key \in Tickets
  BY JobType DEF Driven
<1>2. PICK i \in DOMAIN ledger[j.key] : LastOf(ledger, j.key, j.run, i) /\ Open(ledger[j.key][i])
  BY DEF Core, Drives, Accounts, Accounted
<1>3. AttemptOf(ledger, j.key, j.run) = i
  BY <1>1, <1>2, LastIs DEF Types
<1> QED
  BY <1>2, <1>3

\* The watchers' runs and the ledger are in step.
CoreInv == Shapes /\ Core

\* CoreInv is inductive under one watcher at a time.
LEMMA CoreInductive ==
  /\ Init => CoreInv
  /\ CoreInv /\ OneWatcher /\ [Next]_vars => CoreInv'
BY InitShapes, InitCore, NextShapes, NextCore DEF CoreInv

\* While one process watches at a time, and no run goes quiet under a live process
\* for longer than it may run, no tick closes an attempt that a process is still
\* driving, run by hand or not, however old what it read of it is.
THEOREM NoneClosedUnderWay == Spec /\ []OneWatcher => []ClosedByItsOwn
<1>1. Init => CoreInv
  BY CoreInductive
<1>2. CoreInv /\ OneWatcher /\ [Next]_vars => CoreInv'
  BY CoreInductive
<1>3. CoreInv => ClosedByItsOwn
  BY CoreCloses DEF CoreInv, Shapes, Formed
<1> QED
  BY <1>1, <1>2, <1>3, PTL DEF Spec

-----------------------------------------------------------------------------
(* The attempts of a ticket that only watchers try.                         *)

\* They are numbered in order, and only the last may be under way.
OnlyLast(led) ==
  \A k \in Tickets : \A i \in DOMAIN led[k] :
    led[k][i].no = i /\ (i < Len(led[k]) => ~Open(led[k][i]))

\* The day's numbers are kept, with what a tick still means to start.
Day ==
  /\ OnlyLast(ledger) /\ RunsToday(ledger) <= scene.maxPerDay
  /\ \A k \in Tickets : Len(ledger[k]) <= MaxAttempts
Ticked(p) ==
  /\ OnlyLast(read[p])
  /\ \A k \in Tickets : Decides(p, k) => Len(read[p][k]) = Len(ledger[k])
  /\ at[p] = "launch" => RunsToday(ledger) + Firsts(ledger, plan[p]) <= scene.maxPerDay
Ticks == Day /\ \A p \in Procs : Ticked(p)

\* Ledgers with the same attempts count the same.
LEMMA SameCounts ==
  ASSUME NEW a \in LedgerType, NEW b \in LedgerType, NEW ks \in SUBSET Tickets,
         \A k \in Tickets : Len(a[k]) = Len(b[k]) /\ \A i \in DOMAIN a[k] : a[k][i].no = b[k][i].no
  PROVE  RunsToday(a) = RunsToday(b) /\ Firsts(a, ks) = Firsts(b, ks)
<1>1. \A k \in Tickets : /\ Len(a[k]) \in Nat /\ DOMAIN a[k] = 1 .. Len(a[k])
                         /\ Len(b[k]) \in Nat /\ DOMAIN b[k] = 1 .. Len(b[k])
                         /\ a[k] \in Seq(Attempts) /\ b[k] \in Seq(Attempts)
  BY Indexed
<1>2. \A x \in Tickets \X Lines : (x[2] \in DOMAIN a[x[1]] /\ a[x[1]][x[2]].no = 1)
                                    <=> (x[2] \in DOMAIN b[x[1]] /\ b[x[1]][x[2]].no = 1)
  BY <1>1
<1>3. {x \in Tickets \X Lines : x[2] \in DOMAIN a[x[1]] /\ a[x[1]][x[2]].no = 1}
        = {x \in Tickets \X Lines : x[2] \in DOMAIN b[x[1]] /\ b[x[1]][x[2]].no = 1}
  BY <1>2
<1>4. \A k \in Tickets : a[k] = << >> <=> b[k] = << >>
  BY <1>1
<1>5. {k \in ks : a[k] = << >>} = {k \in ks : b[k] = << >>}
  BY <1>4
<1> QED
  BY <1>3, <1>5 DEF RunsToday, Firsts

\* The day's counts are naturals, counted over finite sets.
LEMMA CountsType ==
  ASSUME NEW led \in LedgerType, NEW ks \in SUBSET Tickets
  PROVE  /\ RunsToday(led) \in Nat /\ Firsts(led, ks) \in Nat
         /\ IsFiniteSet({x \in Tickets \X Lines : x[2] \in DOMAIN led[x[1]] /\ led[x[1]][x[2]].no = 1})
         /\ IsFiniteSet({k \in ks : led[k] = << >>})
<1>1. IsFiniteSet(Tickets \X Lines) /\ IsFiniteSet(Tickets)
  BY LinesFinite, ShadowAssumption, FS_Product
<1>2. /\ IsFiniteSet({x \in Tickets \X Lines : x[2] \in DOMAIN led[x[1]] /\ led[x[1]][x[2]].no = 1})
      /\ IsFiniteSet({k \in ks : led[k] = << >>})
  BY <1>1, FS_Subset
<1> QED
  BY <1>2, FS_CardinalityType DEF RunsToday, Firsts

\* A first attempt more is a run more today, and one less that is meant.
LEMMA OneMoreRun ==
  ASSUME NEW old \in LedgerType, NEW new \in LedgerType, NEW k \in Tickets, NEW ks \in SUBSET Tickets, k \in ks,
         NEW a \in Attempts, a.no = Len(old[k]) + 1,
         \A l \in Tickets \ {k} : new[l] = old[l],
         DOMAIN new[k] = 1 .. Len(old[k]) + 1, \A i \in DOMAIN old[k] : new[k][i] = old[k][i],
         new[k][Len(old[k]) + 1] = a, Len(old[k]) + 1 \in Lines
  PROVE  RunsToday(new) + Firsts(new, ks \ {k}) = RunsToday(old) + Firsts(old, ks)
<1> DEFINE n == Len(old[k])
           runs(led) == {x \in Tickets \X Lines : x[2] \in DOMAIN led[x[1]] /\ led[x[1]][x[2]].no = 1}
           firsts(led, s) == {l \in s : led[l] = << >>}
<1>1. n \in Nat /\ DOMAIN old[k] = 1 .. n /\ old[k] \in Seq(Attempts) /\ new[k] \in Seq(Attempts)
  BY Indexed
<1>2. new[k] # << >>
  BY <1>1
<1>3. /\ RunsToday(old) \in Nat /\ RunsToday(new) \in Nat
      /\ Firsts(old, ks) \in Nat /\ Firsts(new, ks \ {k}) \in Nat
      /\ IsFiniteSet(runs(old)) /\ IsFiniteSet(firsts(old, ks))
      /\ IsFiniteSet(runs(new)) /\ IsFiniteSet(firsts(new, ks \ {k}))
  BY CountsType
<1>4. /\ RunsToday(old) = Cardinality(runs(old)) /\ RunsToday(new) = Cardinality(runs(new))
      /\ Firsts(old, ks) = Cardinality(firsts(old, ks))
      /\ Firsts(new, ks \ {k}) = Cardinality(firsts(new, ks \ {k}))
  BY DEF RunsToday, Firsts
<1>5. firsts(new, ks \ {k}) = firsts(old, ks) \ {k}
  BY <1>2
<1>6. CASE n = 0
  <2>1. k \in firsts(old, ks)
    BY <1>1, <1>6
  <2>2. <<k, 1>> \notin runs(old) /\ runs(new) = runs(old) \cup {<<k, 1>>}
    <3>1. DOMAIN old[k] = {} /\ DOMAIN new[k] = {1} /\ new[k][1].no = 1 /\ 1 \in Lines
      BY <1>1, <1>6
    <3>2. <<k, 1>> \notin runs(old) /\ <<k, 1>> \in runs(new)
      BY <3>1
    <3>3. ASSUME NEW x \in Tickets \X Lines, x # <<k, 1>> PROVE x \in runs(new) <=> x \in runs(old)
      <4>1. CASE x[1] = k
        <5>1. x[2] # 1
          BY <3>3, <4>1
        <5> QED
          BY <3>1, <4>1, <5>1
      <4>2. CASE x[1] # k
        <5>1. new[x[1]] = old[x[1]]
          BY <4>2
        <5> QED
          BY <5>1
      <4> QED
        BY <4>1, <4>2
    <3>4. runs(new) \subseteq Tickets \X Lines /\ runs(old) \subseteq Tickets \X Lines
      OBVIOUS
    <3> HIDE DEF runs
    <3> QED
      BY <3>2, <3>3, <3>4
  <2> HIDE DEF runs, firsts
  <2>3. Cardinality(runs(new)) = Cardinality(runs(old)) + 1
    BY <1>3, <2>2, FS_AddElement
  <2>4. Cardinality(firsts(old, ks) \ {k}) = Cardinality(firsts(old, ks)) - 1
    BY <1>3, <2>1, FS_RemoveElement
  <2>5. RunsToday(new) = RunsToday(old) + 1 /\ Firsts(new, ks \ {k}) = Firsts(old, ks) - 1
    BY <1>4, <1>5, <2>3, <2>4
  <2> QED
    BY <1>3, <2>5
<1>7. CASE n # 0
  <2>1. firsts(old, ks) \ {k} = firsts(old, ks)
    BY <1>1, <1>7
  <2>2. runs(new) = runs(old)
    <3>1. new[k][n + 1].no # 1
      BY <1>1, <1>7
    <3>2. ASSUME NEW x \in Tickets \X Lines PROVE x \in runs(new) <=> x \in runs(old)
      <4>1. CASE x[1] = k
        <5>1. CASE x[2] = n + 1
          BY <1>1, <3>1, <4>1, <5>1
        <5>2. CASE x[2] # n + 1
          <6>1. x[2] \in DOMAIN new[k] <=> x[2] \in DOMAIN old[k]
            BY <1>1, <5>2 DEF Lines
          <6> QED
            BY <4>1, <6>1
        <5> QED
          BY <5>1, <5>2
      <4>2. CASE x[1] # k
        <5>1. new[x[1]] = old[x[1]]
          BY <4>2
        <5> QED
          BY <5>1
      <4> QED
        BY <4>1, <4>2
    <3>3. runs(new) \subseteq Tickets \X Lines /\ runs(old) \subseteq Tickets \X Lines
      OBVIOUS
    <3> HIDE DEF runs
    <3> QED
      BY <3>2, <3>3
  <2> HIDE DEF runs, firsts
  <2> QED
    BY <1>3, <1>4, <1>5, <2>1, <2>2
<1> QED
  BY <1>6, <1>7

\* Lines that are finished change none of it.
LEMMA SettledTicks ==
  ASSUME Types, ledger' \in LedgerType, UNCHANGED scene, Ticks, Settles(ledger, ledger')
  PROVE  /\ Day'
         /\ \A ks \in SUBSET Tickets :
              RunsToday(ledger') = RunsToday(ledger) /\ Firsts(ledger', ks) = Firsts(ledger, ks)
         /\ \A q \in Procs : /\ read'[q] = read[q] /\ \A k \in Tickets : Decides(q, k)' => Decides(q, k)
                             /\ at'[q] = "launch" => at[q] = "launch" /\ plan'[q] = plan[q]
                             => Ticked(q)'
<1>1. /\ \A k \in Tickets : Len(ledger'[k]) = Len(ledger[k]) /\ DOMAIN ledger'[k] = DOMAIN ledger[k]
      /\ \A k \in Tickets : \A i \in DOMAIN ledger[k] :
           ledger'[k][i].no = ledger[k][i].no /\ (Open(ledger'[k][i]) => Open(ledger[k][i]))
  BY DEF Settles, Follows, SameAttempt
<1>2. \A ks \in SUBSET Tickets :
        RunsToday(ledger') = RunsToday(ledger) /\ Firsts(ledger', ks) = Firsts(ledger, ks)
  <2> DEFINE new == ledger'
  <2>1. /\ new \in LedgerType /\ ledger \in LedgerType
        /\ \A k \in Tickets : Len(ledger[k]) = Len(new[k]) /\ \A i \in DOMAIN ledger[k] : ledger[k][i].no = new[k][i].no
    BY <1>1 DEF Types
  <2> HIDE DEF new
  <2>2. ASSUME NEW ks \in SUBSET Tickets
        PROVE  RunsToday(ledger) = RunsToday(new) /\ Firsts(ledger, ks) = Firsts(new, ks)
    BY <2>1, SameCounts
  <2> QED
    BY <2>2 DEF new
<1>3. OnlyLast(ledger')
  BY <1>1 DEF Ticks, Day, OnlyLast
<1>4. {} \in SUBSET Tickets
  OBVIOUS
<1>5. RunsToday(ledger') = RunsToday(ledger)
  BY <1>2, <1>4
<1>6. Day'
  BY <1>1, <1>3, <1>5 DEF Ticks, Day, OnlyLast, RunsToday
<1>7. ASSUME NEW q \in Procs, read'[q] = read[q], \A k \in Tickets : Decides(q, k)' => Decides(q, k),
             at'[q] = "launch" => at[q] = "launch" /\ plan'[q] = plan[q]
      PROVE  Ticked(q)'
  <2>1. Ticked(q)
    BY DEF Ticks
  <2>2. OnlyLast(read[q])'
    BY <1>7, <2>1 DEF Ticked, OnlyLast
  <2>3. \A k \in Tickets : Decides(q, k)' => Len(read'[q][k]) = Len(ledger'[k])
    BY <1>1, <1>7, <2>1 DEF Ticked
  <2>4. ASSUME at'[q] = "launch" PROVE RunsToday(ledger') + Firsts(ledger', plan'[q]) <= scene.maxPerDay
    <3>1. plan[q] \in SUBSET Tickets
      BY DEF Types, WatcherTypes
    <3>2. RunsToday(ledger) + Firsts(ledger, plan[q]) <= scene.maxPerDay
      BY <1>7, <2>1, <2>4 DEF Ticked
    <3> QED
      BY <1>2, <1>7, <2>4, <3>1, <3>2
  <2>5. at'[q] = "launch" => (RunsToday(ledger) + Firsts(ledger, plan[q]))' <= scene.maxPerDay
    BY <2>4 DEF RunsToday, Firsts
  <2> QED
    BY <2>2, <2>3, <2>5 DEF Ticked
<1> QED
  BY <1>2, <1>6, <1>7

\* A step of one process that leaves the ledger as it is.
LEMMA QuietTicks ==
  ASSUME Types, UNCHANGED <<scene, ledger>>, Ticks, NEW p \in Procs, Ticked(p)',
         \A q \in Procs \ {p} : read'[q] = read[q] /\ at'[q] = at[q] /\ plan'[q] = plan[q]
  PROVE  Ticks'
<1>1. ledger' \in LedgerType /\ Settles(ledger, ledger')
  BY FollowsItself DEF Types
<1>2. Day'
  BY <1>1, SettledTicks
<1>3. ASSUME NEW q \in Procs PROVE Ticked(q)'
  <2>1. CASE q = p
    BY <2>1
  <2>2. CASE q # p
    <3>1. \A k \in Tickets : Decides(q, k)' => Decides(q, k)
      BY <2>2 DEF Decides
    <3> QED
      BY <1>1, <2>2, <3>1, SettledTicks
  <2> QED
    BY <2>1, <2>2
<1> QED
  BY <1>2, <1>3 DEF Ticks

\* A process that neither recovers, selects nor launches owes no count.
LEMMA IdleTicks ==
  ASSUME Types, UNCHANGED <<scene, ledger>>, Ticks, NEW p \in Procs,
         at'[p] \notin {"recover", "wrote", "select", "launch"},
         \/ read'[p] = read[p] \/ read'[p] = ledger \/ read'[p] = [k \in Tickets |-> << >>],
         \A q \in Procs \ {p} : read'[q] = read[q] /\ at'[q] = at[q] /\ plan'[q] = plan[q]
  PROVE  Ticks'
<1>1. OnlyLast(read'[p])
  <2>1. CASE read'[p] = [k \in Tickets |-> << >>]
    <3>1. \A k \in Tickets : DOMAIN read'[p][k] = {}
      BY <2>1
    <3> QED
      BY <3>1 DEF OnlyLast
  <2>2. CASE read'[p] = read[p] \/ read'[p] = ledger
    BY <2>2 DEF Ticks, Ticked, Day
  <2> QED
    BY <2>1, <2>2
<1>2. Ticked(p)'
  BY <1>1 DEF Ticked, Decides, OnlyLast
<1> QED
  BY <1>2, QuietTicks

\* Reading the ledger keeps Ticks.
LEMMA ReadTicks ==
  ASSUME Types, Ticks, NEW p \in Procs, Read(p)
  PROVE  Ticks'
<1>1. /\ read' = [read EXCEPT ![p] = ledger] /\ at' = [at EXCEPT ![p] = "recover"]
      /\ UNCHANGED <<scene, plan, ledger>>
  BY DEF Read, Goes
<1>2. read'[p] = ledger /\ at'[p] = "recover"
  BY <1>1 DEF Types, WatcherTypes
<1>3. OnlyLast(read[p])'
  BY <1>2 DEF Ticks, Day, OnlyLast
<1>4. Ticked(p)'
  BY <1>1, <1>2, <1>3 DEF Ticked
<1> QED
  BY <1>1, <1>4, QuietTicks DEF Types, WatcherTypes

\* A plan counts what it starts: what was read is as long as the ledger is.
LEMMA SelectTicks ==
  ASSUME Types, Core, Ticks, NEW p \in Procs, Select(p)
  PROVE  Ticks'
<1>1. at[p] = "select" /\ UNCHANGED <<scene, read, ledger>>
  BY DEF Select
<1>2. CASE at' = [at EXCEPT ![p] = "end"] /\ UNCHANGED plan
  BY <1>1, <1>2, IdleTicks DEF Types, WatcherTypes
<1>3. CASE /\ at' = [at EXCEPT ![p] = "launch"]
           /\ \E ks \in SUBSET Wanted(read[p]) : WithinDay(read[p], ks) /\ plan' = [plan EXCEPT ![p] = ks]
  <2>1. PICK ks \in SUBSET Wanted(read[p]) : WithinDay(read[p], ks) /\ plan' = [plan EXCEPT ![p] = ks]
    BY <1>3
  <2>2. at'[p] = "launch" /\ plan'[p] = ks
    BY <1>3, <2>1 DEF Types, WatcherTypes
  <2>3. ks \in SUBSET Tickets
    BY SceneType DEF Wanted, Types
  <2>4. Ticked(p) /\ \A k \in Tickets : Len(read[p][k]) = Len(ledger[k])
    BY <1>1 DEF Ticks, Ticked, Decides
  <2>5. RunsToday(read[p]) = RunsToday(ledger) /\ Firsts(read[p], ks) = Firsts(ledger, ks)
    <3>1. \A k \in Tickets : \A i \in DOMAIN read[p][k] : read[p][k][i].no = ledger[k][i].no
      BY DEF Core, Knows, Follows, SameAttempt
    <3>2. read[p] \in LedgerType /\ ledger \in LedgerType
      BY DEF Types
    <3> QED
      BY <2>3, <2>4, <3>1, <3>2, SameCounts
  <2>6. RunsToday(ledger) + Firsts(ledger, ks) <= scene.maxPerDay
    BY <2>1, <2>5 DEF WithinDay
  <2>7. (RunsToday(ledger) + Firsts(ledger, plan[p]))' <= scene.maxPerDay
    BY <1>1, <2>2, <2>6 DEF RunsToday, Firsts
  <2>8. OnlyLast(read[p])'
    BY <1>1, <2>4 DEF Ticked, OnlyLast
  <2>9. Ticked(p)'
    BY <1>1, <2>4, <2>7, <2>8 DEF Ticked
  <2> QED
    BY <1>1, <1>3, <2>1, <2>9, QuietTicks DEF Types, WatcherTypes
<1> QED
  BY <1>2, <1>3 DEF Select, Goes

\* A finished line starts no run, so it keeps Ticks.
LEMMA RecoverTicks ==
  ASSUME Shapes, Ticks, NEW p \in Procs, NEW x \in todo[p], Recover(p, x)
  PROVE  Ticks'
<1> USE DEF Shapes, Formed
<1>1. ledger' \in LedgerType /\ Settles(ledger, ledger')
  BY RecoverSettles
<1>2. /\ at[p] \in {"recover", "wrote"} /\ at' = [at EXCEPT ![p] = "wrote"]
      /\ UNCHANGED <<scene, read, plan>>
  <2>1. Looks(p, x) /\ at' = [at EXCEPT ![p] = "wrote"]
    BY RecoverEffect
  <2> QED
    BY <2>1, LooksIs
<1>3. Day'
  BY <1>1, <1>2, SettledTicks
<1>4. ASSUME NEW q \in Procs PROVE Ticked(q)'
  <2>1. /\ q = p => at'[q] = "wrote"
        /\ q # p => at'[q] = at[q]
    BY <1>2 DEF Types, WatcherTypes
  <2>2. \A k \in Tickets : Decides(q, k)' => Decides(q, k)
    BY <1>2, <2>1 DEF Decides
  <2>3. read'[q] = read[q] /\ (at'[q] = "launch" => at[q] = "launch" /\ plan'[q] = plan[q])
    BY <1>2, <2>1
  <2> QED
    BY <1>1, <1>2, <2>2, <2>3, SettledTicks
<1> QED
  BY <1>3, <1>4 DEF Ticks

\* Nor does a look that writes none.
LEMMA PassTicks ==
  ASSUME Types, Ticks, NEW p \in Procs, NEW x \in todo[p], RecoverFails(p, x) \/ PassOver(p, x)
  PROVE  Ticks'
<1>1. UNCHANGED <<scene, at, read, plan, ledger>>
  BY DEF RecoverFails, PassOver, Looks
<1>2. Ticked(p)'
  <2>1. Ticked(p)
    BY DEF Ticks
  <2>2. OnlyLast(read[p])'
    BY <1>1, <2>1 DEF Ticked, OnlyLast
  <2>3. at'[p] = "launch" => (RunsToday(ledger) + Firsts(ledger, plan[p]))' <= scene.maxPerDay
    BY <1>1, <2>1 DEF Ticked, RunsToday, Firsts
  <2> QED
    BY <1>1, <2>1, <2>2, <2>3 DEF Ticked, Decides
<1> QED
  BY <1>1, <1>2, QuietTicks

\* Nor does reading the ledger once more.
LEMMA RecoveredTicks ==
  ASSUME Types, Ticks, NEW p \in Procs, Recovered(p)
  PROVE  Ticks'
<1>1. /\ at[p] \in {"recover", "wrote"} /\ at' = [at EXCEPT ![p] = "select"]
      /\ read' = [read EXCEPT ![p] = IF at[p] = "wrote" THEN ledger ELSE read[p]]
      /\ UNCHANGED <<scene, plan, ledger>>
  BY DEF Recovered, Goes
<1>2. /\ at'[p] = "select" /\ read'[p] \in {ledger, read[p]}
      /\ \A q \in Procs \ {p} : read'[q] = read[q] /\ at'[q] = at[q] /\ plan'[q] = plan[q]
  BY <1>1 DEF Types, WatcherTypes
<1>3. OnlyLast(read'[p]) /\ \A k \in Tickets : Len(read'[p][k]) = Len(ledger[k])
  BY <1>1, <1>2 DEF Ticks, Ticked, Day, Decides
<1>4. Ticked(p)'
  BY <1>1, <1>2, <1>3 DEF Ticked, OnlyLast
<1> QED
  BY <1>1, <1>2, <1>4, QuietTicks

\* A watcher's launch: the attempt has the next number, and is counted.
LEMMA StartTicks ==
  ASSUME Shapes, Core, OneWatcher, Ticks, NEW p \in Procs, NEW k \in Tickets, Start(p, k)
  PROVE  Ticks'
<1> USE DEF Shapes, Formed
<1> DEFINE no == Len(read[p][k]) + 1
           n == Len(ledger[k])
           new == ledger'
<1>1. /\ at[p] = "launch" /\ k \in plan[p]
      /\ plan' = [plan EXCEPT ![p] = plan[p] \ {k}] /\ UNCHANGED <<scene, at, read>> /\ no \in Lines
  BY StartIs
<1>2. PICK r : Launched(p, k, no, r, usd[p])
  BY StartIs
<1>3. /\ n \in Nat /\ DOMAIN ledger[k] = 1 .. n /\ ledger[k] \in Seq(Attempts)
      /\ Len(read[p][k]) \in Nat /\ DOMAIN read[p][k] = 1 .. Len(read[p][k])
  BY Indexed DEF Types
<1>4. Decides(p, k) /\ Len(read[p][k]) = n /\ no = n + 1
  BY <1>1 DEF Ticks, Ticked, Decides
<1> DEFINE a == [pid |-> p, run |-> r, no |-> no, end |-> "open", cost |-> 0]
<1>5. /\ a \in Attempts /\ a.no = n + 1
      /\ new = [ledger EXCEPT ![k] = Append(ledger[k], a)] /\ n + 1 \in Lines
  <2>1. a \in Attempts
    <3>1. usd[p] \in Nat /\ no \in Lines
      BY <1>1 DEF Types, WatcherTypes
    <3> HIDE DEF no
    <3> QED
      BY <1>2, <3>1, LaunchTypes
  <2>2. a.no = no
    OBVIOUS
  <2> QED
    BY <1>2, <1>4, <2>1, <2>2 DEF Launched
<1> HIDE DEF a, no
<1>6. /\ new \in LedgerType /\ \A l \in Tickets \ {k} : new[l] = ledger[l]
      /\ Len(new[k]) = n + 1 /\ DOMAIN new[k] = 1 .. n + 1
      /\ \A i \in DOMAIN ledger[k] : new[k][i] = ledger[k][i]
      /\ new[k][n + 1] = a
  BY <1>5, AppendEffect DEF Types
<1> HIDE DEF new
<1>7. \A i \in DOMAIN ledger[k] : ~Open(ledger[k][i])
  <2>1. ASSUME n > 0 PROVE ~Open(ledger[k][n])
    <3>1. n \in DOMAIN read[p][k] /\ read[p][k] # << >>
      BY <1>3, <1>4, <2>1
    <3>2. ~Open(read[p][k][n])
      BY <1>1, <1>4, <3>1 DEF Core, Knows, Planned, Latest
    <3> QED
      BY <3>1, <3>2 DEF Core, Knows, Follows, SameAttempt
  <2> QED
    BY <1>3, <2>1 DEF Ticks, Day, OnlyLast
<1>8. OnlyLast(new)
  <2>1. \A i \in DOMAIN ledger[k] : ledger[k][i].no = i
    BY DEF Ticks, Day, OnlyLast
  <2>2. \A i \in DOMAIN new[k] : new[k][i].no = i /\ (i < Len(new[k]) => ~Open(new[k][i]))
    <3> SUFFICES ASSUME NEW i \in DOMAIN new[k]
                 PROVE  new[k][i].no = i /\ (i < Len(new[k]) => ~Open(new[k][i]))
      OBVIOUS
    <3>1. CASE i = n + 1
      BY <1>3, <1>5, <1>6, <3>1
    <3>2. CASE i # n + 1
      <4>1. i \in DOMAIN ledger[k] /\ new[k][i] = ledger[k][i]
        BY <1>3, <1>6, <3>2
      <4> QED
        BY <1>7, <2>1, <4>1
    <3> QED
      BY <3>1, <3>2
  <2> QED
    BY <1>6, <2>2 DEF Ticks, Day, OnlyLast
<1>9. \A l \in Tickets : Len(new[l]) <= MaxAttempts
  <2>1. n + 1 <= MaxAttempts
    <3>1. read[p][k] = << >> \/ Len(read[p][k]) < MaxAttempts
      BY <1>1 DEF Core, Knows, Planned
    <3>2. MaxAttempts \in Nat \ {0}
      BY ShadowAssumption
    <3> QED
      BY <1>3, <1>4, <3>1, <3>2
  <2> QED
    BY <1>6, <2>1 DEF Ticks, Day
<1>10. RunsToday(new) + Firsts(new, plan[p] \ {k}) <= scene.maxPerDay
  <2>1. plan[p] \in SUBSET Tickets /\ ledger \in LedgerType
    BY DEF Types, WatcherTypes
  <2>2. RunsToday(new) + Firsts(new, plan[p] \ {k}) = RunsToday(ledger) + Firsts(ledger, plan[p])
    <3> DEFINE ks == plan[p]
               old == ledger
    <3>1. /\ old \in LedgerType /\ new \in LedgerType /\ ks \in SUBSET Tickets /\ k \in ks
          /\ a \in Attempts /\ a.no = Len(old[k]) + 1 /\ \A l \in Tickets \ {k} : new[l] = old[l]
          /\ DOMAIN new[k] = 1 .. Len(old[k]) + 1 /\ \A i \in DOMAIN old[k] : new[k][i] = old[k][i]
          /\ new[k][Len(old[k]) + 1] = a /\ Len(old[k]) + 1 \in Lines
      BY <1>1, <1>5, <1>6, <2>1
    <3> HIDE DEF ks, old
    <3>2. RunsToday(new) + Firsts(new, ks \ {k}) = RunsToday(old) + Firsts(old, ks)
      BY <3>1, OneMoreRun
    <3> QED
      BY <3>2 DEF ks, old
  <2> QED
    BY <1>1, <2>2 DEF Ticks, Ticked
<1>11. RunsToday(new) <= scene.maxPerDay
  <2>1. plan[p] \ {k} \in SUBSET Tickets
    BY DEF Types, WatcherTypes
  <2>2. RunsToday(new) \in Nat /\ Firsts(new, plan[p] \ {k}) \in Nat /\ scene.maxPerDay \in Nat
    BY <1>6, <2>1, CountsType, SceneType DEF Types
  <2> QED
    BY <1>10, <2>2
<1>12. Day'
  BY <1>1, <1>8, <1>9, <1>11 DEF Day, OnlyLast, RunsToday, new
<1>13. plan'[p] = plan[p] \ {k} /\ \A q \in Procs \ {p} : plan'[q] = plan[q]
  BY <1>1 DEF Types, WatcherTypes
<1>14. ASSUME NEW q \in Procs PROVE Ticked(q)'
  <2>1. Ticked(q)
    BY DEF Ticks
  <2>2. OnlyLast(read[q])'
    BY <1>1, <2>1 DEF Ticked, OnlyLast
  <2>3. q # p => ~Tick(q)
    BY <1>1 DEF OneWatcher, Tick
  <2>4. \A l \in Tickets : Decides(q, l)' => Len(read'[q][l]) = Len(new[l])
    BY <1>1, <1>6, <1>13, <2>1, <2>3 DEF Ticked, Decides, Tick
  <2>5. at'[q] = "launch" => (RunsToday(ledger) + Firsts(ledger, plan[q]))' <= scene.maxPerDay
    BY <1>1, <1>10, <1>13, <2>3 DEF RunsToday, Firsts, Tick, new
  <2> QED
    BY <1>1, <2>2, <2>4, <2>5 DEF Ticked, new
<1> QED
  BY <1>12, <1>14 DEF Ticks

\* Every step of a day without runs by hand keeps it.
LEMMA NextTicks ==
  ASSUME Shapes, Core, OneWatcher, Ticks, ~ByHand, [Next]_vars
  PROVE  Ticks'
<1> USE DEF Shapes, Formed
<1>t. at \in [Procs -> Places] /\ read \in [Procs -> LedgerType]
  BY DEF Types, WatcherTypes
<1>1. ASSUME NEW p \in Procs, Pass(p) \/ Create(p) \/ Judge(p) \/ Remove(p) PROVE Ticks'
  <2>1. /\ UNCHANGED <<scene, read, plan, ledger>>
        /\ \E to \in {"read", "take", "look", "remove", "idle", "done"} : at' = [at EXCEPT ![p] = to]
    BY <1>1 DEF Pass, Create, Judge, Remove, Refused, Goes
  <2> QED
    BY <1>t, <2>1, IdleTicks
<1>2. ASSUME NEW p \in Procs, EndTick(p) \/ Die(p) PROVE Ticks'
  <2> DEFINE none == [k \in Tickets |-> << >>]
  <2>1. /\ read' = [read EXCEPT ![p] = none] /\ plan' = [plan EXCEPT ![p] = {}]
        /\ UNCHANGED <<scene, ledger>> /\ \E to \in {"idle", "done"} : at' = [at EXCEPT ![p] = to]
    BY <1>2 DEF EndTick, Die, Goes
  <2>2. /\ read'[p] = none /\ at'[p] \in {"idle", "done"}
        /\ \A q \in Procs \ {p} : read'[q] = read[q] /\ at'[q] = at[q] /\ plan'[q] = plan[q]
    <3> HIDE DEF none
    <3> QED
      BY <1>t, <2>1 DEF Types, WatcherTypes
  <2> QED
    BY <2>1, <2>2, IdleTicks
<1>3. ASSUME NEW p \in Procs, Begin(p) \/ Leave(p) PROVE Ticks'
  <2>1. UNCHANGED <<scene, at, read, plan, ledger>>
    BY <1>3 DEF Begin, Leave
  <2>2. at[p] \notin {"recover", "wrote", "select", "launch"}
    BY <1>3 DEF Begin, Leave, Placed
  <2> QED
    BY <2>1, <2>2, IdleTicks
<1>4. ASSUME NEW p \in Procs, NEW k \in Tickets PROVE ~AskRun(p, k) /\ ~RunOne(p, k)
  <2>1. scene.kind[p] # "hand"
    BY DEF ByHand
  <2> QED
    BY <2>1, RunOneIs, AskRunIs
<1>5. ASSUME UNCHANGED <<scene, at, read, plan>>, ledger' \in LedgerType, Settles(ledger, ledger') PROVE Ticks'
  <2>1. ASSUME NEW q \in Procs PROVE Ticked(q)'
    <3>1. \A k \in Tickets : Decides(q, k)' => Decides(q, k)
      BY <1>5 DEF Decides
    <3> QED
      BY <1>5, <3>1, SettledTicks
  <2>2. Day'
    BY <1>5, SettledTicks
  <2> QED
    BY <2>1, <2>2 DEF Ticks
<1>6. ASSUME NEW p \in Procs, Driving(p) PROVE Ticks'
  <2>1. UNCHANGED <<scene, at, read, plan>>
    BY <1>6, DrivingKeeps
  <2>2. CASE UNCHANGED ledger
    BY <1>5, <2>1, <2>2, FollowsItself DEF Types
  <2>3. CASE \E j \in jobs[p] : RecordFinished(p, j)
    BY <1>5, <2>1, <2>3, RecordSettles
  <2>4. UNCHANGED ledger \/ \E j \in jobs[p] : RecordFinished(p, j)
    <3>1. PICK j \in jobs[p] :
            Prepare(p, j) \/ Spend(p, j) \/ Settle(p, j) \/ RecordFinished(p, j) \/ Done(p, j)
      BY <1>6 DEF Driving
    <3>2. Prepare(p, j) \/ Settle(p, j) \/ Done(p, j) => ledger' = ledger
      BY DEF Prepare, Settle, Done
    <3>3. Spend(p, j) => ledger' = ledger
      BY Zenon DEF Spend
    <3> QED
      BY <3>1, <3>2, <3>3
  <2> QED
    BY <2>2, <2>3, <2>4
<1>7. ASSUME UNCHANGED vars PROVE Ticks'
  BY <1>5, <1>7, FollowsItself DEF Types
<1>8. ASSUME NEW p \in Procs, Ticking(p) PROVE Ticks'
  <2>1. CASE Recovering(p)
    <3>1. CASE \E x \in todo[p] : Recover(p, x)
      BY <3>1, RecoverTicks
    <3>2. CASE \E x \in todo[p] : RecoverFails(p, x) \/ PassOver(p, x)
      BY <3>2, PassTicks
    <3> QED
      BY <2>1, <3>1, <3>2, RecoveredTicks DEF Recovering
  <2> QED
    BY <1>2, <1>8, <2>1, ReadTicks, SelectTicks, StartTicks DEF Ticking
<1> QED
  BY <1>1, <1>2, <1>3, <1>4, <1>6, <1>7, <1>8 DEF Next, Watching

\* The initial state satisfies Ticks.
LEMMA InitTicks == Init => Ticks
<1> SUFFICES ASSUME Init PROVE Ticks
  OBVIOUS
<1>1. ledger \in LedgerType /\ scene.maxPerDay \in Nat /\ MaxAttempts \in Nat
  BY SceneType, InitShapes, ShadowAssumption DEF Init, Shapes, Formed, Types
<1>2. \A k \in Tickets : Len(ledger[k]) = 0 /\ DOMAIN ledger[k] = {}
  BY DEF Init
<1>3. OnlyLast(ledger) /\ \A k \in Tickets : Len(ledger[k]) <= MaxAttempts
  BY <1>1, <1>2 DEF OnlyLast
<1>4. RunsToday(ledger) = 0
  <2>1. {x \in Tickets \X Lines : x[2] \in DOMAIN ledger[x[1]] /\ ledger[x[1]][x[2]].no = 1} = {}
    BY <1>2
  <2> QED
    BY <2>1, FS_EmptySet DEF RunsToday
<1>5. \A p \in Procs : at[p] = "idle" /\ read[p] = ledger
  BY DEF Init
<1> QED
  BY <1>1, <1>3, <1>4, <1>5 DEF Ticks, Day, Ticked, Decides

TicksInv == CoreInv /\ (~ByHand => Ticks)

\* TicksInv is inductive under one watcher at a time.
LEMMA TicksInductive ==
  /\ Init => TicksInv
  /\ TicksInv /\ OneWatcher /\ [Next]_vars => TicksInv'
<1>1. Init => TicksInv
  BY CoreInductive, InitTicks DEF TicksInv
<1>2. ASSUME TicksInv, OneWatcher, [Next]_vars PROVE TicksInv'
  <2>1. CoreInv'
    BY <1>2, CoreInductive DEF TicksInv
  <2>2. ByHand' = ByHand
    BY <1>2, SceneKept DEF ByHand
  <2>3. ASSUME ~ByHand PROVE Ticks'
    BY <1>2, <2>3, NextTicks DEF TicksInv, CoreInv
  <2> QED
    BY <2>1, <2>2, <2>3 DEF TicksInv
<1> QED
  BY <1>1, <1>2

\* The inductive invariant gives the type invariant the run checks.
LEMMA ShapesType == TicksInv => TypeOK
<1> SUFFICES ASSUME TicksInv PROVE TypeOK
  OBVIOUS
<1>1. Types /\ Placed /\ (~ByHand => Ticks)
  BY DEF TicksInv, CoreInv, Shapes, Formed
<1>2. \A p \in Procs : read[p] \in LedgerType /\ jobs[p] \subseteq Job
  BY <1>1 DEF Types
<1>3. \A p \in Procs : ~Up(p) => jobs[p] = {} /\ at[p] = "idle"
  BY <1>1 DEF Placed, Up
<1> QED
  BY <1>1, <1>2, <1>3 DEF TypeOK, Types, Ticks, Day

\* The watchers never drive two runs of a ticket: each is the last attempt's.
LEMMA TicksOne == TicksInv => OneAttempt
<1> SUFFICES ASSUME TicksInv, ~ByHand, ~scene.hush, NEW p \in Procs, NEW q \in Procs,
                    NEW j \in Driven(p), NEW l \in Driven(q), j.key = l.key
             PROVE  p = q /\ j = l
  BY DEF OneAttempt
<1>1. Types /\ Core /\ Ticks
  BY DEF TicksInv, CoreInv, Shapes, Formed
<1>2. PICK i \in DOMAIN ledger[j.key] :
        LastOf(ledger, j.key, j.run, i) /\ ledger[j.key][i].pid = p /\ Open(ledger[j.key][i])
  BY <1>1 DEF Core, Drives, Accounts, Accounted
<1>3. PICK n \in DOMAIN ledger[j.key] :
        LastOf(ledger, j.key, l.run, n) /\ ledger[j.key][n].pid = q /\ Open(ledger[j.key][n])
  BY <1>1 DEF Core, Drives, Accounts, Accounted
<1>4. j.key \in Tickets
  BY <1>1, JobType DEF Driven
<1>5. Len(ledger[j.key]) \in Nat /\ DOMAIN ledger[j.key] = 1 .. Len(ledger[j.key])
  BY <1>1, <1>4, Indexed DEF Types
<1>6. i = Len(ledger[j.key]) /\ n = Len(ledger[j.key])
  BY <1>1, <1>2, <1>3, <1>4, <1>5 DEF Ticks, Day, OnlyLast
<1>7. p = q /\ j.run = l.run
  BY <1>2, <1>3, <1>6 DEF LastOf
<1>8. j = l
  BY <1>1, <1>7 DEF Core, Drives, OneEach
<1> QED
  BY <1>7, <1>8

\* The shapes of it all, while one process watches at a time; ticks alone give a
\* ticket no more than its attempts, for any number of tickets and processes.
THEOREM ShadowTypeCorrect == Spec /\ []OneWatcher => []TypeOK
<1>1. Init => TicksInv
  BY TicksInductive
<1>2. TicksInv /\ OneWatcher /\ [Next]_vars => TicksInv'
  BY TicksInductive
<1> QED
  BY <1>1, <1>2, ShapesType, PTL DEF Spec

\* While one process watches at a time, and no run goes quiet under a live process
\* for longer than it may run, a ticket never has two runs going, in one process or
\* in two, through crashes, recoveries and retries.
THEOREM NeverTwice == Spec /\ []OneWatcher => []OneAttempt
<1>1. Init => TicksInv
  BY TicksInductive
<1>2. TicksInv /\ OneWatcher /\ [Next]_vars => TicksInv'
  BY TicksInductive
<1> QED
  BY <1>1, <1>2, TicksOne, PTL DEF Spec

-----------------------------------------------------------------------------
(* What a run was counted for.                                              *)

\* The costs of a ticket's attempts are numbers.
LEMMA CostsType ==
  ASSUME NEW led \in LedgerType, NEW k \in Tickets
  PROVE  /\ IsFiniteSet(DOMAIN led[k]) /\ DOMAIN Costs(led, k) = DOMAIN led[k]
         /\ \A i \in DOMAIN led[k] : Costs(led, k)[i] = led[k][i].cost /\ led[k][i].cost \in Nat
BY Indexed, AttemptType DEF Costs

\* The attempts of a run.
Named(led, k, r) == {i \in DOMAIN led[k] : led[k][i].run = r}

\* PriorCost is a finite sum of naturals over the lines that name the run.
LEMMA PriorIs ==
  ASSUME NEW led \in LedgerType, NEW k \in Tickets, NEW r
  PROVE  /\ PriorCost(led, k, r) = SumFunctionOnSet(Costs(led, k), Named(led, k, r))
         /\ PriorCost(led, k, r) \in Nat /\ IsFiniteSet(Named(led, k, r))
         /\ \A i \in Named(led, k, r) : Costs(led, k)[i] \in Nat
<1>1. IsFiniteSet(Named(led, k, r))
  BY CostsType, FS_Subset DEF Named
<1> QED
  BY <1>1, CountedType, CostsType DEF PriorCost, Named

\* Where runs and costs stay, so does what was counted.
LEMMA PriorSame ==
  ASSUME NEW led \in LedgerType, NEW new \in LedgerType, NEW k \in Tickets, NEW r,
         DOMAIN new[k] = DOMAIN led[k],
         \A n \in DOMAIN led[k] : new[k][n].run = led[k][n].run /\ new[k][n].cost = led[k][n].cost
  PROVE  PriorCost(new, k, r) = PriorCost(led, k, r)
<1> DEFINE S == Named(led, k, r)
           f == Costs(led, k)
           g == Costs(new, k)
<1>1. Named(new, k, r) = S
  BY DEF Named
<1>2. IsFiniteSet(S) /\ \A i \in S : f[i] \in Nat /\ f[i] = g[i]
  <2>1. \A i \in S : i \in DOMAIN led[k] /\ i \in DOMAIN new[k]
    BY DEF Named
  <2>2. /\ \A i \in DOMAIN led[k] : f[i] = led[k][i].cost
        /\ \A i \in DOMAIN new[k] : g[i] = new[k][i].cost
    BY CostsType
  <2> QED
    BY <2>1, <2>2, PriorIs
<1>3. PriorCost(led, k, r) = SumFunctionOnSet(f, S) /\ PriorCost(new, k, r) = SumFunctionOnSet(g, S)
  BY <1>1, PriorIs
<1> HIDE DEF S, f, g
<1> QED
  BY <1>2, <1>3, SumsOfEquals

\* A finished line adds its cost to what its run was counted for.
LEMMA PriorOfClosed ==
  ASSUME NEW led \in LedgerType, NEW new \in LedgerType, NEW k \in Tickets, NEW i \in DOMAIN led[k],
         NEW c \in Nat, DOMAIN new[k] = DOMAIN led[k],
         \A n \in DOMAIN led[k] : new[k][n].run = led[k][n].run,
         \A n \in DOMAIN led[k] \ {i} : new[k][n].cost = led[k][n].cost,
         new[k][i].cost = led[k][i].cost + c,
         NEW r
  PROVE  PriorCost(new, k, r) = PriorCost(led, k, r) + (IF r = led[k][i].run THEN c ELSE 0)
<1> DEFINE S == Named(led, k, r)
           f == Costs(led, k)
           g == Costs(new, k)
<1>1. Named(new, k, r) = S
  BY DEF Named
<1>2. IsFiniteSet(S) /\ \A n \in S : f[n] \in Nat /\ g[n] \in Nat
  BY <1>1, PriorIs
<1>3. PriorCost(led, k, r) = SumFunctionOnSet(f, S) /\ PriorCost(new, k, r) = SumFunctionOnSet(g, S)
  BY <1>1, PriorIs
<1>4. /\ \A n \in S : f[n] = led[k][n].cost /\ g[n] = new[k][n].cost
      /\ i \in S <=> r = led[k][i].run
  BY CostsType DEF Named
<1>5. S \subseteq DOMAIN led[k]
  BY DEF Named
<1>6. CASE r = led[k][i].run
  <2>1. i \in S /\ (\A n \in S \ {i} : g[n] = f[n]) /\ g[i] = f[i] + c
    BY <1>4, <1>5, <1>6
  <2> HIDE DEF S, f, g
  <2>2. SumFunctionOnSet(g, S) = SumFunctionOnSet(f, S) + c
    BY <1>2, <2>1, SumOfChanged
  <2> QED
    BY <1>3, <1>6, <2>2
<1>7. CASE r # led[k][i].run
  <2>1. \A n \in S : f[n] \in Nat /\ f[n] = g[n]
    BY <1>2, <1>4, <1>5, <1>7
  <2> HIDE DEF S, f, g
  <2>2. SumFunctionOnSet(g, S) = SumFunctionOnSet(f, S)
    BY <1>2, <2>1, SumsOfEquals
  <2>3. SumFunctionOnSet(f, S) \in Nat
    BY <1>2, SumType
  <2> QED
    BY <1>3, <1>7, <2>2, <2>3
<1> QED
  BY <1>6, <1>7

\* An attempt that has cost nothing yet adds nothing.
LEMMA PriorOfMore ==
  ASSUME NEW led \in LedgerType, NEW new \in LedgerType, NEW k \in Tickets, NEW r,
         DOMAIN led[k] \subseteq DOMAIN new[k],
         \A n \in DOMAIN led[k] : new[k][n] = led[k][n],
         \A n \in DOMAIN new[k] \ DOMAIN led[k] : new[k][n].cost = 0
  PROVE  PriorCost(new, k, r) = PriorCost(led, k, r)
<1> DEFINE S == Named(new, k, r)
           T == Named(led, k, r)
           f == Costs(led, k)
           g == Costs(new, k)
<1>1. T \in SUBSET S /\ S \ T \subseteq DOMAIN new[k] \ DOMAIN led[k]
  BY DEF Named
<1>2. /\ IsFiniteSet(S) /\ IsFiniteSet(T)
      /\ \A n \in S : g[n] \in Nat
      /\ \A n \in T : f[n] \in Nat
  BY PriorIs
<1>3. PriorCost(led, k, r) = SumFunctionOnSet(f, T) /\ PriorCost(new, k, r) = SumFunctionOnSet(g, S)
  BY PriorIs
<1>4. \A n \in S \ T : g[n] = 0
  BY <1>1, CostsType
<1>5. \A n \in T : f[n] = g[n]
  BY CostsType DEF Named
<1> HIDE DEF S, T, f, g
<1>6. SumFunctionOnSet(g, S) = SumFunctionOnSet(g, T)
  BY <1>1, <1>2, <1>4, SumOfPart
<1>7. SumFunctionOnSet(f, T) = SumFunctionOnSet(g, T)
  BY <1>2, <1>5, SumsOfEquals
<1> QED
  BY <1>3, <1>6, <1>7

-----------------------------------------------------------------------------
(* What was spent, and what a tick takes it to be.                          *)

\* The runs' costs as their states have them.
SpentOn(d, k) == SumFunction([r \in Lines |-> d[k][r].cost])
SpentBy(d)    == SumFunction([k \in Tickets |-> SpentOn(d, k)])

Disks == [Tickets -> [Lines -> State]]

\* What the runs of a ticket, and of the day, have spent are naturals.
LEMMA SpentType ==
  ASSUME NEW d \in Disks
  PROVE  /\ \A k \in Tickets : \A r \in Lines : d[k][r].cost \in Nat
         /\ \A k \in Tickets : SpentOn(d, k) \in Nat
         /\ SpentBy(d) \in Nat
<1>1. \A k \in Tickets : \A r \in Lines : d[k][r].cost \in Nat
  BY DEF Disks, State
<1>2. \A k \in Tickets : SpentOn(d, k) \in Nat
  <2> SUFFICES ASSUME NEW k \in Tickets PROVE SpentOn(d, k) \in Nat
    OBVIOUS
  <2> DEFINE f == [r \in Lines |-> d[k][r].cost]
  <2>1. DOMAIN f = Lines /\ \A r \in Lines : f[r] \in Nat
    BY <1>1
  <2> HIDE DEF f
  <2>2. SumFunction(f) \in Nat
    BY <2>1, LinesFinite, SumType DEF SumFunction
  <2> QED
    BY <2>2 DEF SpentOn, f
<1>3. SpentBy(d) \in Nat
  <2> DEFINE f == [k \in Tickets |-> SpentOn(d, k)]
  <2>1. DOMAIN f = Tickets /\ \A k \in Tickets : f[k] \in Nat
    BY <1>2
  <2> HIDE DEF f
  <2>2. SumFunction(f) \in Nat
    BY <2>1, SumType, ShadowAssumption DEF SumFunction
  <2> QED
    BY <2>2 DEF SpentBy, f
<1> QED
  BY <1>1, <1>2, <1>3

\* As much is spent as long as no run's cost changes.
LEMMA SpentSame ==
  ASSUME NEW d \in Disks, NEW e \in Disks,
         \A k \in Tickets : \A r \in Lines : e[k][r].cost = d[k][r].cost
  PROVE  SpentBy(e) = SpentBy(d)
<1>1. \A k \in Tickets : SpentOn(e, k) = SpentOn(d, k)
  <2> SUFFICES ASSUME NEW k \in Tickets PROVE SpentOn(e, k) = SpentOn(d, k)
    OBVIOUS
  <2>1. [r \in Lines |-> e[k][r].cost] = [r \in Lines |-> d[k][r].cost]
    OBVIOUS
  <2> QED
    BY <2>1 DEF SpentOn
<1>2. [k \in Tickets |-> SpentOn(e, k)] = [k \in Tickets |-> SpentOn(d, k)]
  BY <1>1
<1> QED
  BY <1>2 DEF SpentBy

\* One run costs more.
LEMMA SpentMore ==
  ASSUME NEW d \in Disks, NEW e \in Disks, NEW k \in Tickets, NEW r \in Lines, NEW c \in Nat,
         \A l \in Tickets : \A s \in Lines :
           e[l][s].cost = IF l = k /\ s = r THEN d[l][s].cost + c ELSE d[l][s].cost
  PROVE  SpentBy(e) = SpentBy(d) + c
<1>1. SpentOn(e, k) = SpentOn(d, k) + c
  <2> DEFINE f == [s \in Lines |-> d[k][s].cost]
             g == [s \in Lines |-> e[k][s].cost]
  <2>1. /\ DOMAIN f = Lines /\ DOMAIN g = Lines /\ \A s \in Lines : f[s] \in Nat /\ g[s] \in Nat
        /\ \A s \in Lines \ {r} : g[s] = f[s]
        /\ g[r] = f[r] + c
    BY SpentType
  <2> HIDE DEF f, g
  <2>2. SumFunctionOnSet(g, Lines) = SumFunctionOnSet(f, Lines) + c
    BY <2>1, LinesFinite, SumOfChanged
  <2> QED
    BY <2>1, <2>2 DEF SpentOn, SumFunction, f, g
<1>2. \A l \in Tickets \ {k} : SpentOn(e, l) = SpentOn(d, l)
  <2> SUFFICES ASSUME NEW l \in Tickets \ {k} PROVE SpentOn(e, l) = SpentOn(d, l)
    OBVIOUS
  <2>1. [s \in Lines |-> e[l][s].cost] = [s \in Lines |-> d[l][s].cost]
    OBVIOUS
  <2> QED
    BY <2>1 DEF SpentOn
<1> DEFINE f == [l \in Tickets |-> SpentOn(d, l)]
           g == [l \in Tickets |-> SpentOn(e, l)]
<1>3. /\ DOMAIN f = Tickets /\ DOMAIN g = Tickets /\ \A l \in Tickets : f[l] \in Nat /\ g[l] \in Nat
      /\ \A l \in Tickets \ {k} : g[l] = f[l]
      /\ g[k] = f[k] + c
  BY <1>1, <1>2, SpentType
<1> HIDE DEF f, g
<1>4. SumFunctionOnSet(g, Tickets) = SumFunctionOnSet(f, Tickets) + c
  BY <1>3, SumOfChanged, ShadowAssumption
<1> QED
  BY <1>3, <1>4 DEF SpentBy, SumFunction, f, g

\* Every run was counted for what it cost, or has an attempt without its finished
\* line and was counted for no more.
CountedOf(led, d, k) ==
  \A r \in Lines :
    /\ PriorCost(led, k, r) <= d[k][r].cost
    /\ r \notin OpenRuns(led, k) => PriorCost(led, k, r) = d[k][r].cost
Counted(led, d) == \A k \in Tickets : CountedOf(led, d, k)

\* What the ledger says of a ticket, and what its open runs add, is no less than
\* its runs cost.
LEMMA TicketCovers ==
  ASSUME Types, NEW led \in LedgerType, Counted(led, disk), NEW k \in Tickets
  PROVE  /\ SumFunction([r \in OpenRuns(led, k) |-> Added(led, k, r)]) \in Nat
         /\ SpentOn(disk, k) <= SumFunction([r \in OpenRuns(led, k) |-> Added(led, k, r)])
                                  + SumFunction(Costs(led, k))
<1> DEFINE R == OpenRuns(led, k)
           D == DOMAIN led[k]
           f == Costs(led, k)
           m == [i \in D |-> led[k][i].run]
           h == [r \in Lines |-> disk[k][r].cost]
           sorted == [r \in Lines |-> SumFunctionOnSet(f, {i \in D : m[i] = r})]
           adds == [r \in R |-> Added(led, k, r)]
           extra == [r \in Lines |-> IF r \in R THEN Added(led, k, r) ELSE 0]
<1>1. R \in SUBSET Lines /\ IsFiniteSet(R) /\ IsFiniteSet(Lines) /\ DOMAIN adds = R /\ DOMAIN h = Lines
  <2>1. R \in SUBSET Lines
    BY Indexed, AttemptType DEF OpenRuns
  <2> QED
    BY <2>1, LinesFinite, FS_Subset
<1>2. IsFiniteSet(D) /\ DOMAIN f = D /\ (\A i \in D : f[i] \in Nat) /\ \A i \in D : m[i] \in Lines
  BY CostsType, Indexed, AttemptType
<1>3. \A r \in Lines : sorted[r] = PriorCost(led, k, r)
  <2> SUFFICES ASSUME NEW r \in Lines PROVE SumFunctionOnSet(f, {i \in D : m[i] = r}) = PriorCost(led, k, r)
    OBVIOUS
  <2>1. {i \in D : m[i] = r} = {i \in D : led[k][i].run = r}
    OBVIOUS
  <2> QED
    BY <2>1 DEF PriorCost
<1>4. SumFunctionOnSet(sorted, Lines) = SumFunctionOnSet(f, D)
  <2> HIDE DEF f, m, D
  <2> QED
    BY <1>1, <1>2, SumOfSorted
<1>5. \A r \in Lines : /\ h[r] \in Nat /\ PriorCost(led, k, r) \in Nat /\ Added(led, k, r) \in Nat
                       /\ PriorCost(led, k, r) + Added(led, k, r) >= h[r]
                       /\ r \notin R => PriorCost(led, k, r) = h[r]
  <2> SUFFICES ASSUME NEW r \in Lines
               PROVE  /\ h[r] \in Nat /\ PriorCost(led, k, r) \in Nat /\ Added(led, k, r) \in Nat
                      /\ PriorCost(led, k, r) + Added(led, k, r) >= h[r]
                      /\ r \notin R => PriorCost(led, k, r) = h[r]
    OBVIOUS
  <2>1. disk[k][r].cost \in Nat /\ h[r] = disk[k][r].cost
    BY SpentType DEF Types, Disks
  <2>2. PriorCost(led, k, r) \in Nat /\ Added(led, k, r) \in Nat
    BY CountedType, AddedType
  <2>3. PriorCost(led, k, r) <= disk[k][r].cost /\ (r \notin R => PriorCost(led, k, r) = disk[k][r].cost)
    BY DEF Counted, CountedOf
  <2>4. PriorCost(led, k, r) + Added(led, k, r) = disk[k][r].cost
    BY <2>3, AddedType
  <2> HIDE DEF h, R
  <2> QED
    BY <2>1, <2>2, <2>3, <2>4
<1>6. \A r \in Lines : /\ sorted[r] \in Nat /\ extra[r] \in Nat /\ h[r] \in Nat
                       /\ h[r] <= sorted[r] + extra[r]
  <2> SUFFICES ASSUME NEW r \in Lines
               PROVE  sorted[r] \in Nat /\ extra[r] \in Nat /\ h[r] \in Nat /\ h[r] <= sorted[r] + extra[r]
    OBVIOUS
  <2>1. extra[r] = IF r \in R THEN Added(led, k, r) ELSE 0
    OBVIOUS
  <2> HIDE DEF sorted, extra, h, R
  <2> QED
    BY <1>3, <1>5, <2>1
<1>7. (\A r \in Lines \ R : extra[r] = 0) /\ \A r \in R : adds[r] = extra[r] /\ adds[r] \in Nat
  BY <1>1, <1>5
<1> HIDE DEF sorted, extra, adds, h, f, D, R
<1>8. SumFunctionOnSet(h, Lines) <= SumFunctionOnSet(sorted, Lines) + SumFunctionOnSet(extra, Lines)
  BY <1>1, <1>6, SumOfSums
<1>9. SumFunctionOnSet(extra, Lines) = SumFunctionOnSet(extra, R)
  BY <1>1, <1>6, <1>7, SumOfPart
<1>10. SumFunctionOnSet(adds, R) = SumFunctionOnSet(extra, R) /\ SumFunctionOnSet(adds, R) \in Nat
  BY <1>1, <1>7, SumsOfEquals, SumType
<1>11. SumFunctionOnSet(f, D) \in Nat /\ SumFunctionOnSet(h, Lines) \in Nat
  BY <1>1, <1>2, <1>6, SumType
<1>12. /\ SumFunction(adds) = SumFunctionOnSet(adds, R) /\ SumFunction(f) = SumFunctionOnSet(f, D)
       /\ SumFunction(h) = SumFunctionOnSet(h, Lines)
  BY <1>1, <1>2 DEF SumFunction
<1>13. SumFunction(adds) \in Nat /\ SumFunction(h) <= SumFunction(adds) + SumFunction(f)
  BY <1>4, <1>8, <1>9, <1>10, <1>11, <1>12
<1> QED
  BY <1>13 DEF SpentOn, adds, f, h, R

\* A tick takes no less to be spent than was.
LEMMA TodayCovers ==
  ASSUME Types, NEW led \in LedgerType, Counted(led, disk)
  PROVE  SpentBy(disk) <= USDToday(led)
<1> DEFINE open == [k \in Tickets |-> SumFunction([r \in OpenRuns(led, k) |-> Added(led, k, r)])]
           done == [k \in Tickets |-> SumFunction(Costs(led, k))]
           spent == [k \in Tickets |-> SpentOn(disk, k)]
<1>1. \A k \in Tickets : /\ open[k] \in Nat /\ done[k] \in Nat /\ spent[k] \in Nat
                         /\ spent[k] <= open[k] + done[k]
  BY TicketCovers, CountedType, SpentType DEF Types, Disks
<1>2. DOMAIN open = Tickets /\ DOMAIN done = Tickets /\ DOMAIN spent = Tickets
  OBVIOUS
<1>3. USDToday(led) = SumFunction(open) + SumFunction(done) /\ SpentBy(disk) = SumFunction(spent)
  BY DEF USDToday, InFlightUSD, SpentBy
<1> HIDE DEF open, done, spent
<1>4. SumFunctionOnSet(spent, Tickets) <= SumFunctionOnSet(open, Tickets) + SumFunctionOnSet(done, Tickets)
  BY <1>1, SumOfSums, ShadowAssumption
<1> QED
  BY <1>2, <1>3, <1>4 DEF SumFunction

-----------------------------------------------------------------------------
(* The day's money.                                                         *)

\* A ticket whose lines and costs stay, one of whose attempts is closed for what
\* was not yet counted, one that got an attempt more, and one that costs more.
LEMMA StillCounted ==
  ASSUME NEW led \in LedgerType, NEW new \in LedgerType, NEW d \in Disks, NEW e \in Disks,
         NEW k \in Tickets, CountedOf(led, d, k),
         DOMAIN new[k] = DOMAIN led[k], \A n \in DOMAIN led[k] : new[k][n] = led[k][n],
         \A r \in Lines : e[k][r].cost = d[k][r].cost
  PROVE  CountedOf(new, e, k)
<1>1. \A r \in Lines : PriorCost(new, k, r) = PriorCost(led, k, r)
  BY PriorSame
<1>2. OpenRuns(new, k) = OpenRuns(led, k)
  BY DEF OpenRuns
<1> QED
  BY <1>1, <1>2 DEF CountedOf

\* Closing a run's line with the cost the run has, less what its earlier lines recorded, keeps
\* the ticket's ledger and its runs in agreement.
LEMMA FinishedCounted ==
  ASSUME NEW led \in LedgerType, NEW new \in LedgerType, NEW d \in Disks, NEW e \in Disks,
         NEW k \in Tickets, CountedOf(led, d, k),
         NEW i \in DOMAIN led[k], NEW end \in {"answer", "again"}, NEW c \in Nat,
         DOMAIN new[k] = DOMAIN led[k], \A n \in DOMAIN led[k] \ {i} : new[k][n] = led[k][n],
         new[k][i] = Finished(led[k][i], end, c),
         PriorCost(led, k, led[k][i].run) + c = d[k][led[k][i].run].cost,
         \A r \in Lines : e[k][r].cost = d[k][r].cost
  PROVE  CountedOf(new, e, k)
<1>1. led[k][i] \in Attempts
  BY Indexed
<1>2. new[k][i].run = led[k][i].run /\ new[k][i].cost = led[k][i].cost + c /\ ~Open(new[k][i])
  BY <1>1, FinishedType DEF Open
<1>3. \A n \in DOMAIN led[k] : new[k][n].run = led[k][n].run
  BY <1>2
<1>4. \A n \in DOMAIN led[k] \ {i} : new[k][n].cost = led[k][n].cost
  OBVIOUS
<1>5. \A r \in Lines :
        PriorCost(new, k, r) = PriorCost(led, k, r) + (IF r = led[k][i].run THEN c ELSE 0)
  BY <1>2, <1>3, <1>4, PriorOfClosed
<1>6. \A r \in Lines : r # led[k][i].run /\ r \in OpenRuns(led, k) => r \in OpenRuns(new, k)
  BY <1>3 DEF OpenRuns
<1>7. \A r \in Lines : PriorCost(led, k, r) \in Nat /\ d[k][r].cost \in Nat
  BY CountedType, SpentType
<1>8. ASSUME NEW r \in Lines
      PROVE  /\ PriorCost(new, k, r) <= e[k][r].cost
             /\ r \notin OpenRuns(new, k) => PriorCost(new, k, r) = e[k][r].cost
  <2>1. /\ PriorCost(led, k, r) <= d[k][r].cost
        /\ r \notin OpenRuns(led, k) => PriorCost(led, k, r) = d[k][r].cost
    BY DEF CountedOf
  <2>2. CASE r = led[k][i].run
    <3>1. PriorCost(new, k, r) = e[k][r].cost
      BY <1>5, <2>2
    <3>2. e[k][r].cost \in Nat
      BY SpentType
    <3> QED
      BY <3>1, <3>2
  <2>3. CASE r # led[k][i].run
    <3>1. PriorCost(new, k, r) = PriorCost(led, k, r)
      BY <1>5, <1>7, <2>3
    <3> QED
      BY <1>6, <2>1, <2>3, <3>1
  <2> QED
    BY <2>2, <2>3
<1> QED
  BY <1>8 DEF CountedOf

\* Appending lines that have cost nothing keeps them in agreement.
LEMMA MoreCounted ==
  ASSUME NEW led \in LedgerType, NEW new \in LedgerType, NEW d \in Disks, NEW k \in Tickets, CountedOf(led, d, k),
         DOMAIN led[k] \subseteq DOMAIN new[k], \A n \in DOMAIN led[k] : new[k][n] = led[k][n],
         \A n \in DOMAIN new[k] \ DOMAIN led[k] : new[k][n].cost = 0
  PROVE  CountedOf(new, d, k)
<1>1. \A r \in Lines : PriorCost(new, k, r) = PriorCost(led, k, r)
  BY PriorOfMore
<1>2. OpenRuns(led, k) \subseteq OpenRuns(new, k)
  BY DEF OpenRuns
<1> QED
  BY <1>1, <1>2 DEF CountedOf

\* A run whose line is open may spend: only closed lines have to agree with their runs.
LEMMA DearerCounted ==
  ASSUME NEW led \in LedgerType, NEW d \in Disks, NEW e \in Disks, Counted(led, d),
         NEW k \in Tickets, NEW r \in OpenRuns(led, k), NEW c \in Nat,
         \A l \in Tickets : \A s \in Lines :
           e[l][s].cost = IF l = k /\ s = r THEN d[l][s].cost + c ELSE d[l][s].cost
  PROVE  Counted(led, e)
<1> SUFFICES ASSUME NEW l \in Tickets, NEW s \in Lines
             PROVE  /\ PriorCost(led, l, s) <= e[l][s].cost
                    /\ s \notin OpenRuns(led, l) => PriorCost(led, l, s) = e[l][s].cost
  BY DEF Counted, CountedOf
<1>1. /\ PriorCost(led, l, s) <= d[l][s].cost
      /\ s \notin OpenRuns(led, l) => PriorCost(led, l, s) = d[l][s].cost
  BY DEF Counted, CountedOf
<1>2. PriorCost(led, l, s) \in Nat /\ d[l][s].cost \in Nat
  BY CountedType, SpentType
<1>3. e[l][s].cost = IF l = k /\ s = r THEN d[l][s].cost + c ELSE d[l][s].cost
  OBVIOUS
<1> QED
  BY <1>1, <1>2, <1>3

\* An attempt a tick read is as the ledger has it; or this process's, ended since;
\* or one the tick has closed.
Agrees(seen, led, left, p) ==
  \A k \in Tickets : \A i \in DOMAIN seen[k] :
    \/ seen[k][i] = led[k][i]
    \/ Open(seen[k][i]) /\ (seen[k][i].pid = p \/ <<k, i>> \notin left)
AsRead(p) == Agrees(read[p], ledger, todo[p], p)

\* What a tick read agrees with the ledger when each of its attempts does.
LEMMA AgreesWhere ==
  ASSUME NEW seen, NEW led, NEW left, NEW p,
         \A k \in Tickets : \A i \in DOMAIN seen[k] :
           \/ seen[k][i] = led[k][i]
           \/ Open(seen[k][i]) /\ (seen[k][i].pid = p \/ <<k, i>> \notin left)
  PROVE  Agrees(seen, led, left, p)
  BY Zenon DEF Agrees

\* The fewer attempts a tick has still to look at, the less it has to agree.
LEMMA AgreesLess ==
  ASSUME NEW seen, NEW led, NEW left, NEW rest, NEW p, Agrees(seen, led, left, p), rest \subseteq left
  PROVE  Agrees(seen, led, rest, p)
<1>1. \A k \in Tickets : \A i \in DOMAIN seen[k] : <<k, i>> \notin left => <<k, i>> \notin rest
  OBVIOUS
<1>2. \A k \in Tickets : \A i \in DOMAIN seen[k] :
         \/ seen[k][i] = led[k][i]
         \/ Open(seen[k][i]) /\ (seen[k][i].pid = p \/ <<k, i>> \notin left)
  BY Zenon DEF Agrees
<1>3. \A k \in Tickets : \A i \in DOMAIN seen[k] :
         \/ seen[k][i] = led[k][i]
         \/ Open(seen[k][i]) /\ (seen[k][i].pid = p \/ <<k, i>> \notin rest)
  BY <1>1, <1>2, Zenon
<1> QED
  BY <1>3, AgreesWhere

\* What a tick decides by counts the runs.
Fresh(p) ==
  /\ at[p] \in {"recover", "wrote", "select"} => Counted(read[p], disk)
  /\ at[p] \in {"recover", "wrote"} => AsRead(p)

\* A tick that is to start a run, the only one, knows what was spent, and that
\* there is money left.
Budgeted(p) ==
  at[p] = "launch" /\ plan[p] # {} =>
    /\ jobs[p] = {} /\ SpentBy(disk) <= usd[p] /\ usd[p] < MaxUSDPerDay
    /\ \A k, l \in plan[p] : k = l

\* While a run goes on uncancelled the day's money is not passed, and what it may
\* still spend is left of it.
Allowance(p) ==
  \A j \in jobs[p] : j.at \in {"building", "going"} =>
    /\ SpentBy(disk) <= MaxUSDPerDay
    /\ SpentBy(disk) + j.allow <= MaxUSDPerDay + disk[j.key][j.run].cost

Purse(p) == Fresh(p) /\ Budgeted(p) /\ Allowance(p)
Money == Counted(ledger, disk) /\ \A p \in Procs : Purse(p)

\* A day of one process after the other, with one run at a time, none of them so
\* quiet under a live process that it is taken for orphaned.
InTurn == ~ByHand /\ scene.inTurn /\ scene.concurrency = 1 /\ ~scene.hush

\* The others have ended, or not begun.
LEMMA OthersAway ==
  ASSUME Shapes, Alone, scene.inTurn, NEW p \in Procs, Up(p)
  PROVE  \A q \in Procs \ {p} : ~Up(q) /\ at[q] = "idle" /\ jobs[q] = {}
BY DEF Shapes, Formed, Placed, Alone, Up

\* A process with no job that is not at its ledger owes nothing to the day's purse.
LEMMA AwayPurse ==
  ASSUME NEW q \in Procs, at'[q] \notin {"recover", "wrote", "select", "launch"}, jobs'[q] = {}
  PROVE  Purse(q)'
BY DEF Purse, Fresh, Budgeted, Allowance

\* When one process alone is up and moves, the purses of the others are as they were.
LEMMA OthersPurse ==
  ASSUME Shapes, Alone, InTurn, NEW p \in Procs, Up(p),
         \A q \in Procs \ {p} : at'[q] = at[q] /\ jobs'[q] = jobs[q],
         Counted(ledger', disk'), Purse(p)'
  PROVE  Money'
<1>1. \A q \in Procs \ {p} : at'[q] = "idle" /\ jobs'[q] = {}
  BY OthersAway DEF InTurn
<1>2. \A q \in Procs \ {p} : Purse(q)'
  BY <1>1, AwayPurse
<1> QED
  BY <1>2 DEF Money

\* The lock, and the processes' lives, spend nothing.
LEMMA IdleMoney ==
  ASSUME Types, Money, UNCHANGED <<ledger, disk>>,
         \A q \in Procs :
           /\ at'[q] \in {"recover", "wrote", "select", "launch"} =>
                at'[q] = at[q] /\ UNCHANGED <<read[q], todo[q], plan[q], usd[q]>>
           /\ jobs'[q] = jobs[q] \/ jobs'[q] = {}
  PROVE  Money'
<1> SUFFICES ASSUME NEW q \in Procs PROVE Purse(q)'
  BY DEF Money
<1>1. Purse(q)
  BY DEF Money
<1>2. Fresh(q)'
  BY <1>1 DEF Purse, Fresh, AsRead
<1>3. Budgeted(q)'
  BY <1>1 DEF Purse, Budgeted
<1>4. Allowance(q)'
  BY <1>1 DEF Purse, Allowance
<1> QED
  BY <1>2, <1>3, <1>4 DEF Purse

\* A read tells a tick what the ledger does.
LEMMA ReadMoney ==
  ASSUME Shapes, Alone, InTurn, Money, NEW p \in Procs, Read(p)
  PROVE  Money'
<1>1. /\ read' = [read EXCEPT ![p] = ledger] /\ at' = [at EXCEPT ![p] = "recover"]
      /\ at[p] = "read" /\ UNCHANGED <<plan, usd, jobs, ledger, disk>>
  BY DEF Read, Goes
<1>2. read'[p] = ledger /\ at'[p] = "recover" /\ \A q \in Procs \ {p} : at'[q] = at[q]
  BY <1>1 DEF Shapes, Formed, Types, WatcherTypes
<1>3. Up(p)
  BY <1>1 DEF Shapes, Formed, Placed, Up
<1>4. Counted(ledger, disk) /\ Allowance(p)
  BY DEF Money, Purse
<1>5. Fresh(p)'
  BY <1>1, <1>2, <1>4 DEF Fresh, AsRead, Agrees
<1>6. Budgeted(p)'
  BY <1>2 DEF Budgeted
<1>7. Allowance(p)'
  BY <1>1, <1>4 DEF Allowance
<1>8. Purse(p)'
  BY <1>5, <1>6, <1>7 DEF Purse
<1> QED
  BY <1>1, <1>2, <1>3, <1>4, <1>8, OthersPurse

\* A plan is made knowing what was spent, and for the one run there is room for.
LEMMA SelectMoney ==
  ASSUME Shapes, Alone, InTurn, Money, NEW p \in Procs, Select(p)
  PROVE  Money'
<1> USE DEF Shapes, Formed
<1>1. at[p] = "select" /\ UNCHANGED <<scene, read, todo, jobs, ledger, disk>>
  BY DEF Select
<1>2. Up(p) /\ Fresh(p) /\ Allowance(p) /\ Counted(ledger, disk)
  BY <1>1 DEF Placed, Up, Money, Purse
<1>3. CASE at' = [at EXCEPT ![p] = "end"] /\ UNCHANGED <<plan, usd>>
  BY <1>1, <1>3, IdleMoney DEF Types, WatcherTypes
<1>4. CASE /\ ~Gated(read[p]) /\ at' = [at EXCEPT ![p] = "launch"] /\ usd' = [usd EXCEPT ![p] = USDToday(read[p])]
           /\ \E ks \in SUBSET Wanted(read[p]) :
                /\ ks # {} /\ Cardinality(ks) + Cardinality(jobs[p]) <= scene.concurrency
                /\ plan' = [plan EXCEPT ![p] = ks]
  <2>1. PICK ks \in SUBSET Wanted(read[p]) :
          /\ ks # {} /\ Cardinality(ks) + Cardinality(jobs[p]) <= scene.concurrency
          /\ plan' = [plan EXCEPT ![p] = ks]
    BY <1>4
  <2>2. /\ at'[p] = "launch" /\ plan'[p] = ks /\ usd'[p] = USDToday(read[p])
        /\ \A q \in Procs \ {p} : at'[q] = at[q]
    BY <1>4, <2>1 DEF Types, WatcherTypes
  <2>3. IsFiniteSet(ks) /\ IsFiniteSet(jobs[p])
    <3>1. ks \subseteq Tickets
      BY SceneType DEF Wanted, Types
    <3> QED
      BY <3>1, FS_Subset, ShadowAssumption DEF Types
  <2>4. jobs[p] = {} /\ \A k, l \in ks : k = l
    <3>1. /\ Cardinality(ks) \in Nat /\ Cardinality(jobs[p]) \in Nat
          /\ Cardinality(ks) = 0 <=> ks = {}
          /\ Cardinality(jobs[p]) = 0 <=> jobs[p] = {}
      BY <2>3, FS_CardinalityType, FS_EmptySet
    <3>2. Cardinality(ks) + Cardinality(jobs[p]) <= 1
      BY <2>1 DEF InTurn
    <3>3. Cardinality(ks) = 1 /\ Cardinality(jobs[p]) = 0
      BY <2>1, <3>1, <3>2
    <3>4. \E x : ks = {x}
      BY <2>3, <3>3, FS_Singleton
    <3> QED
      BY <3>1, <3>3, <3>4
  <2>5. SpentBy(disk) <= USDToday(read[p]) /\ USDToday(read[p]) < MaxUSDPerDay
    <3>1. read[p] \in LedgerType /\ Counted(read[p], disk)
      BY <1>1, <1>2 DEF Fresh, Types
    <3>2. USDToday(read[p]) \in Nat /\ MaxUSDPerDay \in Nat
      BY <3>1, TodayType, ShadowAssumption
    <3>3. ~(USDToday(read[p]) >= MaxUSDPerDay)
      BY <1>4 DEF Gated
    <3>4. SpentBy(disk) <= USDToday(read[p])
      BY <3>1, TodayCovers
    <3> QED
      BY <3>2, <3>3, <3>4
  <2>6. Fresh(p)'
    BY <2>2 DEF Fresh
  <2>7. Budgeted(p)'
    BY <1>1, <2>2, <2>4, <2>5 DEF Budgeted
  <2>8. Allowance(p)'
    BY <1>1, <1>2 DEF Allowance
  <2>9. Purse(p)'
    BY <2>6, <2>7, <2>8 DEF Purse
  <2> QED
    BY <1>1, <1>2, <2>2, <2>9, OthersPurse
<1> QED
  BY <1>3, <1>4 DEF Select, Goes

\* A recovery closes a ticket's last attempt, as it read it, and counts what the
\* run cost beyond what was counted for it.
LEMMA RecoverCloses ==
  ASSUME Shapes, Ticks, Money, ~scene.hush, NEW p \in Procs, Up(p), NEW x \in todo[p], Recover(p, x)
  PROVE  LET k == x[1]
             r == RunOf(p, x)
         IN  /\ x[2] \in DOMAIN ledger[k] /\ AttemptOf(ledger, k, r) = x[2] /\ ledger[k][x[2]].run = r
             /\ Added(read[p], k, r) \in Nat
             /\ PriorCost(ledger, k, r) + Added(read[p], k, r) = disk[k][r].cost
<1> USE DEF Shapes, Formed
<1> DEFINE k == x[1]
           i == x[2]
           n == Len(ledger[k])
           r == RunOf(p, x)
           old == read[p]
<1>1. at[p] \in {"recover", "wrote"} /\ Lost(p, x)
  BY LooksIs DEF Recover
<1>2. /\ k \in Tickets /\ i \in DOMAIN old[k] /\ Open(old[k][i]) /\ r = old[k][i].run /\ r \in Lines
      /\ old[k][i].pid # p
  <2>1. ~Up(Seen(p, x).pid)
    BY <1>1 DEF Lost, Orphaned
  <2> QED
    BY <2>1, SeenIs DEF Seen, RunOf
<1>3. /\ old \in LedgerType /\ ledger \in LedgerType /\ Fresh(p) /\ Ticked(p)
      /\ Counted(old, disk) /\ AsRead(p)
  BY <1>1 DEF Types, Money, Purse, Fresh, Ticks
<1>4. x = <<k, i>>
  BY DEF Types, WatcherTypes
<1>5. n \in Nat /\ DOMAIN ledger[k] = 1 .. n /\ DOMAIN old[k] = 1 .. n /\ Len(old[k]) = n
  <2>1. Len(old[k]) = n
    BY <1>1, <1>2, <1>3 DEF Ticked, Decides
  <2>2. Len(old[k]) \in Nat /\ DOMAIN old[k] = 1 .. Len(old[k])
    BY <1>2, <1>3, Indexed
  <2>3. n \in Nat /\ DOMAIN ledger[k] = 1 .. n
    BY <1>2, <1>3, Indexed
  <2> QED
    BY <2>1, <2>2, <2>3
<1>6. i = n
  <2>1. i < Len(old[k]) => ~Open(old[k][i])
    BY <1>2, <1>3 DEF Ticked, OnlyLast
  <2> QED
    BY <1>2, <1>5, <2>1
<1>7. \A m \in DOMAIN ledger[k] : old[k][m] = ledger[k][m]
  <2> SUFFICES ASSUME NEW m \in DOMAIN ledger[k] PROVE old[k][m] = ledger[k][m]
    OBVIOUS
  <2>1. \/ old[k][m] = ledger[k][m]
        \/ Open(old[k][m]) /\ (old[k][m].pid = p \/ <<k, m>> \notin todo[p])
    BY <1>2, <1>3, <1>5 DEF AsRead, Agrees
  <2>2. CASE m = n
    <3>1. <<k, m>> \in todo[p]
      BY <1>4, <1>6, <2>2
    <3> QED
      BY <1>2, <1>6, <2>1, <2>2, <3>1
  <2>3. CASE m # n
    <3>1. m < Len(old[k]) => ~Open(old[k][m])
      BY <1>2, <1>3, <1>5 DEF Ticked, OnlyLast
    <3> QED
      BY <1>5, <2>1, <2>3, <3>1
  <2> QED
    BY <2>2, <2>3
<1>8. i \in DOMAIN ledger[k] /\ ledger[k][i].run = r
  BY <1>2, <1>5, <1>7
<1> HIDE DEF r, old, k, i
<1>9. AttemptOf(ledger, k, r) = i
  <2>1. AttemptOf(ledger, k, r) \in DOMAIN ledger[k] /\ i <= AttemptOf(ledger, k, r)
    BY <1>2, <1>3, <1>8, LastNamed
  <2> HIDE DEF n
  <2> QED
    BY <1>5, <1>6, <2>1
<1>10. PriorCost(old, k, r) = PriorCost(ledger, k, r)
  <2>1. DOMAIN old[k] = DOMAIN ledger[k]
    BY <1>5
  <2> QED
    BY <1>2, <1>3, <1>7, <2>1, PriorSame
<1>11. Added(old, k, r) \in Nat /\ PriorCost(old, k, r) + Added(old, k, r) = disk[k][r].cost
  <2>1. PriorCost(old, k, r) <= disk[k][r].cost
    BY <1>2, <1>3 DEF Counted, CountedOf
  <2> QED
    BY <1>2, <1>3, <2>1, AddedType
<1> QED
  BY <1>8, <1>9, <1>10, <1>11 DEF r, old, k, i

\* What a process's own runs may spend is as it was, when no run's cost changes.
LEMMA SameAllowance ==
  ASSUME Types, disk' \in Disks, NEW p \in Procs, UNCHANGED jobs, Allowance(p),
         \A k \in Tickets : \A r \in Lines : disk'[k][r].cost = disk[k][r].cost
  PROVE  Allowance(p)'
<1> DEFINE after == disk'
<1>1. SpentBy(after) = SpentBy(disk)
  <2>1. disk \in Disks /\ after \in Disks
    BY DEF Types, Disks
  <2> HIDE DEF after
  <2> QED
    BY <2>1, SpentSame DEF after
<1>2. \A j \in jobs[p] : after[j.key][j.run].cost = disk[j.key][j.run].cost
  BY JobType
<1> HIDE DEF after
<1>3. \A j \in jobs[p] : j.at \in {"building", "going"} =>
        /\ SpentBy(after) <= MaxUSDPerDay
        /\ SpentBy(after) + j.allow <= MaxUSDPerDay + after[j.key][j.run].cost
  BY <1>1, <1>2 DEF Allowance
<1> QED
  BY <1>3 DEF Allowance, after

\* A ledger agrees with the runs as long as none of their costs changes.
LEMMA SameCounted ==
  ASSUME NEW led \in LedgerType, NEW d \in Disks, NEW e \in Disks, Counted(led, d),
         \A k \in Tickets : \A r \in Lines : e[k][r].cost = d[k][r].cost
  PROVE  Counted(led, e)
<1> SUFFICES ASSUME NEW k \in Tickets PROVE CountedOf(led, e, k)
  BY DEF Counted
<1>1. CountedOf(led, d, k)
  BY DEF Counted
<1> QED
  BY <1>1, StillCounted

\* Recovery books what an orphan had spent, so it keeps Money.
LEMMA RecoverMoney ==
  ASSUME Shapes, Ticks, Alone, InTurn, Money, NEW p \in Procs, NEW x \in todo[p], Recover(p, x)
  PROVE  Money'
<1> USE DEF Shapes, Formed
<1> DEFINE new == ledger'
           after == disk'
           k == x[1]
           i == x[2]
           r == RunOf(p, x)
           c == Added(read[p], k, r)
<1>1. /\ new \in LedgerType /\ after \in Disks
      /\ \A l \in Tickets : \A s \in Lines : after[l][s].cost = disk[l][s].cost
      /\ Looks(p, x) /\ at' = [at EXCEPT ![p] = "wrote"]
  BY RecoverEffect DEF Disks
<1>2. /\ at[p] \in {"recover", "wrote"} /\ UNCHANGED <<read, plan, usd, jobs>>
      /\ at'[p] = "wrote" /\ todo'[p] = todo[p] \ {x} /\ \A q \in Procs \ {p} : at'[q] = at[q]
  BY <1>1, LooksIs DEF Types, WatcherTypes
<1>3. /\ Up(p) /\ ledger \in LedgerType /\ disk \in Disks /\ read[p] \in LedgerType
      /\ ~scene.hush /\ k \in Tickets /\ x = <<k, i>>
  BY <1>2, SeenIs DEF Placed, Up, Types, WatcherTypes, Disks, InTurn
<1>4. /\ Counted(ledger, disk) /\ Allowance(p) /\ Counted(read[p], disk) /\ AsRead(p)
  BY <1>2 DEF Money, Purse, Fresh
<1>5. /\ i \in DOMAIN ledger[k] /\ AttemptOf(ledger, k, r) = i /\ ledger[k][i].run = r
      /\ c \in Nat /\ PriorCost(ledger, k, r) + c = disk[k][r].cost
  BY <1>3, RecoverCloses
<1>6. PICK end \in {"answer", "again"} : Rewritten(ledger, new, k, i, end, c)
  BY <1>5, RecoverEffect
<1>7. Open(read[p][k][i])
  BY SeenIs DEF Seen
<1> HIDE DEF new, after, k, i, r, c
<1>8. Counted(new, after)
  <2> SUFFICES ASSUME NEW l \in Tickets PROVE CountedOf(new, after, l)
    BY DEF Counted
  <2>1. CountedOf(ledger, disk, l)
    BY <1>4 DEF Counted
  <2>2. CASE l = k
    <3>1. /\ DOMAIN new[k] = DOMAIN ledger[k] /\ new[k][i] = Finished(ledger[k][i], end, c)
          /\ \A n \in DOMAIN ledger[k] \ {i} : new[k][n] = ledger[k][n]
      BY <1>3, <1>5, <1>6 DEF Rewritten
    <3>2. PriorCost(ledger, k, ledger[k][i].run) + c = disk[k][ledger[k][i].run].cost
      BY <1>5
    <3>3. CountedOf(ledger, disk, k)
      BY <2>1, <2>2
    <3> QED
      BY <1>1, <1>3, <1>5, <2>2, <3>1, <3>2, <3>3, FinishedCounted
  <2>3. CASE l # k
    <3>1. DOMAIN new[l] = DOMAIN ledger[l] /\ \A n \in DOMAIN ledger[l] : new[l][n] = ledger[l][n]
      BY <1>6, <2>3 DEF Rewritten
    <3> QED
      BY <1>1, <1>3, <2>1, <3>1, StillCounted
  <2> QED
    BY <2>2, <2>3
<1>9. Counted(read[p], after)
  BY <1>1, <1>3, <1>4, SameCounted
<1>10. Agrees(read[p], new, todo'[p], p)
  <2> DEFINE left == todo'[p]
  <2> HIDE DEF left
  <2> SUFFICES ASSUME NEW l \in Tickets, NEW n \in DOMAIN read[p][l]
               PROVE  \/ read[p][l][n] = new[l][n]
                      \/ Open(read[p][l][n]) /\ (read[p][l][n].pid = p \/ <<l, n>> \notin left)
    BY AgreesWhere, Zenon DEF left
  <2> USE DEF left
  <2>1. CASE l = k /\ n = i
    BY <1>2, <1>3, <1>7, <2>1
  <2>2. CASE ~(l = k /\ n = i)
    <3>1. n \in DOMAIN ledger[l]
      <4>1. Len(read[p][l]) = Len(ledger[l])
        BY <1>2 DEF Ticks, Ticked, Decides
      <4>2. DOMAIN read[p][l] = 1 .. Len(read[p][l]) /\ DOMAIN ledger[l] = 1 .. Len(ledger[l])
        BY <1>3, Indexed
      <4> QED
        BY <4>1, <4>2
    <3>2. new[l][n] = ledger[l][n]
      BY <1>6, <2>2, <3>1 DEF Rewritten
    <3> QED
      BY <1>2, <1>4, <3>2 DEF AsRead, Agrees
  <2> QED
    BY <2>1, <2>2
<1>11. Fresh(p)'
  BY <1>2, <1>9, <1>10 DEF Fresh, AsRead, after, new
<1>12. Budgeted(p)'
  BY <1>2 DEF Budgeted
<1>13. Allowance(p)'
  BY <1>1, <1>2, <1>4, SameAllowance DEF after
<1>14. Purse(p)'
  BY <1>11, <1>12, <1>13 DEF Purse
<1> QED
  BY <1>2, <1>3, <1>8, <1>14, OthersPurse DEF new, after

\* A look that writes no finished line costs nothing, and forgets nothing.
LEMMA PassMoney ==
  ASSUME Shapes, Alone, InTurn, Money, NEW p \in Procs, NEW x \in todo[p], RecoverFails(p, x) \/ PassOver(p, x)
  PROVE  Money'
<1> USE DEF Shapes, Formed
<1> DEFINE after == disk'
<1>1. Looks(p, x) /\ UNCHANGED <<at, ledger>>
  BY DEF RecoverFails, PassOver
<1>2. /\ at[p] \in {"recover", "wrote"} /\ UNCHANGED <<read, plan, usd, jobs>>
      /\ todo'[p] = todo[p] \ {x}
  BY <1>1, LooksIs
<1>3. after \in Disks /\ \A l \in Tickets : \A s \in Lines : after[l][s].cost = disk[l][s].cost
  <2>1. CASE disk' = disk
    BY <2>1 DEF Types, Disks
  <2>2. CASE Interrupts(x, RunOf(p, x))
    BY <2>2, InterruptsEffect DEF Disks
  <2> QED
    BY <2>1, <2>2 DEF RecoverFails, PassOver
<1>4. Up(p) /\ ledger \in LedgerType /\ disk \in Disks /\ read[p] \in LedgerType
  BY <1>2 DEF Placed, Up, Types, Disks
<1>5. Counted(ledger, disk) /\ Allowance(p) /\ Counted(read[p], disk) /\ AsRead(p)
  BY <1>2 DEF Money, Purse, Fresh
<1> HIDE DEF after
<1>6. Counted(ledger, after) /\ Counted(read[p], after)
  BY <1>3, <1>4, <1>5, SameCounted
<1>7. AsRead(p)'
  <2>1. todo'[p] \subseteq todo[p]
    BY <1>2
  <2>2. Agrees(read[p], ledger, todo[p], p)
    BY <1>5 DEF AsRead
  <2>3. Agrees(read[p], ledger, todo'[p], p)
    BY <2>1, <2>2, AgreesLess
  <2> QED
    BY <1>1, <1>2, <2>3 DEF AsRead
<1>8. Fresh(p)'
  BY <1>1, <1>2, <1>6, <1>7 DEF Fresh, after
<1>9. Budgeted(p)'
  BY <1>1, <1>2 DEF Budgeted
<1>10. Allowance(p)'
  BY <1>2, <1>3, <1>5, SameAllowance DEF after
<1>11. Purse(p)'
  BY <1>8, <1>9, <1>10 DEF Purse
<1> QED
  BY <1>1, <1>2, <1>4, <1>6, <1>11, OthersPurse DEF after

\* The ledger read once more counts the runs as it did.
LEMMA RecoveredMoney ==
  ASSUME Shapes, Alone, InTurn, Money, NEW p \in Procs, Recovered(p)
  PROVE  Money'
<1> USE DEF Shapes, Formed
<1>1. /\ at[p] \in {"recover", "wrote"} /\ at' = [at EXCEPT ![p] = "select"]
      /\ read' = [read EXCEPT ![p] = IF at[p] = "wrote" THEN ledger ELSE read[p]]
      /\ UNCHANGED <<plan, usd, jobs, ledger, disk>>
  BY DEF Recovered, Goes
<1>2. /\ at'[p] = "select" /\ read'[p] \in {ledger, read[p]} /\ \A q \in Procs \ {p} : at'[q] = at[q]
  BY <1>1 DEF Types, WatcherTypes
<1>3. Up(p) /\ Counted(ledger, disk) /\ Counted(read[p], disk) /\ Allowance(p)
  BY <1>1 DEF Placed, Up, Money, Purse, Fresh
<1>4. Counted(read'[p], disk)
  BY <1>2, <1>3
<1>5. Fresh(p)'
  BY <1>1, <1>2, <1>4 DEF Fresh
<1>6. Budgeted(p)'
  BY <1>2 DEF Budgeted
<1>7. Allowance(p)'
  BY <1>1, <1>3 DEF Allowance
<1>8. Purse(p)'
  BY <1>5, <1>6, <1>7 DEF Purse
<1> QED
  BY <1>1, <1>2, <1>3, <1>8, OthersPurse

\* A launch counts nothing yet; what its run may spend was left of the day.
LEMMA StartMoney ==
  ASSUME Shapes, Alone, InTurn, Money, NEW p \in Procs, NEW k \in Tickets, Start(p, k)
  PROVE  Money'
<1> USE DEF Shapes, Formed
<1> DEFINE no == Len(read[p][k]) + 1
           n == Len(ledger[k])
           new == ledger'
<1>1. /\ at[p] = "launch" /\ k \in plan[p]
      /\ plan' = [plan EXCEPT ![p] = plan[p] \ {k}]
      /\ UNCHANGED <<scene, life, at, read, usd, disk>> /\ no \in Lines
  BY StartIs
<1>2. PICK r : Launched(p, k, no, r, usd[p])
  BY StartIs
<1>3. Up(p)
  BY <1>1 DEF Placed, Up
<1>4. /\ Counted(ledger, disk) /\ SpentBy(disk) <= usd[p] /\ usd[p] < MaxUSDPerDay
      /\ jobs[p] = {} /\ \A l \in plan[p] : l = k
  BY <1>1 DEF Money, Purse, Budgeted
<1> DEFINE a == [pid |-> p, run |-> r, no |-> no, end |-> "open", cost |-> 0]
           j == [key |-> k, run |-> r, at |-> "building", allow |-> Allowed(usd[p], k, r)]
<1>5. a \in Attempts /\ a.cost = 0
  <2>1. a.cost = 0
    OBVIOUS
  <2>2. usd[p] \in Nat /\ no \in Lines
    BY <1>1 DEF Types, WatcherTypes
  <2> HIDE DEF no
  <2>3. a \in Attempts
    BY <1>2, <2>2, LaunchTypes
  <2> QED
    BY <2>1, <2>3
<1>6. /\ r \in Lines /\ new = [ledger EXCEPT ![k] = Append(ledger[k], a)]
      /\ jobs' = [jobs EXCEPT ![p] = jobs[p] \cup {j}]
  BY <1>2 DEF Launched
<1>7. j.key = k /\ j.run = r /\ j.allow = Allowed(usd[p], k, r)
  OBVIOUS
<1> HIDE DEF a, j, no
<1>8. ledger \in LedgerType /\ disk \in Disks
  BY DEF Types, Disks
<1>9. /\ new \in LedgerType /\ \A l \in Tickets \ {k} : new[l] = ledger[l]
      /\ DOMAIN new[k] = 1 .. n + 1 /\ \A i \in DOMAIN ledger[k] : new[k][i] = ledger[k][i]
      /\ new[k][n + 1] = a
  BY <1>5, <1>6, <1>8, AppendEffect
<1>10. n \in Nat /\ DOMAIN ledger[k] = 1 .. n
  BY <1>8, Indexed
<1>11. Counted(new, disk)
  <2> SUFFICES ASSUME NEW l \in Tickets PROVE CountedOf(new, disk, l)
    BY DEF Counted
  <2>1. CountedOf(ledger, disk, l)
    BY <1>4 DEF Counted
  <2>2. CASE l = k
    <3>1. DOMAIN ledger[k] \subseteq DOMAIN new[k]
      BY <1>9, <1>10
    <3>2. \A i \in DOMAIN new[k] \ DOMAIN ledger[k] : i = n + 1
      BY <1>9, <1>10
    <3>3. \A i \in DOMAIN new[k] \ DOMAIN ledger[k] : new[k][i].cost = 0
      BY <1>5, <1>9, <3>2
    <3> HIDE DEF new
    <3> QED
      BY <1>8, <1>9, <2>1, <2>2, <3>1, <3>3, MoreCounted
  <2>3. CASE l # k
    <3>1. new[l] = ledger[l]
      BY <1>9, <2>3
    <3> HIDE DEF new
    <3> QED
      BY <1>8, <1>9, <2>1, <3>1, StillCounted
  <2> QED
    BY <2>2, <2>3
<1>12. jobs'[p] = {j} /\ plan'[p] = {} /\ \A q \in Procs \ {p} : jobs'[q] = jobs[q]
  BY <1>1, <1>4, <1>6 DEF Types, WatcherTypes
<1>13. /\ SpentBy(disk) + Allowed(usd[p], k, r) <= MaxUSDPerDay + disk[k][r].cost
       /\ SpentBy(disk) <= MaxUSDPerDay
  <2>0. usd[p] \in Nat
    BY DEF Types, WatcherTypes
  <2>1. /\ Allowed(usd[p], k, r) \in Int
        /\ Allowed(usd[p], k, r) <= MaxUSDPerDay - usd[p] + PriorCost(ledger, k, r)
    BY <2>0, AllowedType
  <2>2. PriorCost(ledger, k, r) <= disk[k][r].cost
    BY <1>4, <1>6 DEF Counted, CountedOf
  <2>3. SpentBy(disk) \in Nat /\ disk[k][r].cost \in Nat
    BY <1>6, <1>8, SpentType
  <2>4. usd[p] \in Nat /\ MaxUSDPerDay \in Nat /\ PriorCost(ledger, k, r) \in Nat
    BY <1>8, CountedType, ShadowAssumption DEF Types, WatcherTypes
  <2> QED
    BY <1>4, <2>1, <2>2, <2>3, <2>4
<1>14. Fresh(p)'
  BY <1>1 DEF Fresh
<1>15. Budgeted(p)'
  BY <1>12 DEF Budgeted
<1>16. Allowance(p)'
  BY <1>1, <1>7, <1>12, <1>13 DEF Allowance
<1>17. Purse(p)'
  BY <1>14, <1>15, <1>16 DEF Purse
<1> QED
  BY <1>1, <1>3, <1>4, <1>11, <1>12, <1>17, OthersPurse

\* A job that moved on is for the same run, with the same allowance, and goes on
\* only if it did.
Carries(l, m) ==
  /\ l.key = m.key /\ l.run = m.run /\ l.allow = m.allow
  /\ l.at \in {"building", "going"} => m.at \in {"building", "going"}

\* A run moves on, at no cost, and its ticket's lines are finished at most.
LEMMA MovedMoney ==
  ASSUME Types, Money, UNCHANGED watcher, disk' \in Disks,
         \A k \in Tickets : \A r \in Lines : disk'[k][r].cost = disk[k][r].cost,
         Counted(ledger', disk'),
         \A q \in Procs : at[q] \in {"recover", "wrote"} => AsRead(q)',
         \A q \in Procs : \A l \in jobs'[q] : \E m \in jobs[q] : Carries(l, m)
  PROVE  Money'
<1> DEFINE after == disk'
<1>1. disk \in Disks /\ \A q \in Procs : read[q] \in LedgerType
  BY DEF Types, Disks
<1>2. SpentBy(after) = SpentBy(disk)
  <2> HIDE DEF after
  <2> QED
    BY <1>1, SpentSame DEF after
<1>3. ASSUME NEW q \in Procs PROVE Purse(q)'
  <2>1. Fresh(q) /\ Budgeted(q) /\ Allowance(q)
    BY DEF Money, Purse
  <2>2. at[q] \in {"recover", "wrote", "select"} => Counted(read[q], after)
    <3> SUFFICES ASSUME at[q] \in {"recover", "wrote", "select"} PROVE Counted(read[q], after)
      OBVIOUS
    <3> DEFINE led == read[q]
    <3>1. /\ led \in LedgerType /\ Counted(led, disk) /\ after \in Disks
          /\ \A k \in Tickets : \A r \in Lines : after[k][r].cost = disk[k][r].cost
      BY <1>1, <2>1 DEF Fresh
    <3> HIDE DEF led, after
    <3>2. Counted(led, after)
      BY <1>1, <3>1, SameCounted
    <3> QED
      BY <3>2 DEF led
  <2>3. Fresh(q)'
    BY <2>2 DEF Fresh
  <2>4. Budgeted(q)'
    <3>1. jobs[q] = {} => jobs'[q] = {}
      OBVIOUS
    <3> QED
      BY <1>2, <2>1, <3>1 DEF Budgeted
  <2>5. Allowance(q)'
    <3> SUFFICES ASSUME NEW l \in jobs'[q], l.at \in {"building", "going"}
                 PROVE  /\ SpentBy(after) <= MaxUSDPerDay
                        /\ SpentBy(after) + l.allow <= MaxUSDPerDay + after[l.key][l.run].cost
      BY DEF Allowance
    <3>1. PICK m \in jobs[q] : Carries(l, m)
      OBVIOUS
    <3>2. after[m.key][m.run].cost = disk[m.key][m.run].cost
      BY JobType
    <3>3. /\ SpentBy(disk) <= MaxUSDPerDay
          /\ SpentBy(disk) + m.allow <= MaxUSDPerDay + disk[m.key][m.run].cost
      BY <2>1, <3>1 DEF Allowance, Carries
    <3> QED
      BY <1>2, <3>1, <3>2, <3>3 DEF Carries
  <2> QED
    BY <2>3, <2>4, <2>5 DEF Purse
<1> QED
  BY <1>3 DEF Money

\* A job moved on carries what it was.
LEMMA MovedJobs ==
  ASSUME Types, NEW p \in Procs, NEW j \in jobs[p],
         NEW to \in {"building", "going", "stopped", "ended", "recorded"}, Moves(p, j, to),
         to \in {"building", "going"} => j.at \in {"building", "going"}
  PROVE  \A q \in Procs : \A l \in jobs'[q] : \E m \in jobs[q] : Carries(l, m)
<1> DEFINE moved == [j EXCEPT !.at = to]
<1>1. Carries(moved, j)
  <2>1. moved.key = j.key /\ moved.run = j.run /\ moved.allow = j.allow /\ moved.at = to
    BY JobType DEF Job
  <2> HIDE DEF moved
  <2> QED
    BY <2>1 DEF Carries
<1>2. jobs' = [jobs EXCEPT ![p] = (jobs[p] \ {j}) \cup {moved}]
  BY DEF Moves, Types
<1> HIDE DEF moved
<1> SUFFICES ASSUME NEW q \in Procs, NEW l \in jobs'[q]
             PROVE  \E m \in jobs[q] : Carries(l, m)
  OBVIOUS
<1>3. CASE q = p /\ l = moved
  BY <1>1, <1>3
<1>4. CASE ~(q = p /\ l = moved)
  <2>1. l \in jobs[q]
    BY <1>2, <1>4 DEF Types
  <2> QED
    BY <2>1 DEF Carries
<1> QED
  BY <1>3, <1>4

\* A run that costs nothing meanwhile.
LEMMA QuietMoney ==
  ASSUME Types, Money, NEW p \in Procs, NEW j \in jobs[p], Prepare(p, j) \/ Settle(p, j) \/ Done(p, j)
  PROVE  Money'
<1>1. UNCHANGED watcher /\ ledger' = ledger
  BY DEF Prepare, Settle, Done
<1>2. disk' \in Disks /\ \A k \in Tickets : \A r \in Lines : disk'[k][r].cost = disk[k][r].cost
  <2>1. CASE Done(p, j)
    BY <2>1 DEF Done, Types, Disks
  <2>2. CASE Prepare(p, j) \/ Settle(p, j)
    BY <2>2, DiskEffect DEF Disks
  <2> QED
    BY <2>1, <2>2
<1>3. Counted(ledger', disk')
  <2> DEFINE after == disk'
  <2> SUFFICES ASSUME NEW k \in Tickets PROVE CountedOf(ledger, after, k)
    BY <1>1 DEF Counted
  <2>1. CountedOf(ledger, disk, k) /\ ledger \in LedgerType /\ disk \in Disks
    BY DEF Money, Counted, Types, Disks
  <2>2. after \in Disks /\ \A r \in Lines : after[k][r].cost = disk[k][r].cost
    BY <1>2
  <2> HIDE DEF after
  <2> QED
    BY <2>1, <2>2, StillCounted
<1>4. \A q \in Procs : at[q] \in {"recover", "wrote"} => AsRead(q)'
  BY <1>1 DEF Money, Purse, Fresh, AsRead
<1>5. \A q \in Procs : \A l \in jobs'[q] : \E m \in jobs[q] : Carries(l, m)
  <2>1. CASE Done(p, j)
    <3>1. \A q \in Procs : jobs'[q] \subseteq jobs[q]
      BY <2>1 DEF Done, Types
    <3> QED
      BY <3>1 DEF Carries
  <2>2. CASE Prepare(p, j)
    <3>1. j.at = "building" /\ \E to \in {"going", "ended"} : Moves(p, j, to)
      BY <2>2 DEF Prepare
    <3> QED
      BY <3>1, MovedJobs
  <2>3. CASE Settle(p, j)
    <3>1. Moves(p, j, "ended")
      BY <2>3 DEF Settle
    <3> QED
      BY <3>1, MovedJobs
  <2> QED
    BY <2>1, <2>2, <2>3
<1> QED
  BY <1>1, <1>2, <1>3, <1>4, <1>5, MovedMoney

\* A finished line counts what its run cost beyond what was counted for it.
LEMMA RecordMoney ==
  ASSUME Shapes, Core, Alone, InTurn, Money, NEW p \in Procs, NEW j \in jobs[p], RecordFinished(p, j)
  PROVE  Money'
<1> USE DEF Shapes, Formed
<1> DEFINE k == j.key
           r == j.run
           c == Added(ledger, k, r)
           new == ledger'
<1>1. k \in Tickets /\ r \in Lines /\ ledger \in LedgerType /\ disk \in Disks
  BY JobType DEF Types, Disks
<1>2. Moves(p, j, "recorded") /\ j.at = "ended" /\ UNCHANGED <<watcher, disk>>
  BY DEF RecordFinished
<1>3. j \in Driven(p) /\ Up(p)
  BY <1>2 DEF Driven, Placed
<1>4. PICK i \in DOMAIN ledger[k] : LastOf(ledger, k, r, i) /\ ledger[k][i].pid = p /\ Open(ledger[k][i])
  BY <1>3 DEF Core, Drives, Accounts, Accounted, InTurn
<1>5. c \in Nat /\ PriorCost(ledger, k, r) + c = disk[k][r].cost
  <2>1. PriorCost(ledger, k, r) <= disk[k][r].cost
    BY <1>1 DEF Money, Counted, CountedOf
  <2> HIDE DEF k, r
  <2> QED
    BY <1>1, <2>1, AddedType
<1>6. PICK end \in {"answer", "again"} : Rewritten(ledger, new, k, AttemptOf(ledger, k, r), end, c)
  BY RecordEffect
<1>7. AttemptOf(ledger, k, r) = i /\ ledger[k][i].run = r
  <2> HIDE DEF k, r
  <2> QED
    BY <1>1, <1>4, LastIs DEF LastOf
<1>8. /\ new \in LedgerType
      /\ \A l \in Tickets : DOMAIN new[l] = DOMAIN ledger[l]
      /\ \A l \in Tickets : \A n \in DOMAIN ledger[l] :
           new[l][n] = IF l = k /\ n = i THEN Finished(ledger[l][n], end, c) ELSE ledger[l][n]
  <2>1. new \in LedgerType
    BY RecordEffect
  <2> HIDE DEF c, k, r, new
  <2> QED
    BY <1>6, <1>7, <2>1 DEF Rewritten
<1> HIDE DEF c, k, r
<1>9. Counted(new, disk)
  <2> SUFFICES ASSUME NEW l \in Tickets PROVE CountedOf(new, disk, l)
    BY DEF Counted
  <2>1. CountedOf(ledger, disk, l)
    BY DEF Money, Counted
  <2> HIDE DEF new
  <2>2. CASE l = k
    <3>1. DOMAIN new[k] = DOMAIN ledger[k] /\ new[k][i] = Finished(ledger[k][i], end, c)
      BY <1>1, <1>4, <1>8
    <3>2. \A n \in DOMAIN ledger[k] \ {i} : new[k][n] = ledger[k][n]
      BY <1>1, <1>8
    <3>3. PriorCost(ledger, k, ledger[k][i].run) + c = disk[k][ledger[k][i].run].cost
      BY <1>5, <1>7
    <3>4. CountedOf(ledger, disk, k)
      BY <2>1, <2>2
    <3> QED
      BY <1>1, <1>4, <1>5, <1>6, <1>8, <2>2, <3>1, <3>2, <3>3, <3>4, FinishedCounted
  <2>3. CASE l # k
    <3>1. DOMAIN new[l] = DOMAIN ledger[l] /\ \A n \in DOMAIN ledger[l] : new[l][n] = ledger[l][n]
      BY <1>8, <2>3
    <3> QED
      BY <1>1, <1>8, <2>1, <3>1, StillCounted
  <2> QED
    BY <2>2, <2>3
<1>10. ASSUME NEW q \in Procs, at[q] \in {"recover", "wrote"}, NEW l \in Tickets, NEW n \in DOMAIN read[q][l]
       PROVE  \/ read[q][l][n] = new[l][n]
              \/ Open(read[q][l][n]) /\ (read[q][l][n].pid = q \/ <<l, n>> \notin todo[q])
  <2>1. q = p
    BY <1>3, <1>10, OthersAway DEF InTurn
  <2>2. \/ read[q][l][n] = ledger[l][n]
        \/ Open(read[q][l][n]) /\ (read[q][l][n].pid = q \/ <<l, n>> \notin todo[q])
    BY <1>10 DEF Money, Purse, Fresh, AsRead, Agrees
  <2>3. CASE l = k /\ n = i
    BY <1>4, <2>1, <2>2, <2>3
  <2>4. CASE ~(l = k /\ n = i)
    <3>1. n \in DOMAIN ledger[l]
      <4>1. Len(read[q][l]) <= Len(ledger[l])
        BY DEF Earlier
      <4>2. read[q] \in LedgerType
        BY DEF Types
      <4>3. /\ Len(read[q][l]) \in Nat /\ DOMAIN read[q][l] = 1 .. Len(read[q][l])
            /\ Len(ledger[l]) \in Nat /\ DOMAIN ledger[l] = 1 .. Len(ledger[l])
        BY <1>1, <4>2, Indexed
      <4> QED
        BY <4>1, <4>3
    <3>2. new[l][n] = ledger[l][n]
      BY <1>8, <2>4, <3>1
    <3> QED
      BY <2>2, <3>2
  <2> QED
    BY <2>3, <2>4
<1>11. \A q \in Procs : at[q] \in {"recover", "wrote"} => AsRead(q)'
  <2>1. \A q \in Procs : at[q] \in {"recover", "wrote"} => Agrees(read[q], new, todo[q], q)
    <3> SUFFICES ASSUME NEW q \in Procs, at[q] \in {"recover", "wrote"}
                 PROVE  Agrees(read[q], new, todo[q], q)
      OBVIOUS
    <3>1. \A l \in Tickets : \A n \in DOMAIN read[q][l] :
            \/ read[q][l][n] = new[l][n]
            \/ Open(read[q][l][n]) /\ (read[q][l][n].pid = q \/ <<l, n>> \notin todo[q])
      BY <1>10, Zenon
    <3> QED
      BY <3>1, AgreesWhere, Zenon
  <2> QED
    BY <1>2, <2>1 DEF AsRead, new
<1>12. \A q \in Procs : \A l \in jobs'[q] : \E m \in jobs[q] : Carries(l, m)
  BY <1>2, MovedJobs
<1> QED
  BY <1>1, <1>2, <1>9, <1>11, <1>12, MovedMoney

\* Where one run goes at a time, a process drives one.
LEMMA OneJob ==
  ASSUME Types, InTurn, NEW p \in Procs, NEW j \in jobs[p]
  PROVE  \A l \in jobs[p] : l = j
<1>1. IsFiniteSet(jobs[p]) /\ Cardinality(jobs[p]) <= 1
  BY DEF Types, InTurn
<1>2. Cardinality(jobs[p]) \in Nat /\ Cardinality(jobs[p]) # 0
  BY <1>1, FS_CardinalityType, FS_EmptySet
<1>3. Cardinality(jobs[p]) = 1
  BY <1>1, <1>2
<1>4. \E x : jobs[p] = {x}
  BY <1>1, <1>3, FS_Singleton
<1> QED
  BY <1>4

\* What a run that goes on has spent was its allowance; one that passed it is
\* cancelled; and its attempt is open, to whoever read it.
LEMMA SpendMoney ==
  ASSUME Shapes, Core, Ticks, Alone, InTurn, Money, NEW p \in Procs, NEW j \in jobs[p], Spend(p, j)
  PROVE  Money'
<1> USE DEF Shapes, Formed
<1> DEFINE k == j.key
           r == j.run
           after == disk'
           cost == disk[k][r].cost
<1>1. /\ k \in Tickets /\ r \in Lines /\ ledger \in LedgerType /\ disk \in Disks /\ j.allow \in Int
      /\ cost \in Nat
  BY JobType, SpentType DEF Types, Disks
<1>2. UNCHANGED <<watcher, ledger>> /\ j.at \in {"going", "stopped"}
  BY Zenon DEF Spend
<1>3. PICK n \in Nat : /\ after \in Disks /\ cost < n
                       /\ \A l \in Tickets : \A s \in Lines :
                            after[l][s].cost = IF l = k /\ s = r THEN n ELSE disk[l][s].cost
                       /\ IF n > j.allow THEN Moves(p, j, "stopped") ELSE UNCHANGED jobs
  BY DiskEffect DEF Disks
<1> DEFINE more == n - cost
<1>4. more \in Nat /\ n = cost + more
  BY <1>1, <1>3
<1>5. \A l \in Tickets : \A s \in Lines :
        after[l][s].cost = IF l = k /\ s = r THEN disk[l][s].cost + more ELSE disk[l][s].cost
  BY <1>3, <1>4
<1>6. j \in Driven(p) /\ Up(p)
  BY <1>2 DEF Driven, Placed
<1>7. PICK i \in DOMAIN ledger[k] : LastOf(ledger, k, r, i) /\ ledger[k][i].pid = p /\ Open(ledger[k][i])
  BY <1>6 DEF Core, Drives, Accounts, Accounted, InTurn
<1>8. r \in OpenRuns(ledger, k)
  BY <1>7 DEF OpenRuns, LastOf
<1> HIDE DEF k, r, after, cost, more
<1>9. Counted(ledger, after)
  <2>1. Counted(ledger, disk)
    BY DEF Money
  <2> QED
    BY <1>1, <1>3, <1>4, <1>5, <1>8, <2>1, DearerCounted
<1>10. SpentBy(after) = SpentBy(disk) + more /\ SpentBy(disk) \in Nat
  BY <1>1, <1>3, <1>4, <1>5, SpentMore, SpentType
<1>11. at[p] \in {"recover", "wrote", "select"} => Counted(read[p], after)
  <2> SUFFICES ASSUME at[p] \in {"recover", "wrote", "select"} PROVE Counted(read[p], after)
    OBVIOUS
  <2> DEFINE led == read[p]
  <2>1. led \in LedgerType /\ Counted(led, disk) /\ Len(led[k]) = Len(ledger[k])
    BY <1>1 DEF Types, Money, Purse, Fresh, Ticks, Ticked, Decides
  <2>2. i \in DOMAIN led[k]
    <3>1. DOMAIN led[k] = 1 .. Len(led[k]) /\ DOMAIN ledger[k] = 1 .. Len(ledger[k])
      BY <1>1, <2>1, Indexed
    <3> QED
      BY <1>7, <2>1, <3>1
  <2>3. SameAttempt(led[k][i], ledger[k][i])
    BY <1>1, <2>2 DEF Core, Knows, Follows
  <2> HIDE DEF led
  <2>4. r \in OpenRuns(led, k)
    <3>1. led[k][i].run = r /\ Open(led[k][i])
      BY <1>7, <2>3 DEF SameAttempt, LastOf
    <3> QED
      BY <2>2, <3>1 DEF OpenRuns
  <2>5. Counted(led, after)
    BY <1>1, <1>3, <1>4, <1>5, <2>1, <2>4, DearerCounted
  <2> QED
    BY <2>5 DEF led
<1>12. Fresh(p)'
  BY <1>2, <1>11 DEF Money, Purse, Fresh, AsRead, after
<1>13. Budgeted(p)'
  BY <1>2 DEF Money, Purse, Budgeted
<1>14. Allowance(p)'
  <2> SUFFICES ASSUME NEW l \in jobs'[p], l.at \in {"building", "going"}
               PROVE  /\ SpentBy(after) <= MaxUSDPerDay
                      /\ SpentBy(after) + l.allow <= MaxUSDPerDay + after[l.key][l.run].cost
    BY DEF Allowance, after
  <2>1. \A m \in jobs[p] : m = j
    BY OneJob DEF InTurn
  <2>2. CASE n > j.allow
    <3>1. l = [j EXCEPT !.at = "stopped"]
      BY <1>3, <2>1, <2>2 DEF Moves, Types
    <3>2. l.at = "stopped"
      BY <3>1, JobType DEF Job
    <3> QED
      BY <3>2
  <2>3. CASE ~(n > j.allow)
    <3>1. l = j
      BY <1>3, <2>1, <2>3
    <3>2. SpentBy(disk) + j.allow <= MaxUSDPerDay + cost /\ MaxUSDPerDay \in Nat
      BY <3>1, ShadowAssumption DEF Money, Purse, Allowance, k, r, cost
    <3>3. after[l.key][l.run].cost = n
      BY <1>1, <1>3, <3>1 DEF k, r
    <3> QED
      BY <1>1, <1>3, <1>4, <1>10, <2>3, <3>1, <3>2, <3>3
  <2> QED
    BY <2>2, <2>3
<1>15. Purse(p)'
  BY <1>12, <1>13, <1>14 DEF Purse
<1>16. \A q \in Procs \ {p} : at'[q] = at[q] /\ jobs'[q] = jobs[q]
  BY <1>2, <1>3 DEF Moves, Types
<1>17. Counted(ledger', disk')
  BY <1>2, <1>9 DEF after
<1> QED
  BY <1>6, <1>15, <1>16, <1>17, OthersPurse

\* Every step of such a day keeps it.
LEMMA NextMoney ==
  ASSUME Shapes, Core, Ticks, Alone, InTurn, Money, [Next]_vars
  PROVE  Money'
<1> USE DEF Shapes, Formed
<1>t. at \in [Procs -> Places]
  BY DEF Types, WatcherTypes
<1>1. ASSUME NEW p \in Procs, Pass(p) \/ Create(p) \/ Judge(p) \/ Remove(p) PROVE Money'
  <2>1. /\ UNCHANGED <<read, todo, plan, usd, jobs, ledger, disk>>
        /\ \E to \in {"read", "take", "look", "remove", "idle", "done"} : at' = [at EXCEPT ![p] = to]
    BY <1>1 DEF Pass, Create, Judge, Remove, Refused, Goes
  <2> QED
    BY <1>t, <2>1, IdleMoney
<1>2. ASSUME NEW p \in Procs, EndTick(p) \/ Die(p) PROVE Money'
  <2> DEFINE none == [k \in Tickets |-> << >>]
  <2>1. /\ read' = [read EXCEPT ![p] = none] /\ plan' = [plan EXCEPT ![p] = {}]
        /\ usd' = [usd EXCEPT ![p] = 0] /\ (jobs' = jobs \/ jobs' = [jobs EXCEPT ![p] = {}])
        /\ (todo' = todo \/ todo' = [todo EXCEPT ![p] = {}])
        /\ UNCHANGED <<ledger, disk>> /\ \E to \in {"idle", "done"} : at' = [at EXCEPT ![p] = to]
    BY <1>2 DEF EndTick, Die, Goes
  <2>2. /\ at'[p] \in {"idle", "done"} /\ (jobs'[p] = jobs[p] \/ jobs'[p] = {})
        /\ \A q \in Procs \ {p} : /\ read'[q] = read[q] /\ at'[q] = at[q] /\ plan'[q] = plan[q]
                                  /\ usd'[q] = usd[q] /\ jobs'[q] = jobs[q] /\ todo'[q] = todo[q]
    <3> HIDE DEF none
    <3> QED
      BY <1>t, <2>1 DEF Types, WatcherTypes
  <2> QED
    BY <2>1, <2>2, IdleMoney
<1>3. ASSUME NEW p \in Procs, Begin(p) \/ Leave(p) PROVE Money'
  <2>1. UNCHANGED <<at, read, todo, plan, usd, jobs, ledger, disk>>
    BY <1>3 DEF Begin, Leave
  <2> QED
    BY <2>1, IdleMoney
<1>4. ASSUME NEW p \in Procs, NEW k \in Tickets PROVE ~AskRun(p, k) /\ ~RunOne(p, k)
  <2>1. scene.kind[p] # "hand"
    BY DEF ByHand, InTurn
  <2> QED
    BY <2>1, RunOneIs, AskRunIs
<1>5. ASSUME NEW p \in Procs, Driving(p) PROVE Money'
  BY <1>5, QuietMoney, SpendMoney, RecordMoney DEF Driving
<1>6. ASSUME UNCHANGED vars PROVE Money'
  BY <1>6, IdleMoney
<1>7. ASSUME NEW p \in Procs, Ticking(p) PROVE Money'
  <2>1. CASE Recovering(p)
    <3>1. CASE \E x \in todo[p] : Recover(p, x)
      BY <3>1, RecoverMoney
    <3>2. CASE \E x \in todo[p] : RecoverFails(p, x) \/ PassOver(p, x)
      BY <3>2, PassMoney
    <3> QED
      BY <2>1, <3>1, <3>2, RecoveredMoney DEF Recovering
  <2> QED
    BY <1>2, <1>7, <2>1, ReadMoney, SelectMoney, StartMoney DEF Ticking
<1> QED
  BY <1>1, <1>2, <1>3, <1>4, <1>5, <1>6, <1>7 DEF Next, Watching

\* The initial state satisfies Money.
LEMMA InitMoney == Init => Money
<1> SUFFICES ASSUME Init PROVE Money
  OBVIOUS
<1>1. ledger \in LedgerType /\ disk \in Disks /\ MaxUSDPerDay \in Nat
  BY InitShapes, ShadowAssumption DEF Shapes, Formed, Types, Disks
<1>2. \A k \in Tickets : \A r \in Lines : disk[k][r].cost = 0
  BY DEF Init, NoState
<1>3. \A k \in Tickets : \A r \in Lines : PriorCost(ledger, k, r) = 0
  <2> SUFFICES ASSUME NEW k \in Tickets, NEW r \in Lines PROVE PriorCost(ledger, k, r) = 0
    OBVIOUS
  <2>1. Named(ledger, k, r) = {}
    BY DEF Init, Named
  <2> QED
    BY <1>1, <2>1, PriorIs, SumOfNone
<1>4. Counted(ledger, disk)
  BY <1>2, <1>3 DEF Counted, CountedOf
<1>5. \A p \in Procs : Purse(p)
  BY DEF Init, Purse, Fresh, Budgeted, Allowance
<1> QED
  BY <1>4, <1>5 DEF Money

\* The day within its caps, inductively.
DayInv == TicksInv /\ InOrder /\ Alone /\ (InTurn => Money)

\* DayInv is inductive under one watcher at a time.
LEMMA DayInductive ==
  /\ Init => DayInv
  /\ DayInv /\ OneWatcher /\ [Next]_vars => DayInv'
<1>1. ASSUME Init PROVE DayInv
  <2>1. InOrder /\ Alone
    BY <1>1 DEF Init, InOrder, Alone, Up
  <2> QED
    BY <1>1, <2>1, TicksInductive, InitMoney DEF DayInv
<1>2. ASSUME DayInv, OneWatcher, [Next]_vars PROVE DayInv'
  <2>1. TicksInv'
    BY <1>2, TicksInductive DEF DayInv
  <2>2. InOrder' /\ Alone'
    BY <1>2, NextOrder DEF DayInv, TicksInv, CoreInv, Shapes, Formed
  <2>3. ASSUME InTurn' PROVE Money'
    <3>1. InTurn
      BY <1>2, <2>3, SceneKept DEF InTurn, ByHand
    <3> QED
      BY <1>2, <3>1, NextMoney DEF DayInv, TicksInv, CoreInv, InTurn
  <2> QED
    BY <2>1, <2>2, <2>3 DEF DayInv
<1> QED
  BY <1>1, <1>2

\* The inductive invariant gives the caps of the day.
LEMMA DayCaps == DayInv => WithinCaps
<1> SUFFICES ASSUME DayInv, ~ByHand PROVE WithinCaps
  BY DEF WithinCaps
<1>1. RunsToday(ledger) <= scene.maxPerDay
  BY DEF DayInv, TicksInv, Ticks, Day
<1>2. ASSUME scene.inTurn, scene.concurrency = 1, ~scene.hush,
             NEW p \in Procs, NEW j \in jobs[p], j.at \in {"building", "going"}
      PROVE  Spent <= MaxUSDPerDay
  <2>1. SpentBy(disk) <= MaxUSDPerDay
    BY <1>2 DEF DayInv, InTurn, Money, Purse, Allowance
  <2> QED
    BY <2>1 DEF Spent, SpentBy, SpentOn
<1> QED
  BY <1>1, <1>2 DEF WithinCaps

\* While one process watches at a time, the watchers start no more tickets than the
\* day allows; and, of one process after the other with one run at a time, none that
\* is not cancelled goes on once the day's money is passed, through crashes,
\* recoveries and retries that carry on a run and its cost.
THEOREM WithinTheDay == Spec /\ []OneWatcher => []WithinCaps
<1>1. Init => DayInv
  BY DayInductive
<1>2. DayInv /\ OneWatcher /\ [Next]_vars => DayInv'
  BY DayInductive
<1> QED
  BY <1>1, <1>2, DayCaps, PTL DEF Spec

\* For two watchers at most the lock is enough, and all of it holds of every day.
COROLLARY TwoWatchersSafe ==
  TwoAtMost => (Spec => [](TypeOK /\ OneAttempt /\ ClosedByItsOwn /\ WithinCaps))
<1> SUFFICES ASSUME TwoAtMost PROVE Spec => [](TypeOK /\ OneAttempt /\ ClosedByItsOwn /\ WithinCaps)
  OBVIOUS
<1>1. Spec => []OneWatcher
  BY OneWatches
<1> QED
  BY <1>1, ShadowTypeCorrect, NeverTwice, NoneClosedUnderWay, WithinTheDay, PTL

=============================================================================
