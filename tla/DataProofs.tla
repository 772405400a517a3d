----------------------------- MODULE DataProofs -----------------------------
(***************************************************************************)
(* What the operators on data are worth: sums over finite sets, for the    *)
(* counters that are kept beside the parts they count, and selections from *)
(* a sequence.                                                             *)
(*                                                                         *)
(* The induction theorems of the library take an operator.  Here induction *)
(* is over a set instead, and follows from the pigeonhole principle: if n  *)
(* were the first number missing from S, adding 1 would map the members of *)
(* S up to n into those other than 0.                                      *)
(***************************************************************************)
EXTENDS Sums, Selection, TLAPS, FiniteSetTheorems, FunctionTheorems

----------------------------------------------------------------------------
(* Induction.                                                              *)

LEMMA NatSetInduction ==
  ASSUME NEW S \in SUBSET Nat, 0 \in S, \A n \in S : n + 1 \in S
  PROVE  S = Nat
  <1> SUFFICES ASSUME NEW m \in Nat, m \notin S PROVE FALSE
    OBVIOUS
  <1> DEFINE A == S \cap (0 .. m)
             B == A \ {0}
             f == [n \in A |-> n + 1]
  <1>1. IsFiniteSet(A) /\ IsFiniteSet(B) /\ Cardinality(B) = Cardinality(A) - 1
    <2>1. IsFiniteSet(0 .. m)
      BY FS_Interval
    <2>2. IsFiniteSet(A)
      BY <2>1, FS_Intersection
    <2>3. 0 \in A
      OBVIOUS
    <2> QED BY <2>2, <2>3, FS_RemoveElement
  <1>2. f \in Injection(A, B)
    <2>1. ASSUME NEW n \in A PROVE n + 1 \in B
      <3>1. n \in S /\ n \in Nat /\ n <= m /\ n # m
        OBVIOUS
      <3> QED BY <3>1
    <2>2. f \in [A -> B]
      BY <2>1
    <2>3. \A a, b \in A : f[a] = f[b] => a = b
      OBVIOUS
    <2> QED BY <2>2, <2>3, Fun_IsInj
  <1>3. Cardinality(A) <= Cardinality(B)
    BY <1>1, <1>2, FS_Injection
  <1>4. Cardinality(A) \in Nat
    BY <1>1, FS_CardinalityType
  <1> QED BY <1>1, <1>3, <1>4

\* A family of subsets of a finite set has them all, if it has the empty set and each
\* set that it has without any one of its members.
LEMMA SubsetInduction ==
  ASSUME NEW S, IsFiniteSet(S), NEW P \in SUBSET SUBSET S, {} \in P,
         \A T \in SUBSET S : T # {} /\ (\A x \in T : T \ {x} \in P) => T \in P
  PROVE  P = SUBSET S
  <1> DEFINE Has(n) == \A T \in SUBSET S : Cardinality(T) = n => T \in P
             N == {n \in Nat : Has(n)}
  <1>1. Has(0)
    BY FS_Subset, FS_EmptySet
  <1>2. ASSUME NEW n \in Nat, Has(n) PROVE Has(n + 1)
    <2> SUFFICES ASSUME NEW T \in SUBSET S, Cardinality(T) = n + 1 PROVE T \in P
      OBVIOUS
    <2>1. IsFiniteSet(T)
      BY FS_Subset
    <2>2. T # {}
      <3>1. Cardinality(T) # 0
        OBVIOUS
      <3> QED BY <3>1, FS_EmptySet
    <2>3. ASSUME NEW x \in T PROVE T \ {x} \in P
      <3>1. Cardinality(T \ {x}) = Cardinality(T) - 1
        BY <2>1, FS_RemoveElement
      <3>2. Cardinality(T \ {x}) = n
        BY <3>1
      <3> QED BY <1>2, <3>2
    <2> QED BY <2>2, <2>3
  <1> HIDE DEF Has
  <1>3. N = Nat
    <2>1. 0 \in N /\ \A n \in N : n + 1 \in N
      BY <1>1, <1>2
    <2> HIDE DEF N
    <2>2. N \in SUBSET Nat
      BY DEF N
    <2> QED BY <2>1, <2>2, NatSetInduction
  <1>4. ASSUME NEW T \in SUBSET S PROVE T \in P
    <2>1. Cardinality(T) \in Nat
      BY FS_Subset, FS_CardinalityType
    <2>2. Has(Cardinality(T))
      BY <1>3, <2>1
    <2> QED BY <2>2 DEF Has
  <1> QED BY <1>4
----------------------------------------------------------------------------
(* Sums.                                                                   *)

Member(s) == CHOOSE x \in s : TRUE

\* g has the sums of f over the sets of Sets, the last member taken out first.
Adds(f, g, Sets) ==
    \A s \in Sets : g[s] = IF s = {} THEN 0 ELSE f[Member(s)] + g[s \ {Member(s)}]

\* There is such a function,
LEMMA SumsExist ==
  ASSUME NEW S, IsFiniteSet(S), NEW f, \A x \in S : f[x] \in Int
  PROVE  \E g \in [SUBSET S -> Int] : Adds(f, g, SUBSET S)
  <1> DEFINE Upto(n) == {s \in SUBSET S : Cardinality(s) <= n}
             Has(n) == \E g \in [Upto(n) -> Int] : Adds(f, g, Upto(n))
             N == {n \in Nat : Has(n)}
  <1>1. \A s \in SUBSET S : /\ IsFiniteSet(s) /\ Cardinality(s) \in Nat
                            /\ Cardinality(s) = 0 <=> s = {}
    BY FS_Subset, FS_CardinalityType, FS_EmptySet
  <1>2. ASSUME NEW s \in SUBSET S, s # {}
        PROVE  /\ Member(s) \in s /\ s \ {Member(s)} \in SUBSET S
               /\ Cardinality(s \ {Member(s)}) = Cardinality(s) - 1
    <2>1. Member(s) \in s
      BY <1>2 DEF Member
    <2> QED BY <1>1, <2>1, FS_RemoveElement
  <1>3. Has(0)
    <2> DEFINE g == [s \in Upto(0) |-> 0]
    <2>1. \A s \in Upto(0) : s = {}
      BY <1>1
    <2>2. g \in [Upto(0) -> Int]
      OBVIOUS
    <2>3. Adds(f, g, Upto(0))
      BY <2>1 DEF Adds
    <2> QED BY <2>2, <2>3
  <1>4. ASSUME NEW n \in Nat, Has(n) PROVE Has(n + 1)
    <2>1. PICK g \in [Upto(n) -> Int] : Adds(f, g, Upto(n))
      BY <1>4
    <2> DEFINE h == [s \in Upto(n + 1) |->
                       IF s \in Upto(n) THEN g[s] ELSE f[Member(s)] + g[s \ {Member(s)}]]
    <2>2. ASSUME NEW s \in Upto(n + 1), s # {}
          PROVE  f[Member(s)] \in Int /\ s \ {Member(s)} \in Upto(n)
      BY <1>1, <1>2, <2>2
    <2>3. \A s \in Upto(n) : s \in Upto(n + 1)
      BY <1>1
    <2>4. {} \in Upto(n)
      BY <1>1
    <2> HIDE DEF Upto
    <2>5. h \in [Upto(n + 1) -> Int]
      <3> SUFFICES ASSUME NEW s \in Upto(n + 1) PROVE h[s] \in Int
        OBVIOUS
      <3>1. CASE s \in Upto(n)
        BY <3>1
      <3>2. CASE s \notin Upto(n)
        <4>1. f[Member(s)] \in Int /\ g[s \ {Member(s)}] \in Int
          BY <2>2, <2>4, <3>2
        <4> QED BY <3>2, <4>1
      <3> QED BY <3>1, <3>2
    <2>6. ASSUME NEW s \in Upto(n + 1), s # {}
          PROVE  h[s] = f[Member(s)] + h[s \ {Member(s)}]
      BY <2>1, <2>2, <2>3, <2>6 DEF Adds
    <2>7. h[{}] = 0
      BY <2>1, <2>3, <2>4 DEF Adds
    <2>8. Adds(f, h, Upto(n + 1))
      BY <2>6, <2>7 DEF Adds
    <2> QED BY <2>5, <2>8
  <1>5. Has(Cardinality(S))
    <2> HIDE DEF Has
    <2>1. 0 \in N /\ \A n \in N : n + 1 \in N
      BY <1>3, <1>4
    <2>2. N = Nat
      <3> HIDE DEF N
      <3>1. N \in SUBSET Nat
        BY DEF N
      <3> QED BY <2>1, <3>1, NatSetInduction
    <2> QED BY <1>1, <2>2
  <1>6. Upto(Cardinality(S)) = SUBSET S
    BY FS_Subset
  <1> QED BY <1>5, <1>6

\* and no other.
LEMMA SumsUnique ==
  ASSUME NEW S, IsFiniteSet(S), NEW f, NEW g, NEW h,
         Adds(f, g, SUBSET S), Adds(f, h, SUBSET S)
  PROVE  \A s \in SUBSET S : g[s] = h[s]
  <1> DEFINE P == {s \in SUBSET S : g[s] = h[s]}
  <1>1. {} \in P
    BY DEF Adds
  <1>2. ASSUME NEW T \in SUBSET S, T # {}, \A x \in T : T \ {x} \in P PROVE T \in P
    <2>1. Member(T) \in T
      BY <1>2 DEF Member
    <2> QED BY <1>2, <2>1 DEF Adds
  <1>3. P = SUBSET S
    <2> HIDE DEF P
    <2>1. P \in SUBSET SUBSET S
      BY DEF P
    <2> QED BY <1>1, <1>2, <2>1, SubsetInduction
  <1> QED BY <1>3

\* Total is the value of that function at the whole set.
LEMMA TotalIsSum ==
  ASSUME NEW S, IsFiniteSet(S), NEW f, NEW g \in [SUBSET S -> Int], Adds(f, g, SUBSET S)
  PROVE  Total(f, S) = g[S]
  <1> DEFINE Step(h) == [s \in SUBSET S |-> IF s = {} THEN 0
                                           ELSE LET x == CHOOSE x \in s : TRUE
                                                IN  f[x] + h[s \ {x}]]
             it == CHOOSE it : it = Step(it)
  <1>1. Total(f, S) = it[S]
    BY DEF Total, FoldFunctionOnSet, MapThenFoldSet
  <1>2. g = Step(g)
    BY DEF Adds, Member
  <1>3. it = Step(it)
    <2> HIDE DEF Step
    <2> QED BY <1>2
  <1>4. Adds(f, it, SUBSET S)
    <2>1. \A s \in SUBSET S : it[s] = Step(it)[s]
      BY <1>3
    <2> HIDE DEF it
    <2> QED BY <2>1 DEF Adds, Member
  <1> HIDE DEF it
  <1>5. it[S] = g[S]
    BY <1>4, SumsUnique
  <1> QED BY <1>1, <1>5

\* A sum of integers is one; it is 0 over the empty set, and any member may be the last
\* that is added.
LEMMA TotalEmpty ==
  ASSUME NEW f
  PROVE  Total(f, {}) = 0
  <1>1. IsFiniteSet({}) /\ \A x \in {} : f[x] \in Int
    BY FS_EmptySet
  <1>2. PICK g \in [SUBSET {} -> Int] : Adds(f, g, SUBSET {})
    BY <1>1, SumsExist
  <1> QED BY <1>1, <1>2, TotalIsSum DEF Adds

LEMMA TotalZero ==
  ASSUME NEW S, IsFiniteSet(S), NEW f, \A x \in S : f[x] = 0
  PROVE  Total(f, S) = 0
  <1> DEFINE g == [s \in SUBSET S |-> 0]
  <1>1. \A s \in SUBSET S : s # {} => f[Member(s)] = 0
    BY DEF Member
  <1>2. g \in [SUBSET S -> Int] /\ Adds(f, g, SUBSET S)
    BY <1>1 DEF Adds
  <1>3. g[S] = 0
    OBVIOUS
  <1> HIDE DEF g
  <1> QED BY <1>2, <1>3, TotalIsSum

LEMMA TotalOnes ==
  ASSUME NEW S, IsFiniteSet(S), NEW f, \A x \in S : f[x] = 1
  PROVE  Total(f, S) = Cardinality(S)
  <1> DEFINE g == [s \in SUBSET S |-> Cardinality(s)]
  <1>1. \A s \in SUBSET S : IsFiniteSet(s) /\ Cardinality(s) \in Nat
    BY FS_Subset, FS_CardinalityType
  <1>2. Cardinality({}) = 0
    BY FS_EmptySet
  <1>3. ASSUME NEW s \in SUBSET S, s # {}
        PROVE  g[s] = f[Member(s)] + g[s \ {Member(s)}]
    <2>1. Member(s) \in s
      BY <1>3 DEF Member
    <2>2. Cardinality(s \ {Member(s)}) = Cardinality(s) - 1
      BY <1>1, <2>1, FS_RemoveElement
    <2>3. s \ {Member(s)} \in SUBSET S /\ f[Member(s)] = 1
      BY <2>1
    <2> QED BY <1>1, <2>2, <2>3
  <1>4. g \in [SUBSET S -> Int] /\ g[{}] = 0
    BY <1>1, <1>2
  <1>5. g[S] = Cardinality(S)
    OBVIOUS
  <1> HIDE DEF g
  <1>6. Adds(f, g, SUBSET S)
    BY <1>3, <1>4 DEF Adds
  <1> QED BY <1>4, <1>5, <1>6, TotalIsSum

LEMMA TotalRemove ==
  ASSUME NEW S, IsFiniteSet(S), NEW f, \A x \in S : f[x] \in Int
  PROVE  /\ Total(f, S) \in Int
         /\ \A x \in S : Total(f, S) = f[x] + Total(f, S \ {x})
  <1>1. PICK g \in [SUBSET S -> Int] : Adds(f, g, SUBSET S)
    BY SumsExist
  <1>2. ASSUME NEW T \in SUBSET S PROVE Total(f, T) = g[T]
    <2> DEFINE h == [s \in SUBSET T |-> g[s]]
    <2>1. IsFiniteSet(T)
      BY FS_Subset
    <2>2. h \in [SUBSET T -> Int]
      BY <1>1
    <2>3. Adds(f, h, SUBSET T)
      <3> SUFFICES ASSUME NEW s \in SUBSET T
                   PROVE  h[s] = IF s = {} THEN 0 ELSE f[Member(s)] + h[s \ {Member(s)}]
        BY DEF Adds
      <3>1. s \in SUBSET S /\ s \ {Member(s)} \in SUBSET T
        OBVIOUS
      <3> QED BY <1>1, <3>1 DEF Adds
    <2>4. h[T] = g[T]
      OBVIOUS
    <2> HIDE DEF h
    <2> QED BY <2>1, <2>2, <2>3, <2>4, TotalIsSum
  <1> DEFINE P == {T \in SUBSET S : \A x \in T : g[T] = f[x] + g[T \ {x}]}
  <1>3. {} \in P
    OBVIOUS
  <1>4. ASSUME NEW T \in SUBSET S, T # {}, \A x \in T : T \ {x} \in P PROVE T \in P
    <2> DEFINE m == Member(T)
    <2>1. m \in T
      BY <1>4 DEF Member
    <2>2. g[T] = f[m] + g[T \ {m}]
      BY <1>1, <1>4 DEF Adds
    <2> HIDE DEF m
    <2> SUFFICES ASSUME NEW x \in T, x # m PROVE g[T] = f[x] + g[T \ {x}]
      BY <2>2
    <2>3. g[T \ {m}] = f[x] + g[(T \ {m}) \ {x}]
      BY <1>4, <2>1
    <2>4. g[T \ {x}] = f[m] + g[(T \ {x}) \ {m}]
      BY <1>4, <2>1
    <2>5. g[(T \ {m}) \ {x}] = g[(T \ {x}) \ {m}]
      <3>1. (T \ {m}) \ {x} = (T \ {x}) \ {m}
        OBVIOUS
      <3> QED BY <3>1
    <2>6. /\ f[x] \in Int /\ f[m] \in Int /\ g[(T \ {x}) \ {m}] \in Int
          /\ g[T \ {x}] \in Int /\ g[T \ {m}] \in Int /\ g[T] \in Int
      BY <1>1, <2>1
    <2> HIDE DEF P
    <2> QED BY <2>2, <2>3, <2>4, <2>5, <2>6
  <1>5. P = SUBSET S
    <2> HIDE DEF P
    <2>1. P \in SUBSET SUBSET S
      BY DEF P
    <2> QED BY <1>3, <1>4, <2>1, SubsetInduction
  <1>6. \A x \in S : g[S] = f[x] + g[S \ {x}]
    BY <1>5
  <1>7. g[S] \in Int
    BY <1>1
  <1> HIDE DEF P
  <1> QED BY <1>2, <1>6, <1>7

\* It is a sum of what f has on the set alone,
LEMMA TotalSame ==
  ASSUME NEW S, IsFiniteSet(S), NEW f, NEW g,
         \A x \in S : f[x] \in Int /\ g[x] = f[x]
  PROVE  Total(g, S) = Total(f, S)
  <1>1. PICK h \in [SUBSET S -> Int] : Adds(f, h, SUBSET S)
    BY SumsExist
  <1>2. Adds(g, h, SUBSET S)
    <2>1. ASSUME NEW s \in SUBSET S, s # {} PROVE Member(s) \in S
      BY <2>1 DEF Member
    <2> QED BY <1>1, <2>1 DEF Adds
  <1> QED BY <1>1, <1>2, TotalIsSum

\* grows by what a new member has,
LEMMA TotalAdd ==
  ASSUME NEW S, IsFiniteSet(S), NEW f, NEW x, x \notin S, \A y \in S \cup {x} : f[y] \in Int
  PROVE  Total(f, S \cup {x}) = f[x] + Total(f, S)
  <1>1. IsFiniteSet(S \cup {x}) /\ (S \cup {x}) \ {x} = S
    BY FS_AddElement
  <1> QED BY <1>1, TotalRemove

\* and changes by what the one that is changed does.
LEMMA TotalChange ==
  ASSUME NEW S, IsFiniteSet(S), NEW f, NEW g, NEW x \in S,
         \A y \in S : f[y] \in Int /\ g[y] \in Int,
         \A y \in S \ {x} : g[y] = f[y]
  PROVE  Total(g, S) = Total(f, S) + (g[x] - f[x])
  <1>1. IsFiniteSet(S \ {x})
    BY FS_RemoveElement
  <1>2. Total(g, S \ {x}) = Total(f, S \ {x})
    BY <1>1, TotalSame
  <1>3. Total(f, S) = f[x] + Total(f, S \ {x}) /\ Total(g, S) = g[x] + Total(g, S \ {x})
    BY TotalRemove
  <1>4. Total(f, S \ {x}) \in Int
    BY <1>1, TotalRemove
  <1> QED BY <1>2, <1>3, <1>4

----------------------------------------------------------------------------
(* Selections from a sequence.                                            *)

\* f has what of the first members of s is not in S.
Selects(f, s, S) ==
    /\ f[0] = <<>>
    /\ \A n \in 1 .. Len(s) : f[n] = IF s[n] \in S THEN f[n - 1] ELSE Append(f[n - 1], s[n])

LEMMA WithoutSelects ==
  ASSUME NEW T, NEW s \in Seq(T), NEW S
  PROVE  \E f \in [0 .. Len(s) -> Seq(T)] : Selects(f, s, S) /\ Without(s, S) = f[Len(s)]
  <1> DEFINE Step(f) == [n \in 0 .. Len(s) |->
                           IF n = 0 THEN <<>>
                           ELSE IF s[n] \in S THEN f[n - 1] ELSE Append(f[n - 1], s[n])]
             Upto(f, m) == /\ f[0] = <<>>
                           /\ \A n \in 1 .. m : f[n] = IF s[n] \in S THEN f[n - 1]
                                                       ELSE Append(f[n - 1], s[n])
             Has(m) == m <= Len(s) => \E f \in [0 .. m -> Seq(T)] : Upto(f, m)
             N == {m \in Nat : Has(m)}
             it == CHOOSE it : it = Step(it)
  <1>1. Len(s) \in Nat /\ \A n \in 1 .. Len(s) : s[n] \in T
    OBVIOUS
  <1>2. Has(0)
    <2> DEFINE f == [n \in 0 .. 0 |-> <<>>]
    <2>1. f \in [0 .. 0 -> Seq(T)] /\ Upto(f, 0)
      OBVIOUS
    <2> QED BY <2>1
  <1>3. ASSUME NEW m \in Nat, Has(m) PROVE Has(m + 1)
    <2> SUFFICES ASSUME m + 1 <= Len(s)
                 PROVE  \E g \in [0 .. m + 1 -> Seq(T)] : Upto(g, m + 1)
      OBVIOUS
    <2>1. PICK f \in [0 .. m -> Seq(T)] : Upto(f, m)
      BY <1>1, <1>3
    <2> DEFINE x == IF s[m + 1] \in S THEN f[m] ELSE Append(f[m], s[m + 1])
               g == [n \in 0 .. m + 1 |-> IF n \in 0 .. m THEN f[n] ELSE x]
    <2>2. x \in Seq(T)
      BY <1>1
    <2>3. g \in [0 .. m + 1 -> Seq(T)]
      BY <2>2
    <2>4. /\ g[m + 1] = x /\ g[0] = <<>>
          /\ \A n \in 0 .. m : g[n] = f[n]
      BY <2>1
    <2> HIDE DEF g
    <2>5. Upto(g, m + 1)
      <3> SUFFICES ASSUME NEW n \in 1 .. m + 1
                   PROVE  g[n] = IF s[n] \in S THEN g[n - 1] ELSE Append(g[n - 1], s[n])
        BY <2>4
      <3>1. CASE n = m + 1
        <4>1. n - 1 = m /\ g[m] = f[m]
          BY <2>4, <3>1
        <4> QED BY <2>4, <3>1, <4>1
      <3>2. CASE n # m + 1
        <4>1. n \in 1 .. m /\ n - 1 \in 0 .. m /\ n \in 0 .. m
          BY <3>2
        <4> QED BY <2>1, <2>4, <4>1
      <3> QED BY <3>1, <3>2
    <2> QED BY <2>3, <2>5
  <1>4. Has(Len(s))
    <2> HIDE DEF Has
    <2>1. 0 \in N /\ \A m \in N : m + 1 \in N
      BY <1>2, <1>3
    <2>2. N = Nat
      <3> HIDE DEF N
      <3>1. N \in SUBSET Nat
        BY DEF N
      <3> QED BY <2>1, <3>1, NatSetInduction
    <2> QED BY <1>1, <2>2
  <1>5. PICK f \in [0 .. Len(s) -> Seq(T)] : Upto(f, Len(s))
    BY <1>1, <1>4
  <1>6. f = Step(f)
    <2>1. ASSUME NEW n \in 0 .. Len(s) PROVE f[n] = Step(f)[n]
      <3>1. CASE n = 0
        BY <1>5, <3>1
      <3>2. CASE n # 0
        <4>1. n \in 1 .. Len(s)
          BY <1>1, <3>2
        <4> QED BY <1>5, <3>2, <4>1
      <3> QED BY <3>1, <3>2
    <2>2. f = [n \in 0 .. Len(s) |-> f[n]] /\ Step(f) = [n \in 0 .. Len(s) |-> Step(f)[n]]
      OBVIOUS
    <2> HIDE DEF Step
    <2> QED BY <2>1, <2>2
  <1>7. it = Step(it)
    <2> HIDE DEF Step
    <2> QED BY <1>6
  <1>8. Without(s, S) = it[Len(s)]
    BY DEF Without
  <1>9. Upto(it, Len(s))
    <2> HIDE DEF it
    <2>1. \A n \in 0 .. Len(s) : it[n] = Step(it)[n]
      BY <1>7
    <2>2. it[0] = <<>>
      BY <1>1, <2>1
    <2>3. ASSUME NEW n \in 1 .. Len(s)
          PROVE  it[n] = IF s[n] \in S THEN it[n - 1] ELSE Append(it[n - 1], s[n])
      <3>1. n \in 0 .. Len(s) /\ n # 0
        BY <1>1
      <3>2. it[n] = Step(it)[n]
        BY <2>1, <3>1
      <3> QED BY <3>1, <3>2
    <2> QED BY <2>2, <2>3
  <1>10. it \in [0 .. Len(s) -> Seq(T)]
    <2> HIDE DEF it
    <2>0. it[0] \in Seq(T)
      <3>1. it[0] = <<>>
        BY <1>9
      <3> QED BY <3>1
    <2> DEFINE M == {m \in Nat : m <= Len(s) => it[m] \in Seq(T)}
    <2>1. 0 \in M
      BY <2>0
    <2>2. ASSUME NEW m \in M PROVE m + 1 \in M
      <3> SUFFICES ASSUME m + 1 <= Len(s) PROVE it[m + 1] \in Seq(T)
        OBVIOUS
      <3>1. it[m] \in Seq(T) /\ s[m + 1] \in T /\ (m + 1) - 1 = m /\ m + 1 \in 1 .. Len(s)
        BY <1>1
      <3>2. it[m + 1] = IF s[m + 1] \in S THEN it[m] ELSE Append(it[m], s[m + 1])
        BY <1>9, <3>1
      <3> QED BY <3>1, <3>2
    <2>3. M = Nat
      <3> HIDE DEF M
      <3>1. M \in SUBSET Nat
        BY DEF M
      <3> QED BY <2>1, <2>2, <3>1, NatSetInduction
    <2>4. \A n \in 0 .. Len(s) : it[n] \in Seq(T)
      BY <1>1, <2>3
    <2>5. it = [n \in 0 .. Len(s) |-> it[n]]
      BY <1>7
    <2> QED BY <2>4, <2>5
  <1> HIDE DEF it
  <1> QED BY <1>8, <1>9, <1>10 DEF Selects

\* p has the places in the selection w of the members that are in it, one after the other.
Placed(p, s, S, w) ==
    /\ \A n \in 1 .. Len(s) : s[n] \notin S =>
          /\ p[n] = p[n - 1] + 1
          /\ p[n] \in DOMAIN w /\ w[p[n]] = s[n]
    /\ \A k \in DOMAIN w : \E n \in 1 .. Len(s) : s[n] \notin S /\ p[n] = k
    /\ p[Len(s)] = Len(w)

LEMMA WithoutPlaces ==
  ASSUME NEW T, NEW s \in Seq(T), NEW S
  PROVE  /\ Without(s, S) \in Seq(T)
         /\ \E p \in [0 .. Len(s) -> Nat] : Placed(p, s, S, Without(s, S))
  <1>1. PICK f \in [0 .. Len(s) -> Seq(T)] : Selects(f, s, S) /\ Without(s, S) = f[Len(s)]
    BY WithoutSelects
  <1>2. Len(s) \in Nat /\ DOMAIN s = 1 .. Len(s)
    OBVIOUS
  <1>3. PICK p \in [0 .. Len(s) -> Nat] : \A n \in 0 .. Len(s) : p[n] = Len(f[n])
    <2>1. \A n \in 0 .. Len(s) : f[n] \in Seq(T) /\ Len(f[n]) \in Nat
      BY <1>1
    <2>2. [n \in 0 .. Len(s) |-> Len(f[n])] \in [0 .. Len(s) -> Nat]
      BY <2>1
    <2> QED BY <2>2
  <1> DEFINE Fits(m) == /\ \A n \in 1 .. m : s[n] \notin S =>
                              /\ p[n] = p[n - 1] + 1
                              /\ p[n] \in DOMAIN f[m] /\ f[m][p[n]] = s[n]
                        /\ \A k \in DOMAIN f[m] : \E n \in 1 .. m : s[n] \notin S /\ p[n] = k
             M == {m \in Nat : m <= Len(s) => Fits(m)}
  <1>4. Fits(0)
    <2>1. f[0] = <<>>
      BY <1>1 DEF Selects
    <2>2. DOMAIN f[0] = {} /\ 1 .. 0 = {}
      BY <2>1
    <2> QED BY <2>2
  <1>5. ASSUME NEW m \in Nat, Fits(m), m + 1 <= Len(s) PROVE Fits(m + 1)
    <2>1. /\ m + 1 \in 1 .. Len(s) /\ (m + 1) - 1 = m /\ m \in 0 .. Len(s)
          /\ m + 1 \in 0 .. Len(s) /\ f[m] \in Seq(T) /\ s[m + 1] \in T
      BY <1>1, <1>2, <1>5
    <2>2. f[m + 1] = IF s[m + 1] \in S THEN f[m] ELSE Append(f[m], s[m + 1])
      BY <1>1, <2>1 DEF Selects
    <2>3. \A n \in 1 .. m + 1 : n = m + 1 \/ n \in 1 .. m
      OBVIOUS
    <2>4. \A n \in 1 .. m : n \in 1 .. m + 1
      OBVIOUS
    <2>5. CASE s[m + 1] \in S
      BY <1>5, <2>2, <2>3, <2>4, <2>5
    <2>6. CASE s[m + 1] \notin S
      <3> DEFINE g == Append(f[m], s[m + 1])
                 L == Len(f[m])
      <3>1. /\ f[m + 1] = g /\ L \in Nat /\ DOMAIN f[m] = 1 .. L
            /\ DOMAIN g = 1 .. L + 1 /\ Len(g) = L + 1 /\ g[L + 1] = s[m + 1]
            /\ \A k \in 1 .. L : g[k] = f[m][k]
        BY <2>1, <2>2, <2>6
      <3>2. \A k \in 1 .. L + 1 : k = L + 1 \/ k \in 1 .. L
        BY <3>1
      <3>3. L + 1 \in 1 .. L + 1 /\ \A k \in 1 .. L : k \in 1 .. L + 1
        BY <3>1
      <3>4. m + 1 \in 1 .. m + 1
        OBVIOUS
      <3>5. p[m] = L /\ p[m + 1] = L + 1 /\ p[(m + 1) - 1] = L
        BY <1>3, <2>1, <3>1
      <3> HIDE DEF g, L
      <3>6. ASSUME NEW n \in 1 .. m + 1, s[n] \notin S
            PROVE  p[n] = p[n - 1] + 1 /\ p[n] \in 1 .. L + 1 /\ g[p[n]] = s[n]
        <4>1. CASE n = m + 1
          BY <3>1, <3>3, <3>5, <4>1
        <4>2. CASE n \in 1 .. m
          <5>1. p[n] = p[n - 1] + 1 /\ p[n] \in 1 .. L /\ f[m][p[n]] = s[n]
            BY <1>5, <3>1, <3>6, <4>2
          <5> QED BY <3>1, <3>3, <5>1
        <4> QED BY <2>3, <4>1, <4>2
      <3>7. ASSUME NEW k \in 1 .. L + 1
            PROVE  \E n \in 1 .. m + 1 : s[n] \notin S /\ p[n] = k
        <4>1. CASE k = L + 1
          BY <2>6, <3>4, <3>5, <4>1
        <4>2. CASE k \in 1 .. L
          BY <1>5, <2>4, <3>1, <4>2
        <4> QED BY <3>2, <4>1, <4>2
      <3> QED BY <3>1, <3>6, <3>7
    <2> QED BY <2>5, <2>6
  <1>6. Fits(Len(s))
    <2> HIDE DEF Fits
    <2>1. 0 \in M /\ \A m \in M : m + 1 \in M
      <3>1. ASSUME NEW m \in M PROVE m + 1 \in M
        <4>1. m \in Nat /\ (m + 1 <= Len(s) => m <= Len(s))
          BY <1>2
        <4> QED BY <1>5, <4>1
      <3> QED BY <1>4, <3>1
    <2>2. M = Nat
      <3> HIDE DEF M
      <3>1. M \in SUBSET Nat
        BY DEF M
      <3> QED BY <2>1, <3>1, NatSetInduction
    <2> QED BY <1>2, <2>2
  <1>7. Without(s, S) \in Seq(T) /\ p[Len(s)] = Len(Without(s, S))
    BY <1>1, <1>2, <1>3
  <1> HIDE DEF M
  <1>8. Placed(p, s, S, Without(s, S))
    BY <1>1, <1>2, <1>6, <1>7 DEF Placed
  <1> QED BY <1>7, <1>8

\* A selection is a sequence of the members that are not in the set, and has them all.
LEMMA WithoutMembers ==
  ASSUME NEW T, NEW s \in Seq(T), NEW S
  PROVE  /\ Without(s, S) \in Seq(T)
         /\ \A k \in DOMAIN Without(s, S) :
               \E n \in DOMAIN s : s[n] \notin S /\ Without(s, S)[k] = s[n]
         /\ \A n \in DOMAIN s : s[n] \notin S =>
               \E k \in DOMAIN Without(s, S) : Without(s, S)[k] = s[n]
  <1>1. PICK p \in [0 .. Len(s) -> Nat] : Placed(p, s, S, Without(s, S))
    BY WithoutPlaces
  <1>2. DOMAIN s = 1 .. Len(s)
    OBVIOUS
  <1>3. Without(s, S) \in Seq(T)
    BY WithoutPlaces
  <1> DEFINE w == Without(s, S)
  <1> HIDE DEF w
  <1>4. Placed(p, s, S, w)
    BY <1>1 DEF w
  <1>5. \A k \in DOMAIN w : \E n \in DOMAIN s : s[n] \notin S /\ w[k] = s[n]
    BY <1>2, <1>4 DEF Placed
  <1>6. \A n \in DOMAIN s : s[n] \notin S => \E k \in DOMAIN w : w[k] = s[n]
    BY <1>2, <1>4 DEF Placed
  <1> QED BY <1>3, <1>5, <1>6 DEF w

\* Members that follow each other and are not in the set do so in the selection.
LEMMA WithoutRuns ==
  ASSUME NEW n \in Nat, NEW p \in [0 .. n -> Nat], NEW S, NEW s,
         \A i \in 1 .. n : s[i] \notin S => p[i] = p[i - 1] + 1,
         NEW i \in 0 .. n, NEW k \in Nat, i + k <= n,
         \A l \in 1 .. k : s[i + l] \notin S
  PROVE  p[i + k] = p[i] + k
  <1> DEFINE M == {m \in Nat : m <= k => p[i + m] = p[i] + m}
  <1>1. 0 \in M
    OBVIOUS
  <1>2. ASSUME NEW m \in M PROVE m + 1 \in M
    <2> SUFFICES ASSUME m + 1 <= k PROVE p[i + (m + 1)] = p[i] + (m + 1)
      OBVIOUS
    <2>1. /\ m \in Nat /\ m + 1 \in 1 .. k /\ i + (m + 1) \in 1 .. n
          /\ (i + (m + 1)) - 1 = i + m /\ i + m \in 0 .. n
      OBVIOUS
    <2>2. p[i + m] = p[i] + m
      BY <2>1
    <2>3. p[i + (m + 1)] = p[i + m] + 1
      BY <2>1
    <2> QED BY <2>1, <2>2, <2>3
  <1>3. M = Nat
    <2> HIDE DEF M
    <2>1. M \in SUBSET Nat
      BY DEF M
    <2> QED BY <1>1, <1>2, <2>1, NatSetInduction
  <1>4. k \in M
    <2> HIDE DEF M
    <2> QED BY <1>3
  <1> QED BY <1>4

----------------------------------------------------------------------------
(* The last members of a set of positions.                                 *)

Onwards(T, i) == {j \in T : j >= i}

LEMMA OnwardsSets ==
  ASSUME NEW n \in Nat, NEW T, NEW i \in Nat, \A j \in T : j \in Nat /\ 1 <= j /\ j <= n
  PROVE  /\ Onwards(T, n + 1) = {}
         /\ Onwards(T, 1) = T
         /\ Onwards(T, i) \subseteq T
         /\ i \notin T => Onwards(T, i) = Onwards(T, i + 1)
         /\ i \in T => Onwards(T, i) = Onwards(T, i + 1) \cup {i} /\ i \notin Onwards(T, i + 1)
  <1>1. Onwards(T, n + 1) = {}
    BY DEF Onwards
  <1>2. Onwards(T, 1) = T /\ Onwards(T, i) \subseteq T
    BY DEF Onwards
  <1>3. i \notin T => Onwards(T, i) = Onwards(T, i + 1)
    BY DEF Onwards
  <1>4. ASSUME i \in T PROVE Onwards(T, i) = Onwards(T, i + 1) \cup {i}
    <2>1. \A j \in T : j >= i <=> (j >= i + 1 \/ j = i)
      OBVIOUS
    <2>2. i >= i
      OBVIOUS
    <2> QED BY <1>4, <2>1, <2>2 DEF Onwards
  <1>5. i \notin Onwards(T, i + 1)
    BY DEF Onwards
  <1> QED BY <1>1, <1>2, <1>3, <1>4, <1>5

LEMMA OnwardsStep ==
  ASSUME NEW n \in Nat, NEW T \in SUBSET (1 .. n), NEW i \in 0 .. n
  PROVE  /\ IsFiniteSet(Onwards(T, i)) /\ Cardinality(Onwards(T, i)) \in Nat
         /\ Onwards(T, n + 1) = {} /\ Onwards(T, 1) = T
         /\ i \notin T => Onwards(T, i) = Onwards(T, i + 1)
         /\ i \in T => Cardinality(Onwards(T, i)) = Cardinality(Onwards(T, i + 1)) + 1
  <1>1. \A j \in T : j \in Nat /\ 1 <= j /\ j <= n
    OBVIOUS
  <1>2. IsFiniteSet(T)
    <2>1. IsFiniteSet(1 .. n)
      BY FS_Interval
    <2> QED BY <2>1, FS_Subset
  <1>3. ASSUME NEW k \in Nat
        PROVE  IsFiniteSet(Onwards(T, k)) /\ Cardinality(Onwards(T, k)) \in Nat
    <2>1. Onwards(T, k) \subseteq T
      BY <1>1, OnwardsSets
    <2> QED BY <1>2, <2>1, FS_Subset, FS_CardinalityType
  <1>4. /\ Onwards(T, n + 1) = {} /\ Onwards(T, 1) = T
        /\ i \notin T => Onwards(T, i) = Onwards(T, i + 1)
    <2>1. i \in Nat
      OBVIOUS
    <2> QED BY <1>1, <2>1, OnwardsSets
  <1>5. ASSUME i \in T
        PROVE  Cardinality(Onwards(T, i)) = Cardinality(Onwards(T, i + 1)) + 1
    <2>1. Onwards(T, i) = Onwards(T, i + 1) \cup {i} /\ i \notin Onwards(T, i + 1)
      BY <1>1, <1>5, OnwardsSets
    <2>2. i + 1 \in Nat
      OBVIOUS
    <2> QED BY <1>3, <2>1, <2>2, FS_AddElement
  <1> QED BY <1>3, <1>4, <1>5

LEMMA KthLast ==
  ASSUME NEW n \in Nat, NEW T \in SUBSET (1 .. n), NEW k \in 1 .. Cardinality(T)
  PROVE  \E i \in T : Cardinality(Onwards(T, i)) = k
  <1> SUFFICES ASSUME \A i \in T : Cardinality(Onwards(T, i)) # k
               PROVE  FALSE
    OBVIOUS
  <1> DEFINE Less(m) == Cardinality(Onwards(T, n + 1 - m)) < k
             N == {m \in Nat : m <= n => Less(m)}
  <1>1. Cardinality(T) \in Nat
    <2>1. 0 \in 0 .. n /\ Onwards(T, 1) = T
      BY OnwardsStep
    <2>2. IsFiniteSet(T)
      <3>1. IsFiniteSet(1 .. n)
        BY FS_Interval
      <3> QED BY <3>1, FS_Subset
    <2> QED BY <2>2, FS_CardinalityType
  <1>2. k \in Nat /\ k > 0 /\ k <= Cardinality(T)
    BY <1>1
  <1>3. Less(0)
    <2>1. Onwards(T, n + 1 - 0) = {}
      <3>1. 0 \in 0 .. n /\ n + 1 - 0 = n + 1
        OBVIOUS
      <3> QED BY <3>1, OnwardsStep
    <2>2. Cardinality({}) = 0
      BY FS_EmptySet
    <2> QED BY <1>2, <2>1, <2>2
  <1>4. ASSUME NEW m \in Nat, m + 1 <= n, Less(m)
        PROVE  Less(m + 1)
    <2>1. PICK i \in 0 .. n : i = n - m /\ n + 1 - (m + 1) = i /\ n + 1 - m = i + 1
      BY <1>4
    <2>2. Cardinality(Onwards(T, i + 1)) < k
      BY <1>4, <2>1
    <2>3. Cardinality(Onwards(T, i)) \in Nat
      BY OnwardsStep
    <2>4. CASE i \in T
      <3>1. Cardinality(Onwards(T, i)) = Cardinality(Onwards(T, i + 1)) + 1
        BY <2>4, OnwardsStep
      <3>2. Cardinality(Onwards(T, i)) # k
        BY <2>4
      <3>4. Cardinality(Onwards(T, i + 1)) \in Nat
        <4>1. CASE m = 0
          <5>1. i + 1 = n + 1
            BY <2>1, <4>1
          <5>2. Onwards(T, i + 1) = {} /\ Cardinality({}) = 0
            BY <5>1, OnwardsStep, FS_EmptySet
          <5> QED BY <5>2
        <4>2. CASE m # 0
          <5>1. i + 1 \in 0 .. n
            BY <2>1, <4>2
          <5> QED BY <5>1, OnwardsStep
        <4> QED BY <4>1, <4>2
      <3>5. Cardinality(Onwards(T, i)) < k
        BY <1>2, <2>2, <2>3, <3>1, <3>2, <3>4
      <3> QED BY <2>1, <3>5
    <2>5. CASE i \notin T
      <3>1. Onwards(T, i) = Onwards(T, i + 1)
        BY <2>5, OnwardsStep
      <3> QED BY <2>1, <2>2, <3>1
    <2> QED BY <2>4, <2>5
  <1>5. N = Nat
    <2> HIDE DEF Less
    <2>1. N \in SUBSET Nat /\ 0 \in N
      BY <1>3
    <2>2. \A m \in N : m + 1 \in N
      <3> SUFFICES ASSUME NEW m \in Nat, m <= n => Less(m), m + 1 <= n PROVE Less(m + 1)
        OBVIOUS
      <3>1. m <= n
        OBVIOUS
      <3> QED BY <3>1, <1>4
    <2> HIDE DEF N
    <2> QED BY <2>1, <2>2, NatSetInduction
  <1>6. Less(n)
    <2> HIDE DEF Less
    <2> QED BY <1>5
  <1>7. n + 1 - n = 1
    OBVIOUS
  <1>8. 0 \in 0 .. n /\ Onwards(T, 1) = T
    BY OnwardsStep
  <1>9. Cardinality(T) < k
    BY <1>6, <1>7, <1>8
  <1> QED BY <1>1, <1>2, <1>9
=============================================================================
