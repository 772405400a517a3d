-------------------------- MODULE PrefixCacheProofs --------------------------
(***************************************************************************)
(* Theorems about PrefixCache, for all values of its constants.            *)
(*                                                                         *)
(* The properties speak of what nodes spell, which is a recursive function *)
(* of the trie.  The invariant has a function s instead, with the tokens   *)
(* from the root for each node, and Tree(t, s) relates it to the trie; one *)
(* lemma per operation of the code says which s the trie has after it.     *)
(***************************************************************************)
EXTENDS PrefixCache, DataProofs, SequenceTheorems

----------------------------------------------------------------------------
(* Sequences.                                                              *)

\* Two sequences have the same first k entries.
Agree(a, b, k) == k <= Len(a) /\ k <= Len(b) /\ \A i \in 1 .. k : a[i] = b[i]

\* StartsWith, of the properties, is agreement over the whole prefix.
LEMMA PrefixIsAgreement ==
  ASSUME NEW T, NEW s \in Seq(T), NEW p \in Seq(T)
  PROVE  StartsWith(s, p) <=> Agree(s, p, Len(p))
  <1>1. CASE Len(p) <= Len(s)
    <2>1. \A i \in 1 .. Len(p) : s[i] \in T
      BY <1>1, LenProperties
    <2>2. /\ SubSeq(s, 1, Len(p)) \in Seq(T) /\ Len(SubSeq(s, 1, Len(p))) = Len(p)
          /\ \A i \in 1 .. Len(p) : SubSeq(s, 1, Len(p))[i] = s[i]
      <3>1. Len(p) \in Nat
        BY LenProperties
      <3> HIDE DEF StartsWith
      <3> QED BY <2>1, <3>1, SubSeqProperties, 1 \in Int, Len(p) \in Int
    <2>3. SubSeq(s, 1, Len(p)) = p <=> \A i \in 1 .. Len(p) : s[i] = p[i]
      BY <2>2, SeqEqual
    <2> QED BY <1>1, <2>3 DEF StartsWith, Agree
  <1>2. CASE ~(Len(p) <= Len(s))
    BY <1>2 DEF StartsWith, Agree
  <1> QED BY <1>1, <1>2

\* The first k entries of a sequence.
LEMMA FirstEntries ==
  ASSUME NEW T, NEW s \in Seq(T), NEW k \in 0 .. Len(s)
  PROVE  /\ SubSeq(s, 1, k) \in Seq(T) /\ Len(SubSeq(s, 1, k)) = k
         /\ \A i \in 1 .. k : SubSeq(s, 1, k)[i] = s[i]
         /\ Agree(SubSeq(s, 1, k), s, k)
  <1>1. Len(s) \in Nat /\ k \in Nat /\ k \in Int /\ 1 \in Int
    BY LenProperties
  <1>2. \A i \in 1 .. k : s[i] \in T
    BY <1>1, LenProperties
  <1>3. /\ SubSeq(s, 1, k) \in Seq(T)
        /\ Len(SubSeq(s, 1, k)) = IF 1 <= k THEN k - 1 + 1 ELSE 0
        /\ \A i \in 1 .. k - 1 + 1 : SubSeq(s, 1, k)[i] = s[1 + i - 1]
    BY <1>1, <1>2, SubSeqProperties
  <1> QED BY <1>1, <1>3 DEF Agree

\* The entries from the k-th on.
LEMMA LastEntries ==
  ASSUME NEW T, NEW s \in Seq(T), NEW k \in 0 .. Len(s), NEW m \in k .. Len(s)
  PROVE  /\ SubSeq(s, k + 1, m) \in Seq(T) /\ Len(SubSeq(s, k + 1, m)) = m - k
         /\ \A i \in 1 .. m - k : SubSeq(s, k + 1, m)[i] = s[k + i]
  <1>1. Len(s) \in Nat /\ k \in Nat /\ m \in Nat /\ k + 1 \in Int /\ m \in Int
    BY LenProperties
  <1>2. \A i \in k + 1 .. m : s[i] \in T
    BY <1>1, LenProperties
  <1>3. /\ SubSeq(s, k + 1, m) \in Seq(T)
        /\ Len(SubSeq(s, k + 1, m)) = IF k + 1 <= m THEN m - (k + 1) + 1 ELSE 0
        /\ \A i \in 1 .. m - (k + 1) + 1 : SubSeq(s, k + 1, m)[i] = s[(k + 1) + i - 1]
    BY <1>1, <1>2, SubSeqProperties
  <1>4. m - (k + 1) + 1 = m - k
    BY <1>1
  <1> QED BY <1>1, <1>3, <1>4

\* Sequences that agree have the same beginnings.
LEMMA AgreeFirst ==
  ASSUME NEW T, NEW s \in Seq(T), NEW r \in Seq(T), NEW k \in Nat, Agree(s, r, k),
         NEW j \in 0 .. k
  PROVE  SubSeq(s, 1, j) = SubSeq(r, 1, j) /\ Agree(s, r, j)
  <1>1. Len(s) \in Nat /\ Len(r) \in Nat
    BY LenProperties
  <1>2. j \in 0 .. Len(s) /\ j \in 0 .. Len(r)
    BY <1>1 DEF Agree
  <1>3. /\ SubSeq(s, 1, j) \in Seq(T) /\ Len(SubSeq(s, 1, j)) = j
        /\ \A i \in 1 .. j : SubSeq(s, 1, j)[i] = s[i]
        /\ SubSeq(r, 1, j) \in Seq(T) /\ Len(SubSeq(r, 1, j)) = j
        /\ \A i \in 1 .. j : SubSeq(r, 1, j)[i] = r[i]
    BY <1>2, FirstEntries
  <1>4. \A i \in 1 .. j : s[i] = r[i]
    BY DEF Agree
  <1> QED BY <1>2, <1>3, <1>4, SeqEqual DEF Agree

\* A sequence that is gone on with agrees with the longer one.
LEMMA AgreeConcat ==
  ASSUME NEW T, NEW s \in Seq(T), NEW r \in Seq(T)
  PROVE  /\ s \o r \in Seq(T) /\ Len(s \o r) = Len(s) + Len(r) /\ Agree(s \o r, s, Len(s))
         /\ \A i \in 1 .. Len(r) : (s \o r)[Len(s) + i] = r[i]
  BY ConcatProperties, LenProperties DEF Agree

----------------------------------------------------------------------------
(* Iteration: a function that makes its next value of the one before has a *)
(* value in each of the sets that the step leads through.                  *)

Iteration(f, N, a, step) == f = [i \in 0 .. N |-> IF i = 0 THEN a ELSE step[<<i, f[i - 1]>>]]

Leads(S, N, step) == \A i \in 1 .. N : \A s \in S[i - 1] : step[<<i, s>>] \in S[i]

Stays(f, N, S) == \A i \in 0 .. N : f[i] \in S[i]

\* A loop can be unrolled: there is a function with its states, and they stay in S.
LEMMA Iterates ==
  ASSUME NEW N \in Nat, NEW S, NEW a \in S[0], NEW step, Leads(S, N, step)
  PROVE  \E f : Iteration(f, N, a, step) /\ Stays(f, N, S)
  <1> DEFINE Upto(f, m) == /\ f = [i \in 0 .. m |-> IF i = 0 THEN a ELSE step[<<i, f[i - 1]>>]]
                           /\ \A i \in 0 .. m : f[i] \in S[i]
             Has(m) == m <= N => \E f : Upto(f, m)
             M == {m \in Nat : Has(m)}
  <1>1. Has(0)
    <2> DEFINE f == [i \in 0 .. 0 |-> a]
    <2>1. f = [i \in 0 .. 0 |-> IF i = 0 THEN a ELSE step[<<i, f[i - 1]>>]]
      OBVIOUS
    <2>2. \A i \in 0 .. 0 : f[i] \in S[i]
      OBVIOUS
    <2> QED BY <2>1, <2>2
  <1>2. ASSUME NEW m \in Nat, Has(m) PROVE Has(m + 1)
    <2> SUFFICES ASSUME m + 1 <= N PROVE \E f : Upto(f, m + 1)
      OBVIOUS
    <2>1. PICK f : Upto(f, m)
      BY <1>2
    <2> DEFINE x == step[<<m + 1, f[m]>>]
               g == [i \in 0 .. m + 1 |-> IF i = m + 1 THEN x ELSE f[i]]
    <2>2. x \in S[m + 1]
      <3>1. f[m] \in S[(m + 1) - 1] /\ m + 1 \in 1 .. N
        BY <2>1
      <3> QED BY <3>1 DEF Leads
    <2>3. \A i \in 0 .. m : f[i] = IF i = 0 THEN a ELSE step[<<i, f[i - 1]>>]
      <3> DEFINE h == [i \in 0 .. m |-> IF i = 0 THEN a ELSE step[<<i, f[i - 1]>>]]
      <3>1. f = h
        BY <2>1
      <3>2. \A i \in 0 .. m : h[i] = IF i = 0 THEN a ELSE step[<<i, f[i - 1]>>]
        OBVIOUS
      <3> HIDE DEF h
      <3> QED BY <3>1, <3>2
    <2>4. \A i \in 0 .. m + 1 : g[i] = IF i = 0 THEN a ELSE step[<<i, g[i - 1]>>]
      <3> SUFFICES ASSUME NEW i \in 0 .. m + 1 PROVE g[i] = IF i = 0 THEN a ELSE step[<<i, g[i - 1]>>]
        OBVIOUS
      <3>1. CASE i = 0
        <4>1. 0 \in 0 .. m /\ 0 \in 0 .. m + 1 /\ 0 # m + 1
          OBVIOUS
        <4>2. g[0] = f[0]
          BY <4>1
        <4> QED BY <2>3, <3>1, <4>1, <4>2
      <3>2. CASE i \in 1 .. m
        <4>1. i \in 0 .. m /\ i - 1 \in 0 .. m /\ i # 0 /\ i # m + 1 /\ i - 1 # m + 1
              /\ i - 1 \in 0 .. m + 1
          BY <3>2
        <4>2. g[i] = f[i] /\ g[i - 1] = f[i - 1]
          BY <4>1
        <4> QED BY <2>3, <4>1, <4>2
      <3>3. CASE i = m + 1
        <4>0. i - 1 = m /\ m \in 0 .. m + 1 /\ m # m + 1 /\ i # 0
          BY <3>3
        <4>1. g[i - 1] = f[m]
          BY <4>0
        <4>2. g[i] = step[<<i, f[m]>>]
          BY <3>3
        <4> QED BY <4>0, <4>1, <4>2
      <3> QED BY <3>1, <3>2, <3>3
    <2>5. g = [i \in 0 .. m + 1 |-> IF i = 0 THEN a ELSE step[<<i, g[i - 1]>>]]
      <3> HIDE DEF g
      <3>1. g = [i \in 0 .. m + 1 |-> g[i]]
        BY DEF g
      <3> QED BY <2>4, <3>1
    <2>6. ASSUME NEW i \in 0 .. m + 1 PROVE g[i] \in S[i]
      <3>1. CASE i = m + 1
        BY <2>2, <3>1
      <3>2. CASE i # m + 1
        <4>1. i \in 0 .. m
          BY <3>2
        <4> QED BY <2>1, <3>2, <4>1
      <3> QED BY <3>1, <3>2
    <2> QED BY <2>5, <2>6
  <1> HIDE DEF Has
  <1>3. M = Nat
    <2>1. 0 \in M
      BY <1>1
    <2>2. M \in SUBSET Nat
      OBVIOUS
    <2>3. ASSUME NEW m \in M PROVE m + 1 \in M
      <3>1. m \in Nat /\ Has(m)
        OBVIOUS
      <3>2. m + 1 \in Nat /\ Has(m + 1)
        BY <1>2, <3>1
      <3> QED BY <3>2
    <2> HIDE DEF M
    <2> QED BY <2>1, <2>2, <2>3, NatSetInduction
  <1>4. Has(N)
    BY <1>3
  <1> QED BY <1>4 DEF Has, Iteration, Stays

\* What each turn of a loop keeps, its states have.
LEMMA Iterated ==
  ASSUME NEW N \in Nat, NEW S, NEW f, f[0] \in S[0],
         \A i \in 1 .. N : f[i - 1] \in S[i - 1] => f[i] \in S[i]
  PROVE  \A i \in 0 .. N : f[i] \in S[i]
  <1> DEFINE M == {m \in Nat : m <= N => f[m] \in S[m]}
  <1>1. 0 \in M /\ M \in SUBSET Nat
    OBVIOUS
  <1>2. ASSUME NEW m \in M PROVE m + 1 \in M
    <2>1. CASE m + 1 <= N
      <3>1. m + 1 \in 1 .. N /\ (m + 1) - 1 = m /\ m \in Nat /\ m <= N
        BY <2>1
      <3>2. f[m] \in S[m]
        BY <3>1
      <3>3. f[(m + 1) - 1] \in S[(m + 1) - 1]
        BY <3>1, <3>2
      <3>4. f[m + 1] \in S[m + 1]
        BY <3>1, <3>3
      <3> QED BY <3>1, <3>4
    <2>2. CASE ~(m + 1 <= N)
      BY <2>2
    <2> QED BY <2>1, <2>2
  <1>3. M = Nat
    <2> HIDE DEF M
    <2> QED BY <1>1, <1>2, NatSetInduction
  <1> QED BY <1>3

----------------------------------------------------------------------------
(* Least and greatest numbers.                                             *)

\* The greatest and the least of a set of numbers.
LEMMA MaxOf ==
  ASSUME NEW n \in Nat, NEW S \in SUBSET (0 .. n), S # {}
  PROVE  Max(S) \in S /\ \A y \in S : y <= Max(S)
  <1> DEFINE Has(k) == \A T \in SUBSET (0 .. k) : T # {} => \E x \in T : \A y \in T : x >= y
             M == {k \in Nat : Has(k)}
  <1>1. Has(0)
    <2> SUFFICES ASSUME NEW T \in SUBSET (0 .. 0), T # {} PROVE \E x \in T : \A y \in T : x >= y
      OBVIOUS
    <2>1. \A y \in T : y = 0
      OBVIOUS
    <2>2. PICK x \in T : TRUE
      OBVIOUS
    <2>3. \A y \in T : x >= y
      BY <2>1
    <2> QED BY <2>3
  <1>2. ASSUME NEW k \in Nat, Has(k) PROVE Has(k + 1)
    <2> SUFFICES ASSUME NEW T \in SUBSET (0 .. k + 1), T # {} PROVE \E x \in T : \A y \in T : x >= y
      OBVIOUS
    <2>1. CASE k + 1 \in T
      <3>1. \A y \in T : k + 1 >= y
        OBVIOUS
      <3> QED BY <2>1, <3>1
    <2>2. CASE k + 1 \notin T
      <3>1. T \in SUBSET (0 .. k)
        BY <2>2
      <3> QED BY <1>2, <3>1
    <2> QED BY <2>1, <2>2
  <1> HIDE DEF Has
  <1>3. M = Nat
    <2>1. 0 \in M /\ M \in SUBSET Nat /\ \A m \in M : m + 1 \in M
      BY <1>1, <1>2
    <2> HIDE DEF M
    <2> QED BY <2>1, NatSetInduction
  <1>4. Has(n)
    BY <1>3
  <1>5. \E x \in S : \A y \in S : x >= y
    BY <1>4 DEF Has
  <1>6. Max(S) \in S /\ \A y \in S : Max(S) >= y
    BY <1>5, Zenon DEF Max
  <1> QED BY <1>6

\* The least of a set of natural numbers.
LEMMA MinOf ==
  ASSUME NEW S \in SUBSET Nat, S # {}
  PROVE  Min(S) \in S /\ \A y \in S : Min(S) <= y
  <1> DEFINE Has(k) == \A T \in SUBSET Nat : k \in T => \E x \in T : \A y \in T : x =< y
             M == {k \in Nat : \A j \in 0 .. k : Has(j)}
  <1>1. Has(0)
    OBVIOUS
  <1>2. ASSUME NEW k \in Nat, \A j \in 0 .. k : Has(j) PROVE Has(k + 1)
    <2> SUFFICES ASSUME NEW T \in SUBSET Nat, k + 1 \in T PROVE \E x \in T : \A y \in T : x =< y
      OBVIOUS
    <2>1. CASE \E j \in 0 .. k : j \in T
      BY <1>2, <2>1
    <2>2. CASE ~ \E j \in 0 .. k : j \in T
      <3>1. \A y \in T : k + 1 =< y
        BY <2>2
      <3> QED BY <3>1
    <2> QED BY <2>1, <2>2
  <1> HIDE DEF Has
  <1>3. M = Nat
    <2>1. 0 \in M /\ M \in SUBSET Nat
      BY <1>1
    <2>2. ASSUME NEW m \in M PROVE m + 1 \in M
      <3>1. m \in Nat /\ \A j \in 0 .. m : Has(j)
        OBVIOUS
      <3>2. Has(m + 1)
        BY <1>2, <3>1
      <3>3. \A j \in 0 .. m + 1 : j \in 0 .. m \/ j = m + 1
        BY <3>1
      <3> QED BY <3>1, <3>2, <3>3
    <2> HIDE DEF M
    <2> QED BY <2>1, <2>2, NatSetInduction
  <1>4. PICK k \in S : TRUE
    OBVIOUS
  <1>5. Has(k)
    <2>1. k \in M /\ k \in 0 .. k
      BY <1>3
    <2> QED BY <2>1
  <1>6. \E x \in S : \A y \in S : x =< y
    BY <1>5 DEF Has
  <1> QED BY <1>6, Zenon DEF Min

\* The lesser of two numbers.
LEMMA MinTwo ==
  ASSUME NEW a \in Int, NEW b \in Int
  PROVE  Min({a, b}) = IF a <= b THEN a ELSE b
  <1>1. \E x \in {a, b} : \A y \in {a, b} : x =< y
    OBVIOUS
  <1>2. Min({a, b}) \in {a, b} /\ \A y \in {a, b} : Min({a, b}) =< y
    BY <1>1, Zenon DEF Min
  <1> QED BY <1>2

\* What two sequences have in common at the start.
LEMMA CommonIs ==
  ASSUME NEW T, NEW a \in Seq(T), NEW b \in Seq(T)
  PROVE  /\ Common(a, b) \in Nat /\ Common(a, b) <= Len(a) /\ Common(a, b) <= Len(b)
         /\ Agree(a, b, Common(a, b))
         /\ Common(a, b) < Len(a) /\ Common(a, b) < Len(b)
              => a[Common(a, b) + 1] # b[Common(a, b) + 1]
  <1>1. Len(a) \in Nat /\ Len(b) \in Nat
    BY LenProperties
  <1>2. PICK m \in Nat : /\ m = Min({Len(a), Len(b)})
                         /\ m = IF Len(a) <= Len(b) THEN Len(a) ELSE Len(b)
    BY <1>1, MinTwo
  <1> DEFINE k == Common(a, b)
             S == {0} \cup {i \in 1 .. m : SubSeq(a, 1, i) = SubSeq(b, 1, i)}
  <1>3. S \in SUBSET (0 .. m) /\ S # {}
    OBVIOUS
  <1>4. k \in S /\ \A y \in S : y <= k
    <2> HIDE DEF S
    <2>1. k = Max(S)
      BY <1>2 DEF S, Common
    <2> HIDE DEF k
    <2> QED BY <1>3, <2>1, MaxOf
  <1> HIDE DEF k
  <1>5. k \in Nat /\ k <= Len(a) /\ k <= Len(b)
    <2>1. k \in 0 .. m
      BY <1>3, <1>4
    <2>2. k \in Nat /\ k <= m
      BY <2>1
    <2>3. k <= Len(a) /\ k <= Len(b)
      BY <1>1, <1>2, <2>2
    <2> QED BY <2>2, <2>3
  <1>6. Agree(a, b, k)
    <2>1. CASE k = 0
      BY <1>5, <2>1 DEF Agree
    <2>2. CASE k # 0
      <3>1. SubSeq(a, 1, k) = SubSeq(b, 1, k) /\ k \in 0 .. Len(a) /\ k \in 0 .. Len(b)
        BY <1>1, <1>4, <1>5, <2>2
      <3>2. \A i \in 1 .. k : SubSeq(a, 1, k)[i] = a[i] /\ SubSeq(b, 1, k)[i] = b[i]
        BY <3>1, FirstEntries
      <3> QED BY <1>5, <3>1, <3>2 DEF Agree
    <2> QED BY <2>1, <2>2
  <1>7. ASSUME k < Len(a), k < Len(b), a[k + 1] = b[k + 1] PROVE FALSE
    <2>1. k + 1 \in Nat /\ k + 1 <= Len(a) /\ k + 1 <= Len(b)
      BY <1>1, <1>5, <1>7
    <2>2. Agree(a, b, k + 1)
      BY <1>5, <1>6, <1>7, <2>1 DEF Agree
    <2>3. SubSeq(a, 1, k + 1) = SubSeq(b, 1, k + 1)
      <3>1. k + 1 \in 0 .. k + 1
        BY <2>1
      <3> QED BY <2>1, <2>2, <3>1, AgreeFirst
    <2>4. k + 1 \in S
      <3>1. k + 1 \in 1 .. m
        <4>1. k + 1 <= m /\ 1 <= k + 1
          BY <1>1, <1>2, <1>5, <2>1
        <4> QED BY <2>1, <4>1
      <3> QED BY <2>3, <3>1
    <2>5. k + 1 <= k
      BY <1>4, <2>4
    <2> QED BY <1>5, <2>5
  <1> QED BY <1>5, <1>6, <1>7 DEF k

----------------------------------------------------------------------------
(* The trie and what its nodes spell.                                      *)

Words    == Seq(Tokens)
KVSnaps  == [from : Nat, to : Nat, lazy : BOOLEAN, data : Seq(Words)] \cup {None}
RecSnaps == Words \cup {None}
Node     == [tokens : Words, end : Nat, parent : Nat \cup {None}, user : BOOLEAN,
             kv : KVSnaps, rec : RecSnaps]

\* t is a trie, and s has what its nodes spell.
Tree(t, s) ==
    /\ IsFiniteSet(DOMAIN t) /\ DOMAIN t \subseteq Nat /\ Root \in DOMAIN t
    /\ t \in [DOMAIN t -> Node] /\ s \in [DOMAIN t -> Words]
    /\ t[Root].tokens = <<>> /\ t[Root].parent = None /\ s[Root] = <<>>
    /\ \A n \in DOMAIN t \ {Root} : /\ t[n].parent \in DOMAIN t /\ t[n].tokens # <<>>
                                    /\ s[n] = s[t[n].parent] \o t[n].tokens
    /\ \A n \in DOMAIN t : t[n].end = Len(s[n])
    /\ \A n, m \in DOMAIN t \ {Root} :
          n # m /\ t[n].parent = t[m].parent => t[n].tokens[1] # t[m].tokens[1]

\* What each node of a trie is.
LEMMA TreeFacts ==
  ASSUME NEW t, NEW s, Tree(t, s), NEW n \in DOMAIN t
  PROVE  /\ t[n] \in Node /\ t[n].tokens \in Words /\ s[n] \in Words /\ n \in Nat
         /\ t[n].end \in Nat /\ Len(s[n]) = t[n].end /\ Len(t[n].tokens) \in Nat
         /\ n = Root => t[n].end = 0 /\ t[n].parent = None /\ Len(t[n].tokens) = 0 /\ s[n] = <<>>
  <1>1. /\ t[n] \in Node /\ t[n].tokens \in Words /\ s[n] \in Words /\ n \in Nat
        /\ t[n].end \in Nat /\ Len(s[n]) = t[n].end
    BY DEF Tree, Node
  <1>2. Len(t[n].tokens) \in Nat
    BY <1>1, LenProperties DEF Words
  <1>3. n = Root => t[n].end = 0 /\ t[n].parent = None /\ Len(t[n].tokens) = 0 /\ s[n] = <<>>
    BY <1>1, EmptySeq DEF Tree
  <1> QED BY <1>1, <1>2, <1>3

\* n hangs below q, and spells what q does and its own tokens.
Edge(t, s, n, q) ==
    /\ q \in DOMAIN t /\ q = t[n].parent /\ q # None /\ q \in Nat
    /\ t[n].end = t[q].end + Len(t[n].tokens) /\ Len(t[n].tokens) >= 1
    /\ Start(t[n]) = t[q].end /\ t[q].end < t[n].end
    /\ t[n].tokens # <<>>
    /\ Agree(s[n], s[q], t[q].end)
    /\ \A i \in 1 .. Len(t[n].tokens) : s[n][t[q].end + i] = t[n].tokens[i]

\* Each node but the root hangs below another.
LEMMA EdgeFacts ==
  ASSUME NEW t, NEW s, Tree(t, s), NEW n \in DOMAIN t, n # Root
  PROVE  \E q : Edge(t, s, n, q)
  <1>0. PICK q : q = t[n].parent
    OBVIOUS
  <1>1. q \in DOMAIN t /\ t[n].tokens # <<>> /\ s[n] = s[q] \o t[n].tokens
    BY <1>0 DEF Tree
  <1>2. /\ t[n].tokens \in Words /\ s[n] \in Words /\ s[q] \in Words
        /\ t[n].end \in Nat /\ t[q].end \in Nat /\ Len(s[n]) = t[n].end /\ Len(s[q]) = t[q].end
        /\ Len(t[n].tokens) \in Nat /\ q \in Nat
    BY <1>1, TreeFacts
  <1>3. q # None
    BY <1>2, PrefixCacheAssumption
  <1>4. Len(t[n].tokens) >= 1
    BY <1>1, <1>2, EmptySeq DEF Words
  <1>5. /\ Len(s[n]) = Len(s[q]) + Len(t[n].tokens) /\ Agree(s[n], s[q], Len(s[q]))
        /\ \A i \in 1 .. Len(t[n].tokens) : s[n][Len(s[q]) + i] = t[n].tokens[i]
    <2>1. PICK u \in Seq(Tokens), v \in Seq(Tokens) : u = s[q] /\ v = t[n].tokens
      BY <1>2 DEF Words
    <2>2. /\ Len(u \o v) = Len(u) + Len(v) /\ Agree(u \o v, u, Len(u))
          /\ \A i \in 1 .. Len(v) : (u \o v)[Len(u) + i] = v[i]
      BY AgreeConcat
    <2>3. s[n] = u \o v
      BY <1>1, <2>1
    <2> HIDE DEF Agree
    <2> QED BY <2>1, <2>2, <2>3
  <1>6. Start(t[n]) = t[q].end
    BY <1>2, <1>5 DEF Start
  <1>7. t[n].end = t[q].end + Len(t[n].tokens) /\ t[q].end < t[n].end
    BY <1>2, <1>4, <1>5
  <1>8. /\ Agree(s[n], s[q], t[q].end)
        /\ \A i \in 1 .. Len(t[n].tokens) : s[n][t[q].end + i] = t[n].tokens[i]
    BY <1>2, <1>5
  <1> QED BY <1>0, <1>1, <1>2, <1>3, <1>4, <1>6, <1>7, <1>8 DEF Edge

\* What the specification says a node spells is what s has.
LEMMA SpelledIs ==
  ASSUME NEW t, NEW s, Tree(t, s)
  PROVE  \A n \in DOMAIN t : Spelled(t, n) = s[n]
  <1>0. ASSUME NEW n \in DOMAIN t, n # Root
        PROVE  \E q \in DOMAIN t : /\ q = t[n].parent /\ t[q].end < t[n].end
                                   /\ s[n] = s[q] \o t[n].tokens
    <2>1. PICK q : Edge(t, s, n, q)
      BY <1>0, EdgeFacts
    <2>2. q \in DOMAIN t /\ q = t[n].parent /\ t[q].end < t[n].end
      BY <2>1 DEF Edge
    <2>3. s[n] = s[t[n].parent] \o t[n].tokens
      BY <1>0 DEF Tree
    <2> QED BY <2>2, <2>3
  <1> DEFINE to == CHOOSE to : to = [m \in DOMAIN t |-> IF m = Root THEN <<>>
                                                        ELSE to[t[m].parent] \o t[m].tokens]
             M == {k \in Nat : \A n \in DOMAIN t : t[n].end <= k => to[n] = s[n]}
  <1>1. s = [m \in DOMAIN t |-> IF m = Root THEN <<>> ELSE s[t[m].parent] \o t[m].tokens]
    BY DEF Tree
  <1>2. to = [m \in DOMAIN t |-> IF m = Root THEN <<>> ELSE to[t[m].parent] \o t[m].tokens]
    BY <1>1
  <1>3. \A n \in DOMAIN t : Spelled(t, n) = to[n]
    BY DEF Spelled
  <1> HIDE DEF to
  <1>4. to[Root] = <<>> /\ \A n \in DOMAIN t : n # Root => to[n] = to[t[n].parent] \o t[n].tokens
    <2>1. Root \in DOMAIN t
      BY DEF Tree
    <2> QED BY <1>2, <2>1
  <1>5. 0 \in M
    <2> SUFFICES ASSUME NEW n \in DOMAIN t, t[n].end <= 0 PROVE to[n] = s[n]
      OBVIOUS
    <2>1. n = Root
      <3> SUFFICES ASSUME n # Root PROVE FALSE
        OBVIOUS
      <3>1. PICK q \in DOMAIN t : t[q].end < t[n].end
        BY <1>0
      <3>2. t[q].end \in Nat /\ t[n].end \in Nat
        BY <3>1, TreeFacts
      <3> QED BY <3>1, <3>2
    <2> QED BY <1>4, <2>1 DEF Tree
  <1>6. ASSUME NEW k \in M PROVE k + 1 \in M
    <2> SUFFICES ASSUME NEW n \in DOMAIN t, t[n].end <= k + 1 PROVE to[n] = s[n]
      OBVIOUS
    <2>1. CASE n = Root
      BY <1>4, <2>1 DEF Tree
    <2>2. CASE n # Root
      <3>1. PICK q : /\ q = t[n].parent /\ q \in DOMAIN t /\ t[q].end < t[n].end
                     /\ s[n] = s[q] \o t[n].tokens
        BY <1>0, <2>2
      <3>2. t[q].end \in Nat /\ t[n].end \in Nat
        BY <3>1, TreeFacts
      <3>3. t[q].end <= k
        BY <3>1, <3>2
      <3>4. to[q] = s[q]
        BY <3>1, <3>3
      <3> QED BY <1>4, <2>2, <3>1, <3>4
    <2> QED BY <2>1, <2>2
  <1>7. M = Nat
    <2>1. M \in SUBSET Nat
      OBVIOUS
    <2> HIDE DEF M
    <2> QED BY <1>5, <1>6, <2>1, NatSetInduction
  <1>8. ASSUME NEW n \in DOMAIN t PROVE to[n] = s[n]
    <2>1. t[n].end \in Nat /\ t[n].end <= t[n].end
      BY TreeFacts
    <2> QED BY <1>7, <2>1
  <1> QED BY <1>3, <1>8

----------------------------------------------------------------------------
(* Walks down the trie.                                                    *)

Walks(t, path) ==
    /\ path \in Seq(DOMAIN t) /\ path # <<>>
    /\ \A i \in 2 .. Len(path) : t[path[i]].parent = path[i - 1]

\* Agreement goes on from one sequence to the next.
LEMMA AgreeTwice ==
  ASSUME NEW a, NEW b, NEW c, NEW j \in Nat, NEW k \in Nat, j <= k, Agree(a, b, k), Agree(b, c, j)
  PROVE  Agree(a, c, j)
  <1>1. \A i \in 1 .. j : i \in 1 .. k
    OBVIOUS
  <1> QED BY <1>1 DEF Agree

\* Agreement is symmetric, and holds of fewer entries.
LEMMA AgreeLess ==
  ASSUME NEW T, NEW a \in Seq(T), NEW b \in Seq(T), NEW j \in Nat, NEW k \in Nat, j <= k, Agree(a, b, k)
  PROVE  Agree(a, b, j) /\ Agree(b, a, j)
  <1>1. Len(a) \in Nat /\ Len(b) \in Nat
    BY LenProperties
  <1> QED BY <1>1 DEF Agree

\* The nodes of a path are nodes of the trie, and none but the first is the root.
LEMMA WalkFacts ==
  ASSUME NEW t, NEW s, Tree(t, s), NEW path, Walks(t, path)
  PROVE  /\ Len(path) \in Nat /\ Len(path) >= 1 /\ path \in Seq(DOMAIN t)
         /\ \A i \in 1 .. Len(path) : path[i] \in DOMAIN t
         /\ Last(path) = path[Len(path)] /\ Last(path) \in DOMAIN t
         /\ \A i \in 2 .. Len(path) : path[i] # Root
  <1>1. /\ Len(path) \in Nat /\ Len(path) >= 1 /\ path \in Seq(DOMAIN t)
        /\ \A i \in 1 .. Len(path) : path[i] \in DOMAIN t
    BY LenProperties, EmptySeq DEF Walks
  <1>2. Last(path) = path[Len(path)] /\ Last(path) \in DOMAIN t
    BY <1>1 DEF Last
  <1>3. ASSUME NEW i \in 2 .. Len(path), path[i] = Root PROVE FALSE
    <2>1. t[Root].parent = path[i - 1]
      BY <1>3 DEF Walks
    <2>2. path[i - 1] \in DOMAIN t
      BY <1>1
    <2>3. path[i - 1] \in Nat
      BY <2>2, TreeFacts
    <2> QED BY <2>1, <2>3, PrefixCacheAssumption DEF Tree
  <1> QED BY <1>1, <1>2, <1>3

\* A node spells what the nodes above it do, and more.
LEMMA WalkAgrees ==
  ASSUME NEW t, NEW s, Tree(t, s), NEW path, Walks(t, path)
  PROVE  \A j \in 1 .. Len(path) : \A i \in 1 .. j :
            /\ Agree(s[path[j]], s[path[i]], t[path[i]].end)
            /\ t[path[i]].end <= t[path[j]].end
            /\ i < j => t[path[i]].end < t[path[j]].end
  <1> DEFINE Below(i, j) == /\ Agree(s[path[j]], s[path[i]], t[path[i]].end)
                            /\ t[path[i]].end <= t[path[j]].end
                            /\ i < j => t[path[i]].end < t[path[j]].end
             Far(k) == \A i, j \in 1 .. Len(path) : j = i + k => Below(i, j)
             M == {k \in Nat : Far(k)}
  <1>1. Len(path) \in Nat /\ \A i \in 1 .. Len(path) : path[i] \in DOMAIN t
    BY WalkFacts
  <1>2. \A n \in DOMAIN t : t[n].end \in Nat /\ s[n] \in Words /\ Len(s[n]) = t[n].end
    BY TreeFacts
  <1>3. Far(0)
    <2> SUFFICES ASSUME NEW i \in 1 .. Len(path) PROVE Below(i, i)
      OBVIOUS
    <2>1. t[path[i]].end \in Nat /\ s[path[i]] \in Words /\ Len(s[path[i]]) = t[path[i]].end
      BY <1>1, <1>2
    <2> QED BY <2>1 DEF Agree
  <1>4. ASSUME NEW k \in Nat, Far(k) PROVE Far(k + 1)
    <2> SUFFICES ASSUME NEW i \in 1 .. Len(path), NEW j \in 1 .. Len(path), j = i + (k + 1)
                 PROVE  Below(i, j)
      OBVIOUS
    <2>1. j - 1 \in 1 .. Len(path) /\ j - 1 = i + k /\ j \in 2 .. Len(path)
      BY <1>1
    <2>2. Below(i, j - 1)
      BY <1>4, <2>1
    <2>3. path[j] # Root /\ t[path[j]].parent = path[j - 1] /\ path[j] \in DOMAIN t
      BY <1>1, <2>1, WalkFacts DEF Walks
    <2>4. Edge(t, s, path[j], path[j - 1])
      <3>1. PICK q : Edge(t, s, path[j], q)
        BY <2>3, EdgeFacts
      <3>2. q = path[j - 1]
        BY <2>3, <3>1 DEF Edge
      <3> QED BY <3>1, <3>2
    <2>5. Agree(s[path[j]], s[path[j - 1]], t[path[j - 1]].end) /\ t[path[j - 1]].end < t[path[j]].end
      BY <2>4 DEF Edge
    <2>6. t[path[i]].end \in Nat /\ t[path[j]].end \in Nat /\ t[path[j - 1]].end \in Nat
      BY <1>1, <1>2, <2>1
    <2>7. Agree(s[path[j - 1]], s[path[i]], t[path[i]].end) /\ t[path[i]].end <= t[path[j - 1]].end
      BY <2>2
    <2>8. Agree(s[path[j]], s[path[i]], t[path[i]].end)
      BY <2>5, <2>6, <2>7, AgreeTwice
    <2> QED BY <2>5, <2>6, <2>7, <2>8
  <1> HIDE DEF Far
  <1>5. M = Nat
    <2>1. 0 \in M /\ M \in SUBSET Nat /\ \A m \in M : m + 1 \in M
      BY <1>3, <1>4
    <2> HIDE DEF M
    <2> QED BY <2>1, NatSetInduction
  <1> SUFFICES ASSUME NEW j \in 1 .. Len(path), NEW i \in 1 .. j PROVE Below(i, j)
    OBVIOUS
  <1>6. j - i \in Nat /\ j = i + (j - i) /\ i \in 1 .. Len(path)
    BY <1>1
  <1>7. Far(j - i)
    BY <1>5, <1>6
  <1> QED BY <1>6, <1>7 DEF Far

----------------------------------------------------------------------------
(* findBestMatch.                                                          *)

\* w walked from n along the nodes that spell the first of the tokens T.
Match(t, s, n, T, w) ==
    /\ Walks(t, w.path) /\ w.path[1] = n /\ w.matched \in Nat
    /\ t[n].end + w.matched <= Len(T)
    /\ Agree(s[Last(w.path)], T, t[n].end + w.matched)
    /\ Len(w.path) = 1 => w.matched = 0
    /\ Len(w.path) > 1 => Start(t[Last(w.path)]) < t[n].end + w.matched

\* It is all of T, or what comes next is not in the trie.
Stuck(t, s, n, T, w) ==
    LET l == Last(w.path)
        e == t[n].end + w.matched
    IN \/ e = Len(T)
       \/ e < t[l].end /\ s[l][e + 1] # T[e + 1]
       \/ e = t[l].end /\ \A m \in Children(t, l) : t[m].tokens[1] # T[e + 1]

Walkers(t) == [path : Seq(DOMAIN t), matched : Nat, over : BOOLEAN]

Walking(t, s, n, T, w) ==
    /\ w \in Walkers(t)
    /\ Match(t, s, n, T, w)
    /\ w.over => Stuck(t, s, n, T, w)
    /\ ~w.over => t[Last(w.path)].end = t[n].end + w.matched

\* T goes on from n with the keys.
GoesOn(t, s, n, T, keys) ==
    /\ n \in DOMAIN t /\ T \in Words /\ keys \in Words /\ Agree(s[n], T, t[n].end)
    /\ Len(T) = t[n].end + Len(keys) /\ \A i \in 1 .. Len(keys) : T[t[n].end + i] = keys[i]

\* A sequence and one entry more.
LEMMA AppendFacts ==
  ASSUME NEW S, NEW s \in Seq(S), NEW x \in S
  PROVE  /\ Append(s, x) \in Seq(S) /\ Len(Append(s, x)) = Len(s) + 1 /\ Append(s, x) # <<>>
         /\ Append(s, x)[Len(s) + 1] = x /\ Last(Append(s, x)) = x
         /\ \A i \in 1 .. Len(s) : Append(s, x)[i] = s[i]
  <1>1. /\ Append(s, x) \in Seq(S) /\ Len(Append(s, x)) = Len(s) + 1
        /\ Append(s, x)[Len(s) + 1] = x
        /\ \A i \in 1 .. Len(s) : Append(s, x)[i] = s[i]
    OBVIOUS
  <1>2. Append(s, x) # <<>>
    BY SMTT(60)
  <1> QED BY <1>1, <1>2 DEF Last

\* A path may go on to a child of its last node.
LEMMA WalkOn ==
  ASSUME NEW t, NEW s, Tree(t, s), NEW path, Walks(t, path), NEW m \in Children(t, Last(path))
  PROVE  /\ Walks(t, Append(path, m)) /\ Last(Append(path, m)) = m
         /\ Append(path, m)[1] = path[1] /\ Len(Append(path, m)) = Len(path) + 1
  <1>1. /\ path \in Seq(DOMAIN t) /\ m \in DOMAIN t /\ t[m].parent = path[Len(path)]
        /\ Len(path) \in Nat /\ Len(path) >= 1
    BY WalkFacts DEF Children
  <1>2. /\ Append(path, m) \in Seq(DOMAIN t) /\ Len(Append(path, m)) = Len(path) + 1
        /\ Append(path, m) # <<>> /\ Append(path, m)[Len(path) + 1] = m /\ Last(Append(path, m)) = m
        /\ \A i \in 1 .. Len(path) : Append(path, m)[i] = path[i]
    BY <1>1, AppendFacts
  <1>3. ASSUME NEW i \in 2 .. Len(Append(path, m)) PROVE t[Append(path, m)[i]].parent = Append(path, m)[i - 1]
    <2>1. i - 1 \in 1 .. Len(path)
      BY <1>1, <1>2
    <2>2. CASE i = Len(path) + 1
      BY <1>1, <1>2, <2>1, <2>2
    <2>3. CASE i # Len(path) + 1
      <3>1. i \in 2 .. Len(path) /\ i \in 1 .. Len(path)
        BY <1>1, <1>2, <2>3
      <3> QED BY <1>2, <2>1, <3>1 DEF Walks
    <2> QED BY <2>2, <2>3
  <1>4. 1 \in 1 .. Len(path)
    BY <1>1
  <1> QED BY <1>2, <1>3, <1>4 DEF Walks

\* A turn of the loop matches at least one more key, or is the last.
LEMMA DescendStep ==
  ASSUME NEW t, NEW s, Tree(t, s), NEW n, NEW T, NEW keys, GoesOn(t, s, n, T, keys),
         NEW w, Walking(t, s, n, T, w)
  PROVE  /\ Walking(t, s, n, T, Descend(t, keys, w))
         /\ Descend(t, keys, w).over \/ Descend(t, keys, w).matched > w.matched
  <1> DEFINE l == Last(w.path)
             e == t[n].end + w.matched
             left == SubSeq(keys, w.matched + 1, Len(keys))
             next == {m \in Children(t, l) : Common(t[m].tokens, left) > 0}
             Full(m) == Common(t[m].tokens, left) = Len(t[m].tokens)
             Better(m, o) == \/ Full(m) /\ ~Full(o)
                             \/ Full(m) = Full(o) /\ Common(t[m].tokens, left) > Common(t[o].tokens, left)
             best == CHOOSE m \in next : \A o \in next : ~Better(o, m)
             done == [w EXCEPT !.over = TRUE]
             down == [path |-> Append(w.path, best),
                      matched |-> w.matched + Common(t[best].tokens, left),
                      over |-> ~Full(best)]
  <1>1. Descend(t, keys, w) = IF w.over \/ next = {} THEN done ELSE down
    BY DEF Descend
  <1>2. /\ w \in Walkers(t) /\ w.matched \in Nat /\ w.over \in BOOLEAN /\ Match(t, s, n, T, w)
        /\ Walks(t, w.path)
    BY DEF Walking, Match, Walkers
  <1>3. /\ done \in Walkers(t) /\ done.path = w.path /\ done.matched = w.matched /\ done.over = TRUE
    BY <1>2 DEF Walkers
  <1>4. Match(t, s, n, T, done)
    BY <1>2, <1>3 DEF Match
  <1>5. CASE w.over
    <2>1. Stuck(t, s, n, T, done)
      BY <1>3, <1>5 DEF Walking, Stuck
    <2> QED BY <1>1, <1>3, <1>4, <1>5, <2>1 DEF Walking
  <1>6. CASE ~w.over
    <2>1. /\ l \in DOMAIN t /\ t[l].end = e /\ e \in Nat /\ t[n].end \in Nat /\ Len(keys) \in Nat
          /\ e <= Len(T) /\ Len(T) = t[n].end + Len(keys) /\ keys \in Seq(Tokens) /\ T \in Words
      <3>1. l \in DOMAIN t
        BY <1>2, WalkFacts
      <3>2. n \in DOMAIN t /\ T \in Words /\ keys \in Words /\ Len(T) = t[n].end + Len(keys)
        BY DEF GoesOn
      <3>3. t[n].end \in Nat
        BY <3>2, TreeFacts
      <3>4. Len(keys) \in Nat
        BY <3>2, LenProperties DEF Words
      <3>5. t[l].end = e /\ e <= Len(T)
        BY <1>2, <1>6 DEF Walking, Match
      <3> QED BY <1>2, <3>1, <3>2, <3>3, <3>4, <3>5 DEF Words
    <2>2. /\ left \in Words /\ Len(left) = Len(T) - e
          /\ \A i \in 1 .. Len(T) - e : left[i] = T[e + i]
      <3>1. w.matched \in 0 .. Len(keys) /\ Len(keys) \in w.matched .. Len(keys)
        BY <1>2, <2>1
      <3>2. /\ left \in Seq(Tokens) /\ Len(left) = Len(keys) - w.matched
            /\ \A i \in 1 .. Len(keys) - w.matched : left[i] = keys[w.matched + i]
        BY <2>1, <3>1, LastEntries, ZenonT(60)
      <3>3. Len(keys) - w.matched = Len(T) - e
        BY <1>2, <2>1
      <3>4. ASSUME NEW i \in 1 .. Len(T) - e PROVE left[i] = T[e + i]
        <4>1. w.matched + i \in 1 .. Len(keys) /\ i \in 1 .. Len(keys) - w.matched
          BY <1>2, <2>1, <3>3
        <4>2. T[t[n].end + (w.matched + i)] = keys[w.matched + i]
          BY <4>1 DEF GoesOn
        <4>3. t[n].end + (w.matched + i) = e + i
          BY <1>2, <2>1
        <4> QED BY <3>2, <4>1, <4>2, <4>3
      <3> QED BY <3>2, <3>3, <3>4 DEF Words
    <2>3. ASSUME NEW m \in Children(t, l)
          PROVE  /\ Edge(t, s, m, l) /\ m \in DOMAIN t /\ m # Root
                 /\ t[m].tokens \in Words /\ s[m] \in Words /\ t[m].end \in Nat /\ Len(s[m]) = t[m].end
      <3>1. m \in DOMAIN t /\ t[m].parent = l
        BY DEF Children
      <3>2. m # Root
        <4>1. l # None
          BY <2>1, TreeFacts, PrefixCacheAssumption
        <4> QED BY <3>1, <4>1 DEF Tree
      <3>3. PICK q : Edge(t, s, m, q)
        BY <3>1, <3>2, EdgeFacts
      <3>4. q = l
        BY <3>1, <3>3 DEF Edge
      <3> QED BY <3>1, <3>2, <3>3, <3>4, TreeFacts
    <2> HIDE DEF left
    <2>4. ASSUME NEW m \in Children(t, l)
          PROVE  LET k == Common(t[m].tokens, left)
                 IN /\ k \in Nat /\ k <= Len(t[m].tokens) /\ k <= Len(left)
                    /\ \A i \in 1 .. k : t[m].tokens[i] = left[i]
                    /\ k < Len(t[m].tokens) /\ k < Len(left) => t[m].tokens[k + 1] # left[k + 1]
      <3>1. t[m].tokens \in Words /\ left \in Words
        BY <2>2, <2>3
      <3>2. PICK a \in Words, b \in Words : a = t[m].tokens /\ b = left
        BY <3>1
      <3>3. /\ Common(a, b) \in Nat /\ Common(a, b) <= Len(a) /\ Common(a, b) <= Len(b)
            /\ Agree(a, b, Common(a, b))
            /\ Common(a, b) < Len(a) /\ Common(a, b) < Len(b)
                => a[Common(a, b) + 1] # b[Common(a, b) + 1]
        BY CommonIs DEF Words
      <3>4. \A i \in 1 .. Common(a, b) : a[i] = b[i]
        BY <3>3 DEF Agree
      <3> QED BY <3>2, <3>3, <3>4
    <2>5. CASE next = {}
      <3>1. Stuck(t, s, n, T, done)
        <4>1. CASE e = Len(T)
          BY <1>3, <4>1 DEF Stuck
        <4>2. CASE e # Len(T)
          <5>1. ASSUME NEW m \in Children(t, l) PROVE t[m].tokens[1] # T[e + 1]
            <6> DEFINE k == Common(t[m].tokens, left)
            <6>1. k \in Nat /\ ~(k > 0)
              BY <2>4, <2>5
            <6>2. k = 0
              BY <6>1
            <6>3. Len(left) > 0 /\ 1 \in 1 .. Len(T) - e
              BY <2>1, <2>2, <4>2
            <6>4. Len(t[m].tokens) >= 1 /\ Len(t[m].tokens) \in Nat
              BY <2>3, LenProperties DEF Edge, Words
            <6>5. t[m].tokens[1] # left[1]
              <7>1. k < Len(t[m].tokens) /\ k < Len(left)
                BY <6>2, <6>3, <6>4
              <7>2. t[m].tokens[k + 1] # left[k + 1]
                BY <2>4, <7>1
              <7> QED BY <6>2, <7>2
            <6> QED BY <2>2, <6>3, <6>5
          <5>2. \A m \in Children(t, Last(done.path)) : t[m].tokens[1] # T[t[n].end + done.matched + 1]
            BY <1>3, <5>1
          <5> QED BY <1>3, <2>1, <5>2 DEF Stuck
        <4> QED BY <4>1, <4>2
      <3> QED BY <1>1, <1>3, <1>4, <2>5, <3>1 DEF Walking
    <2>6. CASE next # {}
      <3>1. PICK b \in next : TRUE
        BY <2>6
      <3> DEFINE k == Common(t[b].tokens, left)
      <3>2. /\ b \in Children(t, l) /\ k \in Nat /\ k > 0 /\ k <= Len(t[b].tokens) /\ k <= Len(left)
            /\ \A i \in 1 .. k : t[b].tokens[i] = left[i]
            /\ k < Len(t[b].tokens) /\ k < Len(left) => t[b].tokens[k + 1] # left[k + 1]
        BY <2>4, <3>1
      <3>3. ASSUME NEW o \in next PROVE o = b
        <4>1. /\ o \in Children(t, l) /\ 1 \in 1 .. Common(t[o].tokens, left) /\ 1 \in 1 .. k
          BY <2>4, <3>2
        <4>2. t[o].tokens[1] = t[b].tokens[1]
          BY <2>4, <3>2, <4>1
        <4>3. /\ o \in DOMAIN t \ {Root} /\ b \in DOMAIN t \ {Root} /\ t[o].parent = t[b].parent
          BY <2>3, <3>2, <4>1 DEF Children
        <4> QED BY <4>2, <4>3 DEF Tree
      <3>4. best = b
        <4>1. ~Better(b, b)
          BY <3>2
        <4>2. \E m \in next : \A o \in next : ~Better(o, m)
          BY <3>1, <3>3, <4>1
        <4>3. best \in next
          <5> HIDE DEF next, Better
          <5> QED BY <4>2
        <4> HIDE DEF best
        <4> QED BY <3>3, <4>3
      <3>5. /\ down.path = Append(w.path, b) /\ down.matched = w.matched + k
            /\ down.over = (k # Len(t[b].tokens))
        BY <3>4
      <3>6. Descend(t, keys, w) = down
        BY <1>1, <1>6, <2>6
      <3> HIDE DEF down
      <3>7. /\ Edge(t, s, b, l) /\ b \in DOMAIN t /\ t[b].tokens \in Words
            /\ t[b].end = e + Len(t[b].tokens) /\ Len(t[b].tokens) \in Nat /\ Start(t[b]) = e
            /\ Agree(s[b], s[l], e) /\ \A i \in 1 .. Len(t[b].tokens) : s[b][e + i] = t[b].tokens[i]
        <4>1. Edge(t, s, b, l) /\ b \in DOMAIN t /\ t[b].tokens \in Words
          BY <2>3, <3>2
        <4>2. Len(t[b].tokens) \in Nat
          BY <4>1, LenProperties DEF Words
        <4> QED BY <2>1, <4>1, <4>2 DEF Edge
      <3> HIDE DEF k, best, next, Full, Better
      <3>8. e + k \in Nat /\ e + k <= Len(T) /\ t[n].end + down.matched = e + k /\ k <= Len(T) - e
        <4>1. k <= Len(T) - e
          BY <2>2, <3>2
        <4>2. t[n].end + down.matched = e + k
          BY <1>2, <2>1, <3>2, <3>5, SMTT(60)
        <4>3. Len(T) \in Nat
          BY <2>1, LenProperties DEF Words
        <4> HIDE DEF e
        <4> QED BY <2>1, <3>2, <4>1, <4>2, <4>3
      <3>9. Agree(s[b], T, e + k)
        <4>1. Agree(s[l], T, e)
          BY <1>2 DEF Match
        <4>2. Agree(s[b], T, e)
          BY <2>1, <3>7, <4>1, AgreeTwice
        <4>3. ASSUME NEW i \in 1 .. e + k PROVE s[b][i] = T[i]
          <5>1. CASE i <= e
            <6>1. i \in 1 .. e
              BY <2>1, <3>8, <5>1
            <6> QED BY <4>2, <6>1 DEF Agree
          <5>2. CASE i > e
            <6>1. i - e \in 1 .. k /\ e + (i - e) = i
              BY <2>1, <3>2, <5>2
            <6>2. i - e \in 1 .. Len(t[b].tokens) /\ i - e \in 1 .. Len(T) - e
              BY <2>1, <3>2, <3>7, <3>8, <6>1, SMTT(60)
            <6>3. s[b][e + (i - e)] = t[b].tokens[i - e] /\ t[b].tokens[i - e] = left[i - e]
              BY <3>2, <3>7, <6>1, <6>2
            <6>4. left[i - e] = T[e + (i - e)]
              BY <2>2, <6>2
            <6> QED BY <6>1, <6>3, <6>4
          <5> QED BY <2>1, <3>8, <5>1, <5>2
        <4>4. e + k <= Len(s[b])
          BY <2>1, <2>3, <3>2, <3>7
        <4> QED BY <3>8, <4>3, <4>4 DEF Agree
      <3>10. /\ Walks(t, down.path) /\ Last(down.path) = b /\ down.path[1] = w.path[1]
             /\ Len(down.path) = Len(w.path) + 1 /\ Len(w.path) \in Nat /\ Len(w.path) >= 1
        BY <1>2, <3>2, <3>5, WalkOn, WalkFacts
      <3>11. Match(t, s, n, T, down)
        <4>1. down.matched \in Nat
          BY <1>2, <3>2, <3>5
        <4>2. w.path[1] = n
          BY <1>2 DEF Match
        <4>3. Start(t[Last(down.path)]) < t[n].end + down.matched
          BY <2>1, <3>2, <3>7, <3>8, <3>10
        <4>4. Len(down.path) # 1
          BY <3>10
        <4> QED BY <3>8, <3>9, <3>10, <4>1, <4>2, <4>3, <4>4 DEF Match
      <3>12. down \in Walkers(t)
        <4>1. down = [path |-> down.path, matched |-> down.matched, over |-> down.over]
          BY DEF down
        <4>2. down.path \in Seq(DOMAIN t) /\ down.matched \in Nat /\ down.over \in BOOLEAN
          BY <1>2, <3>2, <3>5, <3>10 DEF Walks
        <4> QED BY <4>1, <4>2 DEF Walkers
      <3>13. ASSUME down.over PROVE Stuck(t, s, n, T, down)
        <4>0. k # Len(t[b].tokens)
          BY <3>5, <3>13, Zenon
        <4>1. k < Len(t[b].tokens)
          BY <3>2, <3>7, <4>0
        <4>2. CASE k = Len(left)
          <5>1. e + k = Len(T)
            BY <2>1, <2>2, <3>8, <4>2
          <5> QED BY <3>8, <5>1 DEF Stuck
        <4>3. CASE k # Len(left)
          <5>1. k < Len(left) /\ k + 1 \in 1 .. Len(T) - e /\ k + 1 \in 1 .. Len(t[b].tokens)
            BY <2>1, <2>2, <3>2, <3>7, <4>1, <4>3
          <5>2. t[b].tokens[k + 1] # left[k + 1]
            BY <3>2, <4>1, <5>1
          <5>3. s[b][e + (k + 1)] = t[b].tokens[k + 1] /\ left[k + 1] = T[e + (k + 1)]
            BY <2>2, <3>7, <5>1
          <5>4. e + (k + 1) = (e + k) + 1
            BY <2>1, <3>2
          <5>5. s[b][(e + k) + 1] # T[(e + k) + 1] /\ e + k < t[b].end
            BY <2>1, <3>2, <3>7, <4>1, <5>2, <5>3, <5>4
          <5> QED BY <3>8, <3>10, <5>5 DEF Stuck
        <4> QED BY <4>2, <4>3
      <3>14. ASSUME ~down.over PROVE t[Last(down.path)].end = t[n].end + down.matched
        BY <3>5, <3>7, <3>8, <3>10, <3>14
      <3>15. Walking(t, s, n, T, down)
        BY <3>11, <3>12, <3>13, <3>14 DEF Walking
      <3>16. down.matched > w.matched
        BY <1>2, <3>2, <3>5
      <3> QED BY <3>6, <3>15, <3>16
    <2> QED BY <2>5, <2>6
  <1> QED BY <1>5, <1>6

\* The keys of the loop are one fewer with each turn, so it ends by itself.
LEMMA FindBestMatchIs ==
  ASSUME NEW t, NEW s, Tree(t, s), NEW n, NEW T, NEW keys, GoesOn(t, s, n, T, keys)
  PROVE  /\ Match(t, s, n, T, FindBestMatch(t, n, keys))
         /\ Stuck(t, s, n, T, FindBestMatch(t, n, keys))
  <1> DEFINE N == Len(keys)
             a == [path |-> <<n>>, matched |-> 0, over |-> FALSE]
             walk == CHOOSE walk : walk = [i \in 0 .. N |-> IF i = 0 THEN a ELSE Descend(t, keys, walk[i - 1])]
             W == {w \in Walkers(t) : Walking(t, s, n, T, w)}
             S == [i \in 0 .. N |-> {w \in W : w.over \/ w.matched >= i}]
             step == [p \in (1 .. N) \X W |-> Descend(t, keys, p[2])]
  <1>1. FindBestMatch(t, n, keys) = walk[N]
    BY DEF FindBestMatch
  <1>2. n \in DOMAIN t /\ T \in Words /\ keys \in Words /\ N \in Nat /\ t[n].end \in Nat /\ s[n] \in Words
        /\ Len(T) = t[n].end + N /\ Len(s[n]) = t[n].end /\ n \in Nat
    BY TreeFacts, LenProperties DEF GoesOn, Words
  <1>3. a \in S[0]
    <2>1. /\ a \in Walkers(t) /\ a.path = <<n>> /\ a.matched = 0 /\ a.over = FALSE
          /\ Last(a.path) = n /\ Len(a.path) = 1 /\ a.path[1] = n
      BY <1>2 DEF Walkers, Last
    <2>2. Walks(t, a.path)
      BY <1>2, <2>1 DEF Walks
    <2>3. Agree(s[n], T, t[n].end)
      BY DEF GoesOn
    <2> HIDE DEF a
    <2>4. Walking(t, s, n, T, a)
      BY <1>2, <2>1, <2>2, <2>3 DEF Walking, Match
    <2> QED BY <1>2, <2>1, <2>4
  <1>4. ASSUME NEW i \in 1 .. N, NEW w \in S[i - 1] PROVE w \in W /\ Descend(t, keys, w) \in S[i]
    <2>1. i - 1 \in 0 .. N /\ i \in 0 .. N
      BY <1>2
    <2>2. w \in W /\ (w.over \/ w.matched >= i - 1)
      BY <2>1
    <2>3. Walking(t, s, n, T, w) /\ w.matched \in Nat
      BY <2>2 DEF Walkers
    <2> DEFINE v == Descend(t, keys, w)
    <2>4. Walking(t, s, n, T, v) /\ (v.over \/ v.matched > w.matched)
      BY <2>3, DescendStep
    <2>5. v \in W /\ v.matched \in Nat
      BY <2>4 DEF Walking, Walkers
    <2>6. v.over \/ v.matched >= i
      <3>1. CASE w.over
        <4>1. v.over
          BY <3>1 DEF Descend, Walkers
        <4> QED BY <4>1
      <3>2. CASE ~w.over
        <4> HIDE DEF v
        <4> QED BY <2>2, <2>3, <2>4, <2>5, <3>2
      <3> QED BY <3>1, <3>2
    <2> HIDE DEF v, W
    <2> QED BY <2>1, <2>2, <2>5, <2>6 DEF v
  <1> HIDE DEF a, W
  <1>5. \E f : f = [i \in 0 .. N |-> IF i = 0 THEN a ELSE Descend(t, keys, f[i - 1])]
    <2>1. \A i \in 1 .. N : \A w \in S[i - 1] : step[<<i, w>>] = Descend(t, keys, w)
      BY <1>4
    <2>2. \A i \in 1 .. N : \A w \in S[i - 1] : step[<<i, w>>] \in S[i]
      BY <1>4, <2>1
    <2>0. N \in Nat
      BY <1>2
    <2> HIDE DEF S, step, N
    <2>3. PICK f : Iteration(f, N, a, step) /\ Stays(f, N, S)
      <3>1. Leads(S, N, step)
        BY <2>2 DEF Leads
      <3> QED BY <1>3, <2>0, <3>1, Iterates
    <2>4. ASSUME NEW i \in 0 .. N, i # 0 PROVE step[<<i, f[i - 1]>>] = Descend(t, keys, f[i - 1])
      <3>1. i \in 1 .. N /\ i - 1 \in 0 .. N
        BY <2>0, <2>4
      <3> QED BY <2>1, <2>3, <3>1 DEF Stays
    <2>5. [i \in 0 .. N |-> IF i = 0 THEN a ELSE step[<<i, f[i - 1]>>]]
            = [i \in 0 .. N |-> IF i = 0 THEN a ELSE Descend(t, keys, f[i - 1])]
      BY <2>4, Zenon
    <2> QED BY <2>3, <2>5, Zenon DEF Iteration
  <1>6. walk = [i \in 0 .. N |-> IF i = 0 THEN a ELSE Descend(t, keys, walk[i - 1])]
    BY <1>5, Zenon DEF a
  <1>7. walk[0] = a /\ \A i \in 1 .. N : walk[i] = Descend(t, keys, walk[i - 1])
    <2> HIDE DEF walk
    <2>1. \A i \in 0 .. N : walk[i] = IF i = 0 THEN a ELSE Descend(t, keys, walk[i - 1])
      BY <1>6
    <2>2. 0 \in 0 .. N /\ \A i \in 1 .. N : i \in 0 .. N /\ i # 0
      BY <1>2
    <2> QED BY <2>1, <2>2
  <1> HIDE DEF walk
  <1>8. walk[N] \in S[N]
    <2>1. \A i \in 1 .. N : walk[i - 1] \in S[i - 1] => walk[i] \in S[i]
      BY <1>4, <1>7
    <2>2. walk[0] \in S[0] /\ N \in 0 .. N
      BY <1>2, <1>3, <1>7
    <2> HIDE DEF S
    <2> QED BY <1>2, <2>1, <2>2, Iterated
  <1>9. Walking(t, s, n, T, walk[N]) /\ (walk[N].over \/ walk[N].matched >= N)
    BY <1>2, <1>8 DEF W
  <1>10. Match(t, s, n, T, walk[N])
    BY <1>9 DEF Walking
  <1>11. Stuck(t, s, n, T, walk[N])
    <2>1. CASE walk[N].over
      BY <1>9, <2>1 DEF Walking
    <2>2. CASE ~walk[N].over
      <3>1. t[n].end + walk[N].matched <= Len(T) /\ walk[N].matched \in Nat /\ walk[N].matched >= N
        BY <1>9, <1>10, <2>2 DEF Match
      <3>2. t[n].end + walk[N].matched = Len(T)
        BY <1>2, <3>1
      <3> QED BY <3>2 DEF Stuck
    <2> QED BY <2>1, <2>2
  <1> QED BY <1>1, <1>10, <1>11

----------------------------------------------------------------------------
(* The cache.                                                              *)

Tries  == UNION {[D -> Node] : D \in SUBSET Nat}
KVs    == [buf : Seq(Words), off : Nat, rewound : BOOLEAN]
Snaps  == [kv : KVSnaps, rec : RecSnaps]
Caches == [trie : Tries, path : Seq(Nat), kv : KVs, rec : Words, paged : Int, rows : Seq(Snaps), base : Nat]

\* A lazy snapshot names slots that the buffer has.
Fits(k, len) == k # None /\ k.lazy => k.from < k.to /\ k.to <= len

\* A recurrent state was computed from the first of these tokens.
RecOf(r, word) == r # None => Agree(word, r, Len(r))

BytesOf(t) == [n \in DOMAIN t |-> Bytes(t[n])]
Paid(t)    == Total(BytesOf(t), DOMAIN t)

\* The cache is right about itself: its trie and path, the ranges and tokens of its
\* snapshots, and the counter.
Sound(c, s) ==
    /\ c \in Caches /\ Tree(c.trie, s)
    /\ Walks(c.trie, c.path) /\ c.path[1] = Root
    /\ c.kv.off <= Len(c.kv.buf)
    /\ \A n \in DOMAIN c.trie : Fits(c.trie[n].kv, Len(c.kv.buf)) /\ RecOf(c.trie[n].rec, s[n])
    /\ c.paged = Paid(c.trie)

\* The same nodes, but for their snapshots.
SameNodes(t, u) ==
    /\ DOMAIN u = DOMAIN t
    /\ \A n \in DOMAIN t : /\ u[n].tokens = t[n].tokens /\ u[n].end = t[n].end
                           /\ u[n].parent = t[n].parent /\ u[n].user = t[n].user

\* A trie has the type of one.
LEMMA TrieIn ==
  ASSUME NEW t, NEW s, Tree(t, s)
  PROVE  t \in Tries
  <1>1. t \in [DOMAIN t -> Node] /\ DOMAIN t \in SUBSET Nat
    BY DEF Tree
  <1> QED BY <1>1 DEF Tries

\* Other snapshots make no other trie,
LEMMA SameTree ==
  ASSUME NEW t, NEW s, Tree(t, s), NEW u \in [DOMAIN t -> Node], SameNodes(t, u)
  PROVE  Tree(u, s)
  <1>1. DOMAIN u = DOMAIN t /\ Root \in DOMAIN t
    BY DEF Tree
  <1>2. \A n \in DOMAIN t : u[n].tokens = t[n].tokens /\ u[n].end = t[n].end /\ u[n].parent = t[n].parent
    BY DEF SameNodes
  <1>3. /\ IsFiniteSet(DOMAIN u) /\ DOMAIN u \subseteq Nat /\ Root \in DOMAIN u
        /\ u \in [DOMAIN u -> Node] /\ s \in [DOMAIN u -> Words]
        /\ u[Root].tokens = <<>> /\ u[Root].parent = None /\ s[Root] = <<>>
    BY <1>1, <1>2 DEF Tree
  <1>4. \A n \in DOMAIN u \ {Root} : /\ u[n].parent \in DOMAIN u /\ u[n].tokens # <<>>
                                     /\ s[n] = s[u[n].parent] \o u[n].tokens
    BY <1>1, <1>2, Zenon DEF Tree
  <1>5. \A n \in DOMAIN u : u[n].end = Len(s[n])
    BY <1>1, <1>2 DEF Tree
  <1>6. \A n, m \in DOMAIN u \ {Root} :
           n # m /\ u[n].parent = u[m].parent => u[n].tokens[1] # u[m].tokens[1]
    BY <1>1, <1>2, SMTT(60) DEF Tree
  <1> QED BY <1>3, <1>4, <1>5, <1>6 DEF Tree

\* and leave its paths.
LEMMA SameWalks ==
  ASSUME NEW t, NEW s, Tree(t, s), NEW u, SameNodes(t, u), NEW path, Walks(t, path)
  PROVE  Walks(u, path)
  <1>1. DOMAIN u = DOMAIN t /\ \A n \in DOMAIN t : u[n].parent = t[n].parent
    BY DEF SameNodes
  <1>2. Len(path) \in Nat /\ \A i \in 1 .. Len(path) : path[i] \in DOMAIN t
    BY WalkFacts
  <1>3. \A i \in 2 .. Len(path) : i \in 1 .. Len(path)
    BY <1>2
  <1> QED BY <1>1, <1>2, <1>3 DEF Walks

----------------------------------------------------------------------------
(* Bytes.                                                                  *)

\* The bytes of a snapshot are counted in natural numbers.
LEMMA BytesType ==
  ASSUME NEW x, x.kv \in KVSnaps, x.rec \in RecSnaps
  PROVE  Bytes(x) \in Nat /\ KVBytes(x.kv) \in Nat
  <1>1. KVBytes(x.kv) \in Nat
    <2>1. CASE x.kv = None
      BY <2>1 DEF KVBytes
    <2>2. CASE x.kv # None
      <3>1. x.kv.data \in Seq(Words)
        BY <2>2 DEF KVSnaps
      <3> QED BY <2>2, <3>1, LenProperties DEF KVBytes
    <2> QED BY <2>1, <2>2
  <1> QED BY <1>1 DEF Bytes

\* So are those of the nodes.
LEMMA NodeBytes ==
  ASSUME NEW t, NEW s, Tree(t, s)
  PROVE  /\ \A n \in DOMAIN t : /\ t[n].kv \in KVSnaps /\ t[n].rec \in RecSnaps
                                /\ Bytes(t[n]) \in Nat /\ KVBytes(t[n].kv) \in Nat
                                /\ BytesOf(t)[n] = Bytes(t[n]) /\ BytesOf(t)[n] \in Int
         /\ IsFiniteSet(DOMAIN t) /\ Paid(t) \in Int
  <1>1. ASSUME NEW n \in DOMAIN t
        PROVE  /\ t[n].kv \in KVSnaps /\ t[n].rec \in RecSnaps
               /\ Bytes(t[n]) \in Nat /\ KVBytes(t[n].kv) \in Nat
               /\ BytesOf(t)[n] = Bytes(t[n]) /\ BytesOf(t)[n] \in Int
    <2>1. t[n].kv \in KVSnaps /\ t[n].rec \in RecSnaps
      BY TreeFacts DEF Node
    <2>2. Bytes(t[n]) \in Nat /\ KVBytes(t[n].kv) \in Nat
      BY <2>1, BytesType
    <2> QED BY <2>1, <2>2 DEF BytesOf
  <1>2. IsFiniteSet(DOMAIN t)
    BY DEF Tree
  <1>3. Paid(t) \in Int
    BY <1>1, <1>2, TotalRemove DEF Paid
  <1> QED BY <1>1, <1>2, <1>3

\* The sum of two functions.
LEMMA TotalPlus ==
  ASSUME NEW S, IsFiniteSet(S), NEW f, NEW g, NEW h,
         \A x \in S : f[x] \in Int /\ g[x] \in Int /\ h[x] = f[x] + g[x]
  PROVE  Total(h, S) = Total(f, S) + Total(g, S) /\ Total(f, S) \in Int /\ Total(g, S) \in Int
  <1> DEFINE P == {T \in SUBSET S : Total(h, T) = Total(f, T) + Total(g, T)}
  <1>0. ASSUME NEW T \in SUBSET S
        PROVE  /\ IsFiniteSet(T) /\ Total(f, T) \in Int /\ Total(g, T) \in Int /\ Total(h, T) \in Int
               /\ \A x \in T : /\ Total(f, T) = f[x] + Total(f, T \ {x})
                               /\ Total(g, T) = g[x] + Total(g, T \ {x})
                               /\ Total(h, T) = h[x] + Total(h, T \ {x})
    <2>1. IsFiniteSet(T)
      BY FS_Subset
    <2>2. \A x \in T : f[x] \in Int /\ g[x] \in Int /\ h[x] \in Int
      OBVIOUS
    <2> QED BY <2>1, <2>2, TotalRemove
  <1>1. {} \in P
    BY TotalEmpty
  <1>2. ASSUME NEW T \in SUBSET S, T # {}, \A x \in T : T \ {x} \in P PROVE T \in P
    <2>1. PICK x \in T : TRUE
      BY <1>2
    <2>2. Total(h, T \ {x}) = Total(f, T \ {x}) + Total(g, T \ {x})
      BY <1>2
    <2>3. /\ Total(f, T) = f[x] + Total(f, T \ {x}) /\ Total(g, T) = g[x] + Total(g, T \ {x})
          /\ Total(h, T) = h[x] + Total(h, T \ {x})
          /\ Total(f, T \ {x}) \in Int /\ Total(g, T \ {x}) \in Int
      BY <1>0
    <2>4. f[x] \in Int /\ g[x] \in Int /\ h[x] = f[x] + g[x]
      OBVIOUS
    <2>5. Total(h, T) = Total(f, T) + Total(g, T)
      BY <2>2, <2>3, <2>4
    <2> QED BY <2>5
  <1>3. P = SUBSET S
    <2>1. P \in SUBSET SUBSET S
      OBVIOUS
    <2> HIDE DEF P
    <2> QED BY <1>1, <1>2, <2>1, SubsetInduction
  <1> QED BY <1>0, <1>3

\* What one node owns changes.
LEMMA PaidOne ==
  ASSUME NEW t, NEW s, Tree(t, s), NEW u, NEW r, Tree(u, r), DOMAIN u = DOMAIN t, NEW n \in DOMAIN t,
         \A m \in DOMAIN t \ {n} : u[m].kv = t[m].kv /\ u[m].rec = t[m].rec
  PROVE  Paid(u) = Paid(t) - Bytes(t[n]) + Bytes(u[n])
  <1>1. \A m \in DOMAIN t : /\ BytesOf(t)[m] \in Int /\ BytesOf(u)[m] \in Int
                            /\ BytesOf(t)[m] = Bytes(t[m]) /\ BytesOf(u)[m] = Bytes(u[m])
    BY NodeBytes
  <1>2. \A m \in DOMAIN t \ {n} : BytesOf(u)[m] = BytesOf(t)[m]
    BY <1>1 DEF Bytes
  <1>3. IsFiniteSet(DOMAIN t) /\ Paid(t) \in Int
    BY NodeBytes
  <1>4. Paid(u) = Paid(t) + (BytesOf(u)[n] - BytesOf(t)[n])
    <2>1. Total(BytesOf(u), DOMAIN t) = Total(BytesOf(t), DOMAIN t) + (BytesOf(u)[n] - BytesOf(t)[n])
      <3>1. PICK f, g, D : f = BytesOf(t) /\ g = BytesOf(u) /\ D = DOMAIN t
        OBVIOUS
      <3>2. /\ \A y \in D : f[y] \in Int /\ g[y] \in Int
            /\ \A y \in D \ {n} : g[y] = f[y]
            /\ n \in D /\ IsFiniteSet(D)
        BY <1>1, <1>2, <1>3, <3>1
      <3>3. Total(g, D) = Total(f, D) + (g[n] - f[n])
        BY <3>2, TotalChange
      <3> QED BY <3>1, <3>3
    <2> QED BY <2>1 DEF Paid
  <1> QED BY <1>1, <1>3, <1>4

\* A node that owns nothing comes or goes.
LEMMA PaidBare ==
  ASSUME NEW t, NEW s, Tree(t, s), NEW u, NEW r, Tree(u, r), NEW n, n \notin DOMAIN t,
         DOMAIN u = DOMAIN t \cup {n}, Bytes(u[n]) = 0,
         \A m \in DOMAIN t : u[m].kv = t[m].kv /\ u[m].rec = t[m].rec
  PROVE  Paid(u) = Paid(t)
  <1>1. /\ \A m \in DOMAIN t : BytesOf(t)[m] \in Int /\ BytesOf(u)[m] = BytesOf(t)[m]
        /\ \A m \in DOMAIN t \cup {n} : BytesOf(u)[m] \in Int
        /\ BytesOf(u)[n] = 0
    <2>1. \A m \in DOMAIN t : BytesOf(t)[m] \in Int /\ BytesOf(t)[m] = Bytes(t[m])
      BY NodeBytes
    <2>2. \A m \in DOMAIN t \cup {n} : BytesOf(u)[m] \in Int /\ BytesOf(u)[m] = Bytes(u[m])
      BY NodeBytes
    <2>3. \A m \in DOMAIN t : Bytes(u[m]) = Bytes(t[m])
      BY DEF Bytes
    <2> QED BY <2>1, <2>2, <2>3
  <1>2. IsFiniteSet(DOMAIN t) /\ Paid(t) \in Int
    BY NodeBytes
  <1>3. Total(BytesOf(u), DOMAIN t \cup {n}) = BytesOf(u)[n] + Total(BytesOf(u), DOMAIN t)
    BY <1>1, <1>2, TotalAdd
  <1>4. Total(BytesOf(u), DOMAIN t) = Total(BytesOf(t), DOMAIN t)
    BY <1>1, <1>2, TotalSame
  <1> QED BY <1>1, <1>2, <1>3, <1>4 DEF Paid

----------------------------------------------------------------------------
(* setSnapshots.                                                           *)

\* The rest of the cache.
Apart(c, d) == d.kv = c.kv /\ d.rec = c.rec /\ d.rows = c.rows /\ d.base = c.base

\* d is c with the snapshots x in n.
SnapshotsSet(c, n, x, d) ==
    /\ d.paged = c.paged - Bytes(c.trie[n]) + Bytes(x)
    /\ d.path = c.path /\ Apart(c, d) /\ SameNodes(c.trie, d.trie)
    /\ d.trie \in [DOMAIN c.trie -> Node] /\ DOMAIN d.trie = DOMAIN c.trie
    /\ d.trie[n].kv = x.kv /\ d.trie[n].rec = x.rec
    /\ \A m \in DOMAIN c.trie \ {n} : d.trie[m] = c.trie[m]
    /\ d = [trie |-> d.trie, path |-> c.path, kv |-> c.kv, rec |-> c.rec, paged |-> d.paged,
            rows |-> c.rows, base |-> c.base]

\* What setSnapshots does to the cache.
LEMMA SnapshotsFields ==
  ASSUME NEW c \in Caches, NEW s, Tree(c.trie, s), NEW n \in DOMAIN c.trie, NEW x,
         x.kv \in KVSnaps, x.rec \in RecSnaps
  PROVE  SnapshotsSet(c, n, x, SetSnapshots(c, n, x))
  <1> DEFINE t == c.trie
             y == [[t[n] EXCEPT !.kv = x.kv] EXCEPT !.rec = x.rec]
             u == [t EXCEPT ![n] = y]
             d == SetSnapshots(c, n, x)
  <1>1. t \in [DOMAIN t -> Node] /\ t[n] \in Node
    BY TreeFacts DEF Tree
  <1>2. /\ y \in Node /\ y.kv = x.kv /\ y.rec = x.rec /\ y.tokens = t[n].tokens
        /\ y.end = t[n].end /\ y.parent = t[n].parent /\ y.user = t[n].user
    BY <1>1 DEF Node
  <1>3. d = [[c EXCEPT !.trie = u] EXCEPT !.paged = c.paged - Bytes(t[n]) + Bytes(x)]
    <2>1. u = [[t EXCEPT ![n] = [t[n] EXCEPT !.kv = x.kv]] EXCEPT ![n] = [[t[n] EXCEPT !.kv = x.kv] EXCEPT !.rec = x.rec]]
      BY <1>1
    <2> QED BY <1>1, <2>1 DEF SetSnapshots, Caches
  <1>4. /\ d.trie = u /\ d.paged = c.paged - Bytes(t[n]) + Bytes(x) /\ d.path = c.path /\ d.kv = c.kv
        /\ d.rec = c.rec /\ d.rows = c.rows /\ d.base = c.base
    <2> HIDE DEF u, d
    <2> QED BY <1>3 DEF Caches
  <1>5. d = [trie |-> d.trie, path |-> c.path, kv |-> c.kv, rec |-> c.rec, paged |-> d.paged,
             rows |-> c.rows, base |-> c.base]
    <2> HIDE DEF u
    <2> QED BY <1>3 DEF Caches
  <1>6. /\ u \in [DOMAIN t -> Node] /\ DOMAIN u = DOMAIN t /\ u[n] = y
        /\ \A m \in DOMAIN t \ {n} : u[m] = t[m]
    <2> HIDE DEF y
    <2> QED BY <1>1, <1>2
  <1>7. SameNodes(t, u)
    <2> HIDE DEF y, u
    <2> QED BY <1>2, <1>6 DEF SameNodes
  <1> HIDE DEF u, y, d
  <1> QED BY <1>2, <1>4, <1>5, <1>6, <1>7 DEF Apart, d, SnapshotsSet

\* Snapshots that fit, of what the node spells, may be set: the counter follows.
LEMMA SnapshotsSound ==
  ASSUME NEW c, NEW s, Sound(c, s), NEW n \in DOMAIN c.trie, NEW x,
         x.kv \in KVSnaps, x.rec \in RecSnaps, Fits(x.kv, Len(c.kv.buf)), RecOf(x.rec, s[n])
  PROVE  Sound(SetSnapshots(c, n, x), s)
  <1> DEFINE t == c.trie
  <1>1. c \in Caches /\ Tree(t, s) /\ c.paged = Paid(t)
    BY DEF Sound
  <1>2. PICK d : d = SetSnapshots(c, n, x)
    OBVIOUS
  <1>2a. SnapshotsSet(c, n, x, d)
    BY <1>1, <1>2, SnapshotsFields
  <1>3. /\ d.paged = c.paged - Bytes(t[n]) + Bytes(x)
        /\ d.path = c.path /\ Apart(c, d) /\ SameNodes(t, d.trie)
        /\ d.trie \in [DOMAIN t -> Node] /\ DOMAIN d.trie = DOMAIN t
        /\ d.trie[n].kv = x.kv /\ d.trie[n].rec = x.rec
        /\ \A m \in DOMAIN t \ {n} : d.trie[m] = t[m]
        /\ d = [trie |-> d.trie, path |-> c.path, kv |-> c.kv, rec |-> c.rec, paged |-> d.paged,
                rows |-> c.rows, base |-> c.base]
    BY <1>2a, Zenon DEF SnapshotsSet
  <1>4. Tree(d.trie, s)
    BY <1>1, <1>3, SameTree
  <1>5. Bytes(d.trie[n]) = Bytes(x) /\ Bytes(x) \in Nat /\ Bytes(t[n]) \in Nat
    BY <1>1, <1>3, BytesType, NodeBytes DEF Bytes
  <1>6. d.paged = Paid(d.trie) /\ d.paged \in Int
    <2>1. Paid(d.trie) = Paid(t) - Bytes(t[n]) + Bytes(d.trie[n])
      BY <1>1, <1>3, <1>4, PaidOne
    <2>2. Paid(t) \in Int
      BY <1>1, NodeBytes
    <2> QED BY <1>1, <1>3, <1>5, <2>1, <2>2
  <1>7. d \in Caches
    <2>1. d.trie \in Tries
      BY <1>4, TrieIn
    <2>2. /\ c.path \in Seq(Nat) /\ c.kv \in KVs /\ c.rec \in Words /\ c.rows \in Seq(Snaps) /\ c.base \in Nat
      BY <1>1 DEF Caches
    <2> QED BY <1>3, <1>6, <2>1, <2>2 DEF Caches
  <1>8. Walks(d.trie, d.path) /\ d.path[1] = Root
    BY <1>1, <1>3, SameWalks DEF Sound
  <1>9. ASSUME NEW m \in DOMAIN d.trie
        PROVE  Fits(d.trie[m].kv, Len(d.kv.buf)) /\ RecOf(d.trie[m].rec, s[m])
    BY <1>3 DEF Sound, Apart
  <1>10. d.kv.off <= Len(d.kv.buf)
    BY <1>3 DEF Sound, Apart
  <1> QED BY <1>2, <1>4, <1>6, <1>7, <1>8, <1>9, <1>10 DEF Sound

----------------------------------------------------------------------------
(* The KV cache.                                                           *)

\* What copyOut makes of a snapshot.
Copied(c, from, to, k) == IF k # None /\ k.lazy /\ k.from < to /\ k.to > from THEN CopyOf(c, k) ELSE k

CopiedOut(c, from, to, d) ==
    /\ d = [trie |-> d.trie, path |-> c.path, kv |-> c.kv, rec |-> c.rec, paged |-> d.paged,
            rows |-> c.rows, base |-> c.base]
    /\ d.path = c.path /\ Apart(c, d) /\ SameNodes(c.trie, d.trie)
    /\ DOMAIN d.trie = DOMAIN c.trie
    /\ d.trie = [n \in DOMAIN c.trie |-> [c.trie[n] EXCEPT !.kv = Copied(c, from, to, c.trie[n].kv)]]
    /\ \A n \in DOMAIN c.trie : /\ d.trie[n].kv = Copied(c, from, to, c.trie[n].kv)
                                 /\ d.trie[n].rec = c.trie[n].rec

\* What copyOut makes of a snapshot that fits is one that does.
LEMMA CopyType ==
  ASSUME NEW c \in Caches, NEW k \in KVSnaps, Fits(k, Len(c.kv.buf)), NEW from, NEW to
  PROVE  /\ Copied(c, from, to, k) \in KVSnaps
         /\ Fits(Copied(c, from, to, k), Len(c.kv.buf))
         /\ k # None /\ k.lazy => /\ CopyOf(c, k) \in KVSnaps /\ Len(CopyOf(c, k).data) = k.to - k.from
                                  /\ CopyOf(c, k).lazy = FALSE
                                  /\ CopyOf(c, k).from = k.from /\ CopyOf(c, k).to = k.to
                                  /\ \A i \in 1 .. k.to - k.from :
                                        CopyOf(c, k).data[i] = c.kv.buf[k.from + i]
  <1>1. CASE k # None /\ k.lazy
    <2>1. /\ k.from \in Nat /\ k.to \in Nat /\ k.from < k.to /\ k.to <= Len(c.kv.buf)
          /\ c.kv.buf \in Seq(Words) /\ Len(c.kv.buf) \in Nat
      BY <1>1, LenProperties DEF KVSnaps, Fits, Caches, KVs
    <2>2. k.from \in 0 .. Len(c.kv.buf) /\ k.to \in k.from .. Len(c.kv.buf)
      BY <2>1
    <2> DEFINE data == SubSeq(c.kv.buf, k.from + 1, k.to)
    <2>3. /\ data \in Seq(Words) /\ Len(data) = k.to - k.from
          /\ \A i \in 1 .. k.to - k.from : data[i] = c.kv.buf[k.from + i]
      BY <2>1, <2>2, LastEntries
    <2>4. CopyOf(c, k) = [from |-> k.from, to |-> k.to, lazy |-> FALSE, data |-> data]
      BY DEF CopyOf, Owned
    <2> HIDE DEF data
    <2>5. CopyOf(c, k) \in KVSnaps /\ CopyOf(c, k).lazy = FALSE
      BY <2>1, <2>3, <2>4 DEF KVSnaps
    <2>6. CopyOf(c, k).from = k.from /\ CopyOf(c, k).to = k.to /\ CopyOf(c, k).data = data
      BY <2>4
    <2>7. Fits(CopyOf(c, k), Len(c.kv.buf))
      BY <2>5 DEF Fits
    <2> HIDE DEF Fits
    <2> QED BY <2>3, <2>5, <2>6, <2>7 DEF Copied
  <1>2. CASE ~(k # None /\ k.lazy)
    BY <1>2, Zenon DEF Copied
  <1> QED BY <1>1, <1>2

\* What copyOut does to the cache.
LEMMA CopyOutFields ==
  ASSUME NEW c \in Caches, NEW s, Tree(c.trie, s), NEW from, NEW to
  PROVE  /\ CopiedOut(c, from, to, CopyOut(c, from, to))
         /\ CopyOut(c, from, to).paged = c.paged +
               Total([n \in DOMAIN c.trie |-> KVBytes(Copied(c, from, to, c.trie[n].kv)) - KVBytes(c.trie[n].kv)],
                     DOMAIN c.trie)
  <1> DEFINE t == c.trie
             u == [n \in DOMAIN t |-> [t[n] EXCEPT !.kv = Copied(c, from, to, t[n].kv)]]
             p == c.paged + Total([n \in DOMAIN t |-> KVBytes(Copied(c, from, to, t[n].kv)) - KVBytes(t[n].kv)], DOMAIN t)
             d == CopyOut(c, from, to)
  <1>1. \A n \in DOMAIN t : t[n] \in Node
    BY TreeFacts
  <1>2. d = [[c EXCEPT !.trie = u] EXCEPT !.paged = p]
    BY DEF CopyOut, Copied
  <1>3. /\ DOMAIN u = DOMAIN t
        /\ \A n \in DOMAIN t : /\ u[n].kv = Copied(c, from, to, t[n].kv) /\ u[n].rec = t[n].rec
                                /\ u[n].tokens = t[n].tokens /\ u[n].end = t[n].end
                                /\ u[n].parent = t[n].parent /\ u[n].user = t[n].user
    BY <1>1 DEF Node
  <1> HIDE DEF u, p, d
  <1>4. /\ d.trie = u /\ d.paged = p /\ d.path = c.path /\ d.kv = c.kv /\ d.rec = c.rec /\ d.rows = c.rows
        /\ d.base = c.base
        /\ d = [trie |-> d.trie, path |-> c.path, kv |-> c.kv, rec |-> c.rec, paged |-> d.paged,
                rows |-> c.rows, base |-> c.base]
    BY <1>2 DEF Caches
  <1>5. CopiedOut(c, from, to, d)
    BY <1>3, <1>4, ZenonT(60) DEF CopiedOut, Apart, SameNodes, u
  <1> QED BY <1>4, <1>5 DEF d, p

\* The hook counts what copyOut makes the snapshots own.
LEMMA CopyOutSound ==
  ASSUME NEW c, NEW s, Sound(c, s), NEW from, NEW to
  PROVE  Sound(CopyOut(c, from, to), s) /\ CopiedOut(c, from, to, CopyOut(c, from, to))
  <1> DEFINE t == c.trie
             new == [n \in DOMAIN t |-> KVBytes(Copied(c, from, to, t[n].kv))]
             old == [n \in DOMAIN t |-> KVBytes(t[n].kv)]
             grown == [n \in DOMAIN t |-> KVBytes(Copied(c, from, to, t[n].kv)) - KVBytes(t[n].kv)]
  <1>1. c \in Caches /\ Tree(t, s) /\ c.paged = Paid(t) /\ IsFiniteSet(DOMAIN t)
    BY DEF Sound, Tree
  <1>2. PICK d : d = CopyOut(c, from, to)
    OBVIOUS
  <1>3. CopiedOut(c, from, to, d) /\ d.paged = c.paged + Total(grown, DOMAIN t)
    BY <1>1, <1>2, CopyOutFields
  <1>4. ASSUME NEW n \in DOMAIN t
        PROVE  /\ t[n].kv \in KVSnaps /\ t[n].rec \in RecSnaps
               /\ Copied(c, from, to, t[n].kv) \in KVSnaps
               /\ Fits(Copied(c, from, to, t[n].kv), Len(c.kv.buf)) /\ RecOf(t[n].rec, s[n])
    <2>1. t[n].kv \in KVSnaps /\ t[n].rec \in RecSnaps
      BY <1>1, NodeBytes
    <2>2. Fits(t[n].kv, Len(c.kv.buf)) /\ RecOf(t[n].rec, s[n])
      BY DEF Sound
    <2> QED BY <1>1, <2>1, <2>2, CopyType
  <1>5. /\ DOMAIN d.trie = DOMAIN t /\ SameNodes(t, d.trie)
        /\ \A n \in DOMAIN t : /\ d.trie[n].kv = Copied(c, from, to, t[n].kv) /\ d.trie[n].rec = t[n].rec
        /\ d.path = c.path /\ d.kv = c.kv
    BY <1>3 DEF CopiedOut, Apart
  <1>6. d.trie \in [DOMAIN t -> Node]
    <2>1. d.trie = [n \in DOMAIN t |-> [t[n] EXCEPT !.kv = Copied(c, from, to, t[n].kv)]]
      BY <1>3 DEF CopiedOut
    <2>2. \A n \in DOMAIN t : t[n] \in Node
      BY <1>1, TreeFacts
    <2> QED BY <1>4, <2>1, <2>2, ZenonT(60) DEF Node
  <1>7. Tree(d.trie, s)
    BY <1>1, <1>5, <1>6, SameTree
  <1>8. d.paged = Paid(d.trie) /\ d.paged \in Int
    <2>1. \A n \in DOMAIN t : /\ BytesOf(t)[n] \in Int /\ KVBytes(t[n].kv) \in Int /\ BytesOf(t)[n] = Bytes(t[n])
      BY <1>1, NodeBytes
    <2>2. \A n \in DOMAIN t : /\ KVBytes(d.trie[n].kv) \in Int /\ BytesOf(d.trie)[n] = Bytes(d.trie[n])
      BY <1>5, <1>7, NodeBytes
    <2>3. \A n \in DOMAIN t : grown[n] = KVBytes(d.trie[n].kv) - KVBytes(t[n].kv)
      BY <1>5
    <2>4. \A n \in DOMAIN t : /\ grown[n] \in Int /\ BytesOf(t)[n] \in Int
                              /\ BytesOf(d.trie)[n] = grown[n] + BytesOf(t)[n]
      <3> HIDE DEF grown
      <3> QED BY <1>5, <2>1, <2>2, <2>3 DEF Bytes
    <2> HIDE DEF grown
    <2>5. PICK f, g, h, D : f = grown /\ g = BytesOf(t) /\ h = BytesOf(d.trie) /\ D = DOMAIN t
      OBVIOUS
    <2>6. Total(h, D) = Total(f, D) + Total(g, D) /\ Total(f, D) \in Int /\ Total(g, D) \in Int
      <3>1. IsFiniteSet(D) /\ \A x \in D : f[x] \in Int /\ g[x] \in Int /\ h[x] = f[x] + g[x]
        BY <1>1, <2>4, <2>5
      <3> QED BY <3>1, TotalPlus
    <2>7. Paid(t) = Total(g, D) /\ Paid(d.trie) = Total(h, D) /\ d.paged = c.paged + Total(f, D)
      BY <1>3, <1>5, <2>5 DEF Paid
    <2> QED BY <1>1, <2>6, <2>7
  <1>9. d \in Caches
    <2>1. d.trie \in Tries
      BY <1>7, TrieIn
    <2>2. /\ c.path \in Seq(Nat) /\ c.kv \in KVs /\ c.rec \in Words /\ c.rows \in Seq(Snaps) /\ c.base \in Nat
      BY <1>1 DEF Caches
    <2>3. d = [trie |-> d.trie, path |-> c.path, kv |-> c.kv, rec |-> c.rec, paged |-> d.paged,
               rows |-> c.rows, base |-> c.base]
      BY <1>3 DEF CopiedOut
    <2> QED BY <1>8, <2>1, <2>2, <2>3 DEF Caches
  <1>10. Walks(d.trie, d.path) /\ d.path[1] = Root
    BY <1>1, <1>5, SameWalks DEF Sound
  <1>11. \A n \in DOMAIN d.trie : Fits(d.trie[n].kv, Len(d.kv.buf)) /\ RecOf(d.trie[n].rec, s[n])
    BY <1>4, <1>5
  <1>12. d.kv.off <= Len(d.kv.buf)
    BY <1>5 DEF Sound
  <1> QED BY <1>2, <1>3, <1>7, <1>8, <1>9, <1>10, <1>11, <1>12 DEF Sound

\* What appendKV writes: data after prev, and what was behind it stays.
Written(buf, prev, data, out) ==
    /\ out \in Seq(Words) /\ Len(out) >= Len(buf) /\ Len(out) >= prev + Len(data)
    /\ Len(out) = IF prev + Len(data) <= Len(buf) THEN Len(buf) ELSE prev + Len(data)
    /\ \A i \in 1 .. prev : out[i] = buf[i]
    /\ \A i \in 1 .. Len(data) : out[prev + i] = data[i]
    /\ \A i \in prev + Len(data) + 1 .. Len(buf) : out[i] = buf[i]

\* The buffer after a write into it.
LEMMA WriteOver ==
  ASSUME NEW buf \in Seq(Words), NEW prev \in 0 .. Len(buf), NEW data \in Seq(Words)
  PROVE  Written(buf, prev, data,
                 SubSeq(buf, 1, prev) \o data \o SubSeq(buf, prev + Len(data) + 1, Len(buf)))
  <1>1. Len(buf) \in Nat /\ Len(data) \in Nat /\ prev \in Nat /\ prev <= Len(buf)
    BY LenProperties
  <1>2. PICK a \in Seq(Words) : /\ a = SubSeq(buf, 1, prev) /\ Len(a) = prev
                                /\ \A i \in 1 .. prev : a[i] = buf[i]
    BY FirstEntries, ZenonT(60)
  <1> DEFINE end == prev + Len(data)
             b == SubSeq(buf, end + 1, Len(buf))
  <1>a. end \in Nat /\ end >= prev /\ end = prev + Len(data)
    BY <1>1
  <1> HIDE DEF end
  <1>3. /\ b \in Seq(Words)
        /\ end <= Len(buf) => Len(b) = Len(buf) - end /\ \A i \in 1 .. Len(buf) - end : b[i] = buf[end + i]
        /\ ~(end <= Len(buf)) => Len(b) = 0
    <2>1. CASE end <= Len(buf)
      <3>1. end \in 0 .. Len(buf) /\ Len(buf) \in end .. Len(buf)
        BY <1>1, <1>a, <2>1
      <3>2. /\ b \in Seq(Words) /\ Len(b) = Len(buf) - end
            /\ \A i \in 1 .. Len(buf) - end : b[i] = buf[end + i]
        BY <3>1, LastEntries
      <3> HIDE DEF b
      <3> QED BY <2>1, <3>2
    <2>2. CASE ~(end <= Len(buf))
      <3>1. end + 1 \in Int /\ Len(buf) < end + 1 /\ Len(buf) \in Int
        BY <1>1, <1>a, <2>2
      <3>2. b = <<>>
        BY <3>1, SubSeqEmpty
      <3>3. <<>> \in Seq(Words) /\ Len(<<>>) = 0
        BY EmptySeq
      <3> HIDE DEF b
      <3> QED BY <2>2, <3>2, <3>3
    <2> QED BY <2>1, <2>2
  <1> HIDE DEF b
  <1>4. PICK ab \in Seq(Words) : /\ ab = a \o data /\ Len(ab) = end
                                 /\ \A i \in 1 .. prev : ab[i] = buf[i]
                                 /\ \A i \in 1 .. Len(data) : ab[prev + i] = data[i]
    <2>1. /\ a \o data \in Seq(Words) /\ Len(a \o data) = Len(a) + Len(data) /\ Agree(a \o data, a, Len(a))
          /\ \A i \in 1 .. Len(data) : (a \o data)[Len(a) + i] = data[i]
      BY AgreeConcat
    <2>2. \A i \in 1 .. prev : (a \o data)[i] = a[i]
      BY <1>2, <2>1 DEF Agree
    <2>3. PICK ab : ab = a \o data
      OBVIOUS
    <2>4. /\ ab \in Seq(Words) /\ Len(ab) = prev + Len(data)
          /\ \A i \in 1 .. prev : ab[i] = buf[i]
          /\ \A i \in 1 .. Len(data) : ab[prev + i] = data[i]
      BY <1>2, <2>1, <2>2, <2>3
    <2> QED BY <1>a, <2>3, <2>4
  <1>5. PICK out \in Seq(Words) : /\ out = ab \o b /\ Len(out) = Len(ab) + Len(b)
                                  /\ \A i \in 1 .. Len(ab) : out[i] = ab[i]
                                  /\ \A i \in 1 .. Len(b) : out[Len(ab) + i] = b[i]
    <2>1. /\ ab \o b \in Seq(Words) /\ Len(ab \o b) = Len(ab) + Len(b) /\ Agree(ab \o b, ab, Len(ab))
          /\ \A i \in 1 .. Len(b) : (ab \o b)[Len(ab) + i] = b[i]
      BY <1>3, AgreeConcat
    <2> QED BY <2>1 DEF Agree
  <1>6. out = SubSeq(buf, 1, prev) \o data \o SubSeq(buf, prev + Len(data) + 1, Len(buf))
    BY <1>2, <1>4, <1>5 DEF b, end
  <1>7. /\ Len(out) >= Len(buf) /\ Len(out) >= end
        /\ Len(out) = IF end <= Len(buf) THEN Len(buf) ELSE end
    <2>1. CASE end <= Len(buf)
      <3>1. Len(out) = end + (Len(buf) - end)
        BY <1>3, <1>4, <1>5, <2>1
      <3> QED BY <1>1, <1>a, <2>1, <3>1
    <2>2. CASE ~(end <= Len(buf))
      <3>1. Len(out) = end + 0
        BY <1>3, <1>4, <1>5, <2>2
      <3> QED BY <1>1, <1>a, <2>2, <3>1
    <2> QED BY <2>1, <2>2
  <1>8. \A i \in 1 .. prev : i \in 1 .. Len(ab) /\ out[i] = buf[i]
    BY <1>1, <1>a, <1>4, <1>5
  <1>9. ASSUME NEW i \in 1 .. Len(data) PROVE out[prev + i] = data[i]
    <2>1. PICK j \in 1 .. Len(ab) : j = prev + i
      BY <1>1, <1>a, <1>4
    <2>2. out[j] = ab[j]
      BY <1>5
    <2>3. ab[prev + i] = data[i]
      BY <1>4
    <2> QED BY <2>1, <2>2, <2>3
  <1>10. ASSUME NEW i \in end + 1 .. Len(buf) PROVE out[i] = buf[i]
    <2>1. end <= Len(buf) /\ i - end \in 1 .. Len(buf) - end /\ end + (i - end) = i
      BY <1>1, <1>a
    <2>2. b[i - end] = buf[i] /\ i - end \in 1 .. Len(b)
      BY <1>3, <2>1
    <2>3. out[Len(ab) + (i - end)] = b[i - end] /\ Len(ab) = end
      BY <1>4, <1>5, <2>2
    <2> QED BY <2>1, <2>2, <2>3
  <1> QED BY <1>6, <1>7, <1>8, <1>9, <1>10 DEF Written, end

\* The KV cache alone is set.
SetKV(c, kv) == [c EXCEPT !.kv = kv]

\* A longer buffer still has what the lazy snapshots name.
LEMMA SetKVSound ==
  ASSUME NEW c, NEW s, Sound(c, s), NEW kv \in KVs, kv.off <= Len(kv.buf),
         \A n \in DOMAIN c.trie : Fits(c.trie[n].kv, Len(kv.buf))
  PROVE  LET d == SetKV(c, kv)
         IN /\ Sound(d, s) /\ d.kv = kv /\ d.trie = c.trie /\ d.path = c.path
            /\ d.rec = c.rec /\ d.rows = c.rows /\ d.base = c.base /\ d.paged = c.paged
  <1> DEFINE d == SetKV(c, kv)
  <1>1. c \in Caches
    BY DEF Sound
  <1>2. /\ d \in Caches /\ d.kv = kv /\ d.trie = c.trie /\ d.path = c.path
        /\ d.rec = c.rec /\ d.rows = c.rows /\ d.base = c.base /\ d.paged = c.paged
    BY <1>1 DEF Caches, SetKV
  <1> HIDE DEF d
  <1>3. Sound(d, s)
    BY <1>2 DEF Sound
  <1> QED BY <1>2, <1>3 DEF d

----------------------------------------------------------------------------
(* appendKV, restore and free.                                             *)

\* The nodes, the path and the captures are kept; so are the states in the nodes.
Kept(c, d) ==
    /\ SameNodes(c.trie, d.trie) /\ d.path = c.path /\ d.rows = c.rows /\ d.base = c.base

\* A cache is kept by no step,
LEMMA KeptSelf ==
  ASSUME NEW c
  PROVE  Kept(c, c)
  BY DEF Kept, SameNodes

\* and by two that keep it.
LEMMA KeptTwice ==
  ASSUME NEW c, NEW d, NEW e, Kept(c, d), Kept(d, e)
  PROVE  Kept(c, e)
  BY DEF Kept, SameNodes

\* What appendKV does to the cache.
Appended(c, data, d) ==
    /\ Kept(c, d) /\ d.rec = c.rec
    /\ d.kv.off = c.kv.off + Len(data) /\ d.kv.rewound = FALSE
    /\ Written(c.kv.buf, c.kv.off, data, d.kv.buf)
    /\ d.kv.off <= Len(d.kv.buf) /\ Len(d.kv.buf) >= Len(c.kv.buf)

\* appendKV, with the copyOut before the first write since a rewind.
LEMMA AppendKVSound ==
  ASSUME NEW c, NEW s, Sound(c, s), NEW data \in Seq(Words)
  PROVE  Sound(AppendKV(c, data), s) /\ Appended(c, data, AppendKV(c, data))
  <1> DEFINE prev == c.kv.off
             end == prev + Len(data)
             b   == IF c.kv.rewound THEN CopyOut(c, prev, end) ELSE c
             out == SubSeq(c.kv.buf, 1, prev) \o data \o SubSeq(c.kv.buf, end + 1, Len(c.kv.buf))
             kv  == [buf |-> out, off |-> end, rewound |-> FALSE]
  <1>1. /\ c.kv.buf \in Seq(Words) /\ prev \in 0 .. Len(c.kv.buf) /\ Len(c.kv.buf) \in Nat
        /\ prev \in Nat /\ Len(data) \in Nat
    <2>1. c.kv.buf \in Seq(Words) /\ prev \in Nat /\ prev <= Len(c.kv.buf)
      BY DEF Sound, Caches, KVs
    <2> QED BY <2>1, LenProperties
  <1>2. Written(c.kv.buf, prev, data, out)
    BY <1>1, WriteOver
  <1>3. /\ out \in Seq(Words) /\ Len(out) >= Len(c.kv.buf) /\ Len(out) >= end
    <2> HIDE DEF out
    <2> QED BY <1>2 DEF Written
  <1>4. Sound(b, s) /\ Kept(c, b) /\ b.rec = c.rec /\ b.kv = c.kv
    <2>1. PICK e : e = CopyOut(c, prev, end)
      OBVIOUS
    <2>2. Sound(e, s) /\ CopiedOut(c, prev, end, e)
      BY <2>1, CopyOutSound
    <2>3. Kept(c, e) /\ e.rec = c.rec /\ e.kv = c.kv
      BY <2>2 DEF CopiedOut, Apart, Kept
    <2>4. b = e \/ b = c
      BY <2>1
    <2> QED BY <2>2, <2>3, <2>4, KeptSelf
  <1> HIDE DEF out
  <1>5. kv \in KVs /\ kv.off <= Len(kv.buf) /\ kv.buf = out /\ kv.off = end /\ kv.rewound = FALSE
    BY <1>1, <1>3 DEF KVs
  <1>6. AppendKV(c, data) = SetKV(b, kv)
    BY DEF AppendKV, SetKV, out
  <1> HIDE DEF b
  <1>7. PICK k : k = kv
    OBVIOUS
  <1> HIDE DEF kv
  <1>8. \A n \in DOMAIN b.trie : Fits(b.trie[n].kv, Len(k.buf))
    <2>1. \A n \in DOMAIN b.trie : Fits(b.trie[n].kv, Len(c.kv.buf)) /\ b.trie[n].kv \in KVSnaps
      <3>1. \A n \in DOMAIN b.trie : Fits(b.trie[n].kv, Len(b.kv.buf))
        BY <1>4 DEF Sound
      <3>2. Tree(b.trie, s)
        BY <1>4 DEF Sound
      <3> QED BY <1>4, <3>1, <3>2, NodeBytes
    <2>2. Len(k.buf) >= Len(c.kv.buf) /\ Len(k.buf) \in Nat
      BY <1>3, <1>5, <1>7, LenProperties
    <2>3. \A x \in KVSnaps : x # None /\ x.lazy => x.to \in Nat
      BY DEF KVSnaps
    <2> QED BY <1>1, <2>1, <2>2, <2>3 DEF Fits
  <1>9. k \in KVs /\ k.off <= Len(k.buf)
    BY <1>5, <1>7
  <1>10. PICK d : d = SetKV(b, k)
    OBVIOUS
  <1>11. /\ Sound(d, s) /\ d.kv = k /\ d.trie = b.trie /\ d.path = b.path
         /\ d.rec = b.rec /\ d.rows = b.rows /\ d.base = b.base
    BY <1>4, <1>8, <1>9, <1>10, SetKVSound
  <1>12. Kept(c, d)
    BY <1>4, <1>11 DEF Kept
  <1>13. Appended(c, data, d)
    BY <1>2, <1>3, <1>4, <1>5, <1>7, <1>11, <1>12 DEF Appended
  <1> QED BY <1>6, <1>7, <1>10, <1>11, <1>13

\* Rewinding moves the end of what is live.
LEMMA RewoundSound ==
  ASSUME NEW c, NEW s, Sound(c, s), NEW target \in Nat, target <= Len(c.kv.buf)
  PROVE  LET d == RewoundTo(c, target)
         IN /\ Sound(d, s) /\ Kept(c, d) /\ d.rec = c.rec /\ d.trie = c.trie
            /\ d.kv = [buf |-> c.kv.buf, off |-> target, rewound |-> TRUE]
  <1>1. c \in Caches /\ c.kv \in KVs
    BY DEF Sound, Caches
  <1>2. PICK k : k = [buf |-> c.kv.buf, off |-> target, rewound |-> TRUE]
    OBVIOUS
  <1>3. k \in KVs /\ k.off <= Len(k.buf) /\ k.buf = c.kv.buf
    BY <1>1, <1>2 DEF KVs
  <1>4. RewoundTo(c, target) = SetKV(c, k)
    <2>1. RewoundTo(c, target) = [c EXCEPT !.kv = [[c.kv EXCEPT !.off = target] EXCEPT !.rewound = TRUE]]
      BY <1>1 DEF RewoundTo, Caches
    <2>2. [[c.kv EXCEPT !.off = target] EXCEPT !.rewound = TRUE] = k
      <3>1. PICK f : f = c.kv
        OBVIOUS
      <3>2. f \in [buf : Seq(Words), off : Nat, rewound : BOOLEAN]
        BY <1>1, <3>1 DEF KVs
      <3>3. ASSUME NEW yes \in BOOLEAN
            PROVE  [[f EXCEPT !.off = target] EXCEPT !.rewound = yes] = [buf |-> f.buf, off |-> target, rewound |-> yes]
        <4>1. PICK g : g = [f EXCEPT !.off = target]
          OBVIOUS
        <4>2. g = [buf |-> f.buf, off |-> target, rewound |-> f.rewound]
          BY <3>2, <4>1
        <4>3. [g EXCEPT !.rewound = yes] = [buf |-> g.buf, off |-> g.off, rewound |-> yes]
          BY <4>2
        <4>4. g.buf = f.buf /\ g.off = target
          BY <4>2
        <4> QED BY <4>1, <4>3, <4>4
      <3>4. [[f EXCEPT !.off = target] EXCEPT !.rewound = TRUE] = [buf |-> f.buf, off |-> target, rewound |-> TRUE]
        BY <3>3, Zenon
      <3> QED BY <1>2, <3>1, <3>4
    <2> QED BY <2>1, <2>2 DEF SetKV
  <1>5. PICK d : d = SetKV(c, k)
    OBVIOUS
  <1>6. \A n \in DOMAIN c.trie : Fits(c.trie[n].kv, Len(k.buf))
    BY <1>3 DEF Sound
  <1>7. /\ Sound(d, s) /\ d.kv = k /\ d.trie = c.trie /\ d.path = c.path
        /\ d.rec = c.rec /\ d.rows = c.rows /\ d.base = c.base
    BY <1>3, <1>5, <1>6, SetKVSound
  <1>8. Kept(c, d)
    BY <1>7 DEF Kept, SameNodes
  <1> QED BY <1>2, <1>4, <1>5, <1>7, <1>8

\* The length of the live part of the KV cache is set.
LEMMA OffSetSound ==
  ASSUME NEW c, NEW s, Sound(c, s), NEW m \in Nat, m <= Len(c.kv.buf)
  PROVE  LET d == [c EXCEPT !.kv.off = m]
         IN Sound(d, s) /\ Kept(c, d) /\ d.rec = c.rec /\ d.kv.off = m
  <1>1. c \in Caches /\ c.kv \in KVs
    BY DEF Sound, Caches
  <1>2. PICK k : k = [c.kv EXCEPT !.off = m]
    OBVIOUS
  <1>3. k \in KVs /\ k.off = m /\ k.buf = c.kv.buf
    BY <1>1, <1>2 DEF KVs
  <1>4. [c EXCEPT !.kv.off = m] = SetKV(c, k)
    BY <1>1, <1>2 DEF SetKV, Caches
  <1>5. PICK d : d = SetKV(c, k)
    OBVIOUS
  <1>6. \A n \in DOMAIN c.trie : Fits(c.trie[n].kv, Len(k.buf))
    BY <1>3 DEF Sound
  <1>7. /\ Sound(d, s) /\ d.kv = k /\ d.trie = c.trie /\ d.path = c.path
        /\ d.rec = c.rec /\ d.rows = c.rows /\ d.base = c.base
    BY <1>3, <1>5, <1>6, SetKVSound
  <1>8. Kept(c, d)
    BY <1>7 DEF Kept, SameNodes
  <1> QED BY <1>3, <1>4, <1>5, <1>7, <1>8

\* What restoring does to a cache: it comes to no more than the target, or is left alone.
Restored(c, s, target, r) ==
    /\ r.ok \in BOOLEAN /\ Sound(r.cache, s) /\ Kept(c, r.cache)
    /\ ~r.ok => r.cache = c
    /\ r.ok => r.cache.kv.off <= target /\ r.cache.rec = c.rec

\* Restore of the KV cache from a snapshot, or to where it was rewound.
LEMMA RestoreKVIs ==
  ASSUME NEW c, NEW s, Sound(c, s), NEW k \in KVSnaps, Fits(k, Len(c.kv.buf)), NEW target \in Nat
  PROVE  /\ Restored(c, s, target, RestoreKV(c, k, target))
         /\ k = None => (RestoreKV(c, k, target).ok => RestoreKV(c, k, target).cache.kv.off = target)
  <1>0. /\ c.kv.off \in Nat /\ c.kv.off <= Len(c.kv.buf) /\ Len(c.kv.buf) \in Nat /\ c.kv.buf \in Seq(Words)
    <2>1. c.kv.off \in Nat /\ c.kv.off <= Len(c.kv.buf) /\ c.kv.buf \in Seq(Words)
      BY DEF Sound, Caches, KVs
    <2> QED BY <2>1, LenProperties
  <1>1. PICK r : r = RestoreKV(c, k, target)
    OBVIOUS
  <1>2. ASSUME r = Failed(c)
        PROVE  Restored(c, s, target, r) /\ ~r.ok
    <2>1. r.ok = FALSE /\ r.cache = c
      BY <1>2 DEF Failed
    <2> QED BY <2>1, KeptSelf DEF Restored
  <1>3. ASSUME r = Done(RewoundTo(c, target)), target <= Len(c.kv.buf)
        PROVE  Restored(c, s, target, r) /\ r.cache.kv.off = target
    <2>1. PICK d : d = RewoundTo(c, target)
      OBVIOUS
    <2>2. Sound(d, s) /\ Kept(c, d) /\ d.rec = c.rec /\ d.kv.off = target
      <3>1. /\ Sound(d, s) /\ Kept(c, d) /\ d.rec = c.rec
            /\ d.kv = [buf |-> c.kv.buf, off |-> target, rewound |-> TRUE]
        BY <1>3, <2>1, RewoundSound
      <3> QED BY <3>1
    <2>3. r.ok = TRUE /\ r.cache = d
      BY <1>3, <2>1 DEF Done
    <2>4. r.cache.kv.off = target /\ target <= target
      BY <2>2, <2>3
    <2>5. Restored(c, s, target, r)
      BY <2>2, <2>3, <2>4 DEF Restored
    <2> QED BY <2>4, <2>5
  <1>4. CASE k = None
    <2>1. CASE target > c.kv.off
      <3>1. r = Failed(c)
        BY <1>1, <1>4, <2>1 DEF RestoreKV
      <3> QED BY <1>1, <1>2, <3>1
    <2>2. CASE ~(target > c.kv.off)
      <3>1. r = Done(RewoundTo(c, target)) /\ target <= Len(c.kv.buf)
        BY <1>0, <1>1, <1>4, <2>2 DEF RestoreKV
      <3> QED BY <1>1, <1>3, <3>1
    <2> QED BY <2>1, <2>2
  <1>5. CASE k # None
    <2>0. /\ k.from \in Nat /\ k.to \in Nat /\ k.data \in Seq(Words)
          /\ k.lazy => k.to <= Len(c.kv.buf)
      BY <1>5 DEF KVSnaps, Fits
    <2>1. CASE target > k.to \/ c.kv.off < k.from
      <3>1. r = Failed(c)
        BY <1>1, <1>5, <2>1 DEF RestoreKV
      <3> QED BY <1>1, <1>2, <1>5, <3>1
    <2>2. CASE ~(target > k.to \/ c.kv.off < k.from) /\ k.lazy
      <3>1. r = Done(RewoundTo(c, target)) /\ target <= Len(c.kv.buf)
        BY <1>0, <1>1, <1>5, <2>0, <2>2 DEF RestoreKV
      <3> QED BY <1>1, <1>3, <1>5, <3>1
    <2>3. CASE ~(target > k.to \/ c.kv.off < k.from) /\ ~k.lazy
      <3>1. PICK b : b = RewoundTo(c, k.from)
        OBVIOUS
      <3>2. Sound(b, s) /\ Kept(c, b) /\ b.rec = c.rec
        <4>1. k.from <= Len(c.kv.buf)
          BY <1>0, <2>0, <2>3
        <4> QED BY <2>0, <3>1, <4>1, RewoundSound
      <3>3. PICK fed : fed = AppendKV(b, k.data)
        OBVIOUS
      <3>4. Sound(fed, s) /\ Kept(b, fed) /\ fed.rec = b.rec /\ fed.kv.off <= Len(fed.kv.buf)
        BY <2>0, <3>2, <3>3, AppendKVSound DEF Appended
      <3>5. fed.kv.off \in Nat /\ Len(fed.kv.buf) \in Nat
        <4>1. fed.kv.off \in Nat /\ fed.kv.buf \in Seq(Words)
          BY <3>4 DEF Sound, Caches, KVs
        <4> QED BY <4>1, LenProperties
      <3>6. PICK m : m = Min({target, fed.kv.off})
        OBVIOUS
      <3>7. m \in Nat /\ m <= target /\ m <= Len(fed.kv.buf)
        <4>1. m = IF target <= fed.kv.off THEN target ELSE fed.kv.off
          <5>1. target \in Int /\ fed.kv.off \in Int
            BY <3>5
          <5> QED BY <3>6, <5>1, MinTwo
        <4> QED BY <3>4, <3>5, <4>1
      <3>8. PICK d : d = [fed EXCEPT !.kv.off = m]
        OBVIOUS
      <3>9. Sound(d, s) /\ Kept(fed, d) /\ d.rec = fed.rec /\ d.kv.off = m
        BY <3>4, <3>7, <3>8, OffSetSound
      <3>10. r = Done(d)
        BY <1>1, <1>5, <2>3, <3>1, <3>3, <3>6, <3>8 DEF RestoreKV
      <3>11. r.ok = TRUE /\ r.cache = d
        BY <3>10 DEF Done
      <3>12. Kept(c, d) /\ d.rec = c.rec
        BY <3>2, <3>4, <3>9, KeptTwice
      <3> QED BY <1>1, <1>5, <3>7, <3>9, <3>11, <3>12 DEF Restored
    <2> QED BY <2>1, <2>2, <2>3
  <1> QED BY <1>4, <1>5

\* The recurrent state alone is set.
SetRec(c, rec) == [c EXCEPT !.rec = rec]

\* No snapshot of the trie depends on the live recurrent state.
LEMMA SetRecSound ==
  ASSUME NEW c, NEW s, Sound(c, s), NEW rec \in Words
  PROVE  LET d == SetRec(c, rec)
         IN Sound(d, s) /\ Kept(c, d) /\ d.rec = rec /\ d.kv = c.kv /\ d.trie = c.trie
  <1> DEFINE d == SetRec(c, rec)
  <1>1. c \in Caches
    BY DEF Sound
  <1>2. /\ d \in Caches /\ d.kv = c.kv /\ d.trie = c.trie /\ d.path = c.path
        /\ d.rec = rec /\ d.rows = c.rows /\ d.base = c.base /\ d.paged = c.paged
    BY <1>1 DEF Caches, SetRec
  <1> HIDE DEF d
  <1>3. Sound(d, s)
    BY <1>2 DEF Sound
  <1>4. Kept(c, d)
    BY <1>2 DEF Kept, SameNodes
  <1> QED BY <1>2, <1>3, <1>4 DEF d

\* Restore of the recurrent cache: it has the target or is left alone.
LEMMA RestoreRecIs ==
  ASSUME NEW c, NEW s, Sound(c, s), NEW rec \in RecSnaps, NEW target \in Nat
  PROVE  LET r == RestoreRec(c, rec, target)
         IN /\ r.ok \in BOOLEAN /\ Sound(r.cache, s) /\ Kept(c, r.cache) /\ r.cache.kv = c.kv
            /\ ~r.ok => r.cache = c
            /\ r.ok => Len(r.cache.rec) = target /\ r.cache.rec = IF rec = None THEN c.rec ELSE rec
  <1>1. PICK r : r = RestoreRec(c, rec, target)
    OBVIOUS
  <1>2. ASSUME r = Failed(c)
        PROVE  /\ r.ok \in BOOLEAN /\ Sound(r.cache, s) /\ Kept(c, r.cache) /\ r.cache.kv = c.kv
               /\ r.cache = c /\ ~r.ok
    <2>1. r.ok = FALSE /\ r.cache = c
      BY <1>2 DEF Failed
    <2> QED BY <2>1, KeptSelf
  <1>3. CASE rec = None
    <2>1. CASE target = Len(c.rec)
      <3>1. r = Done(c)
        BY <1>1, <1>3, <2>1 DEF RestoreRec
      <3>2. r.ok = TRUE /\ r.cache = c
        BY <3>1 DEF Done
      <3> QED BY <1>1, <1>3, <2>1, <3>2, KeptSelf
    <2>2. CASE target # Len(c.rec)
      <3>1. r = Failed(c)
        BY <1>1, <1>3, <2>2 DEF RestoreRec
      <3> QED BY <1>1, <1>2, <3>1
    <2> QED BY <2>1, <2>2
  <1>4. CASE rec # None
    <2>1. CASE target = Len(rec)
      <3>1. r = Done(SetRec(c, rec))
        BY <1>1, <1>4, <2>1 DEF RestoreRec, SetRec
      <3>2. PICK d : d = SetRec(c, rec)
        OBVIOUS
      <3>3. Sound(d, s) /\ Kept(c, d) /\ d.rec = rec /\ d.kv = c.kv
        BY <1>4, <3>2, SetRecSound DEF RecSnaps
      <3>4. r.ok = TRUE /\ r.cache = d
        BY <3>1, <3>2 DEF Done
      <3> QED BY <1>1, <1>4, <2>1, <3>3, <3>4
    <2>2. CASE target # Len(rec)
      <3>1. r = Failed(c)
        BY <1>1, <1>4, <2>2 DEF RestoreRec
      <3> QED BY <1>1, <1>2, <3>1
    <2> QED BY <2>1, <2>2
  <1> QED BY <1>3, <1>4

\* Freeing the KV cache: whatever is lazy is copied out first.
LEMMA FreeKVIs ==
  ASSUME NEW c, NEW s, Sound(c, s)
  PROVE  LET d == FreeKV(c)
         IN Sound(d, s) /\ Kept(c, d) /\ d.rec = c.rec /\ d.kv.off = 0
  <1>0. c.kv.buf \in Seq(Words) /\ Len(c.kv.buf) \in Nat /\ c \in Caches /\ Tree(c.trie, s)
    <2>1. c.kv.buf \in Seq(Words) /\ c \in Caches /\ Tree(c.trie, s)
      BY DEF Sound, Caches, KVs
    <2> QED BY <2>1, LenProperties
  <1>1. PICK b : b = CopyOut(c, 0, Len(c.kv.buf))
    OBVIOUS
  <1>2. Sound(b, s) /\ CopiedOut(c, 0, Len(c.kv.buf), b)
    BY <1>1, CopyOutSound
  <1>3. /\ Kept(c, b) /\ b.rec = c.rec /\ DOMAIN b.trie = DOMAIN c.trie
        /\ \A n \in DOMAIN c.trie : b.trie[n].kv = Copied(c, 0, Len(c.kv.buf), c.trie[n].kv)
    BY <1>2 DEF CopiedOut, Apart, Kept
  <1>4. PICK k : k = [buf |-> <<>>, off |-> 0, rewound |-> FALSE]
    OBVIOUS
  <1>5. k \in KVs /\ k.off <= Len(k.buf) /\ k.off = 0
    <2>1. <<>> \in Seq(Words) /\ Len(<<>>) = 0 /\ FALSE \in BOOLEAN
      BY EmptySeq
    <2> QED BY <1>4, <2>1 DEF KVs
  <1>6. ASSUME NEW n \in DOMAIN b.trie PROVE Fits(b.trie[n].kv, Len(k.buf))
    <2>1. PICK x : x = c.trie[n].kv
      OBVIOUS
    <2>2. x \in KVSnaps /\ Fits(x, Len(c.kv.buf))
      <3>1. n \in DOMAIN c.trie
        BY <1>3
      <3>2. Fits(c.trie[n].kv, Len(c.kv.buf))
        BY <3>1 DEF Sound
      <3> QED BY <1>0, <2>1, <3>1, <3>2, NodeBytes
    <2>3. b.trie[n].kv = Copied(c, 0, Len(c.kv.buf), x)
      BY <1>3, <2>1
    <2>4. CASE x # None /\ x.lazy
      <3>1. x.from < Len(c.kv.buf) /\ x.to > 0
        <4>1. x.from \in Nat /\ x.to \in Nat /\ x.from < x.to /\ x.to <= Len(c.kv.buf)
          BY <2>2, <2>4 DEF KVSnaps, Fits
        <4> QED BY <1>0, <4>1
      <3>2. b.trie[n].kv = CopyOf(c, x)
        BY <2>3, <2>4, <3>1 DEF Copied
      <3>3. CopyOf(c, x).lazy = FALSE
        BY <1>0, <2>2, <2>4, CopyType
      <3> QED BY <3>2, <3>3 DEF Fits
    <2>5. CASE ~(x # None /\ x.lazy)
      <3>1. b.trie[n].kv = x
        BY <2>3, <2>5 DEF Copied
      <3> QED BY <2>5, <3>1 DEF Fits
    <2> QED BY <2>4, <2>5
  <1>7. FreeKV(c) = SetKV(b, k)
    BY <1>1, <1>4 DEF FreeKV, SetKV
  <1>8. PICK d : d = SetKV(b, k)
    OBVIOUS
  <1>9. /\ Sound(d, s) /\ d.kv = k /\ d.trie = b.trie /\ d.path = b.path
        /\ d.rec = b.rec /\ d.rows = b.rows /\ d.base = b.base
    BY <1>2, <1>5, <1>6, <1>8, SetKVSound
  <1>10. Kept(c, d)
    BY <1>3, <1>9 DEF Kept
  <1> QED BY <1>3, <1>5, <1>7, <1>8, <1>9, <1>10

\* All caches are freed.
LEMMA FreeAllIs ==
  ASSUME NEW c, NEW s, Sound(c, s)
  PROVE  LET d == FreeAll(c)
         IN Sound(d, s) /\ Kept(c, d) /\ d.rec = <<>> /\ d.kv.off = 0
  <1>1. PICK b : b = FreeKV(c)
    OBVIOUS
  <1>2. Sound(b, s) /\ Kept(c, b) /\ b.kv.off = 0
    BY <1>1, FreeKVIs
  <1>3. PICK d : d = SetRec(b, <<>>)
    OBVIOUS
  <1>4. <<>> \in Words
    BY EmptySeq DEF Words
  <1>5. Sound(d, s) /\ Kept(b, d) /\ d.rec = <<>> /\ d.kv = b.kv
    BY <1>2, <1>3, <1>4, SetRecSound
  <1>6. FreeAll(c) = d
    BY <1>1, <1>3 DEF FreeAll, SetRec
  <1> QED BY <1>2, <1>5, <1>6, KeptTwice

\* The recurrent cache is freed.
LEMMA FreeIs ==
  ASSUME NEW c, NEW s, Sound(c, s)
  PROVE  LET d == Free(c, "rec")
         IN Sound(d, s) /\ Kept(c, d) /\ d.rec = <<>> /\ d.kv = c.kv
  <1>1. <<>> \in Words
    BY EmptySeq DEF Words
  <1>2. Free(c, "rec") = SetRec(c, <<>>)
    BY DEF Free, SetRec
  <1> QED BY <1>1, <1>2, SetRecSound

----------------------------------------------------------------------------
(* Trees that gain, lose and join nodes.                                   *)

\* Two nodes stand at the same place of a tree.
Alike(x, y) == x.tokens = y.tokens /\ x.end = y.end /\ x.parent = y.parent

\* A number that is no node is no parent.
LEMMA NotOfNone ==
  ASSUME NEW t, NEW s, Tree(t, s), NEW n \in DOMAIN t, NEW m \in Nat, m \notin DOMAIN t
  PROVE  t[n].parent # m /\ None # m
  <1>1. None \notin Nat
    BY PrefixCacheAssumption
  <1>2. CASE n = Root
    BY <1>1, <1>2, TreeFacts
  <1>3. CASE n # Root
    <2>1. t[n].parent \in DOMAIN t
      BY <1>3 DEF Tree
    <2> QED BY <1>1, <2>1
  <1> QED BY <1>2, <1>3

\* A leaf is added.
LeafAdded(t, s, p, new, u, r) ==
    /\ u[new].tokens \in Words /\ u[new].tokens # <<>> /\ u[new].parent = p
    /\ u[new].end = t[p].end + Len(u[new].tokens)
    /\ \A m \in Children(t, p) : t[m].tokens[1] # u[new].tokens[1]
    /\ DOMAIN u = DOMAIN t \cup {new} /\ u \in [DOMAIN u -> Node]
    /\ \A m \in DOMAIN t : u[m] = t[m] /\ r[m] = s[m]
    /\ r \in [DOMAIN u -> Words] /\ r[new] = s[p] \o u[new].tokens

\* A trie with one more leaf is one, if no sibling of it begins alike.
LEMMA LeafAddedTree ==
  ASSUME NEW t, NEW s, Tree(t, s), NEW p \in DOMAIN t, NEW new \in Nat, new \notin DOMAIN t,
         NEW u, NEW r, LeafAdded(t, s, p, new, u, r)
  PROVE  Tree(u, r)
  <1>0. /\ u[new].tokens \in Words /\ u[new].tokens # <<>> /\ u[new].parent = p
        /\ u[new].end = t[p].end + Len(u[new].tokens)
        /\ \A m \in Children(t, p) : t[m].tokens[1] # u[new].tokens[1]
        /\ DOMAIN u = DOMAIN t \cup {new} /\ u \in [DOMAIN u -> Node]
        /\ \A m \in DOMAIN t : u[m] = t[m] /\ r[m] = s[m]
        /\ r \in [DOMAIN u -> Words] /\ r[new] = s[p] \o u[new].tokens
    BY Zenon DEF LeafAdded
  <1>1. /\ IsFiniteSet(DOMAIN t) /\ DOMAIN t \subseteq Nat /\ Root \in DOMAIN t
        /\ t[Root].tokens = <<>> /\ t[Root].parent = None /\ s[Root] = <<>>
        /\ \A m \in DOMAIN t \ {Root} : /\ t[m].parent \in DOMAIN t /\ t[m].tokens # <<>>
                                        /\ s[m] = s[t[m].parent] \o t[m].tokens
        /\ \A m \in DOMAIN t : t[m].end = Len(s[m])
        /\ \A m, o \in DOMAIN t \ {Root} :
              m # o /\ t[m].parent = t[o].parent => t[m].tokens[1] # t[o].tokens[1]
    BY Zenon DEF Tree
  <1>2. /\ IsFiniteSet(DOMAIN u) /\ DOMAIN u \subseteq Nat /\ Root \in DOMAIN u
        /\ u[Root].tokens = <<>> /\ u[Root].parent = None /\ r[Root] = <<>>
    <2>1. IsFiniteSet(DOMAIN t \cup {new})
      BY <1>1, FS_AddElement
    <2> QED BY <1>0, <1>1, <2>1
  <1>3. ASSUME NEW m \in DOMAIN u \ {Root}
        PROVE  /\ u[m].parent \in DOMAIN u /\ u[m].tokens # <<>>
               /\ r[m] = r[u[m].parent] \o u[m].tokens
    <2>1. CASE m = new
      BY <1>0, <2>1, Zenon
    <2>2. CASE m # new
      <3>1. m \in DOMAIN t \ {Root} /\ u[m] = t[m] /\ r[m] = s[m]
        BY <1>0, <2>2, Zenon
      <3>2. t[m].parent \in DOMAIN t /\ t[m].tokens # <<>> /\ s[m] = s[t[m].parent] \o t[m].tokens
        BY <1>1, <3>1, Zenon
      <3>3. r[t[m].parent] = s[t[m].parent] /\ t[m].parent \in DOMAIN u
        BY <1>0, <3>2, Zenon
      <3> QED BY <3>1, <3>2, <3>3, Zenon
    <2> QED BY <2>1, <2>2
  <1>4. ASSUME NEW m \in DOMAIN u PROVE u[m].end = Len(r[m])
    <2>1. CASE m = new
      <3>1. s[p] \in Words /\ Len(s[p]) = t[p].end
        BY TreeFacts
      <3>2. Len(s[p] \o u[new].tokens) = Len(s[p]) + Len(u[new].tokens)
        <4>1. PICK a, b : a = s[p] /\ b = u[new].tokens
          OBVIOUS
        <4>2. a \in Seq(Tokens) /\ b \in Seq(Tokens)
          BY <1>0, <3>1, <4>1 DEF Words
        <4>3. Len(a \o b) = Len(a) + Len(b)
          BY <4>2, ConcatProperties
        <4> QED BY <4>1, <4>3
      <3> QED BY <1>0, <2>1, <3>1, <3>2
    <2>2. CASE m # new
      BY <1>0, <1>1, <2>2
    <2> QED BY <2>1, <2>2
  <1>5. ASSUME NEW m \in DOMAIN u \ {Root}, NEW o \in DOMAIN u \ {Root}, m # o, u[m].parent = u[o].parent
        PROVE  u[m].tokens[1] # u[o].tokens[1]
    <2>1. CASE m = new
      <3>1. o \in Children(t, p) /\ u[o] = t[o]
        BY <1>0, <1>5, <2>1 DEF Children
      <3> QED BY <1>0, <2>1, <3>1
    <2>2. CASE o = new
      <3>1. m \in Children(t, p) /\ u[m] = t[m]
        BY <1>0, <1>5, <2>2 DEF Children
      <3> QED BY <1>0, <2>2, <3>1
    <2>3. CASE m # new /\ o # new
      BY <1>0, <1>1, <1>5, <2>3
    <2> QED BY <2>1, <2>2, <2>3
  <1> QED BY <1>0, <1>2, <1>3, <1>4, <1>5 DEF Tree

\* A leaf is made longer.
LeafLonger(t, s, n, more, u, r) ==
    /\ more \in Words /\ u[n].tokens = t[n].tokens \o more /\ u[n].parent = t[n].parent
    /\ u[n].end = t[n].end + Len(more)
    /\ DOMAIN u = DOMAIN t /\ u \in [DOMAIN u -> Node]
    /\ \A m \in DOMAIN t \ {n} : u[m] = t[m] /\ r[m] = s[m]
    /\ r \in [DOMAIN u -> Words] /\ r[n] = s[n] \o more

\* So is one with a longer leaf,
LEMMA LeafLongerTree ==
  ASSUME NEW t, NEW s, Tree(t, s), NEW n \in DOMAIN t, n # Root, Children(t, n) = {},
         NEW more, NEW u, NEW r, LeafLonger(t, s, n, more, u, r)
  PROVE  Tree(u, r)
  <1>0. /\ more \in Words /\ u[n].tokens = t[n].tokens \o more /\ u[n].parent = t[n].parent
        /\ u[n].end = t[n].end + Len(more)
        /\ DOMAIN u = DOMAIN t /\ u \in [DOMAIN u -> Node]
        /\ \A m \in DOMAIN t \ {n} : u[m] = t[m] /\ r[m] = s[m]
        /\ r \in [DOMAIN u -> Words] /\ r[n] = s[n] \o more
    BY Zenon DEF LeafLonger
  <1>1. /\ IsFiniteSet(DOMAIN t) /\ DOMAIN t \subseteq Nat /\ Root \in DOMAIN t
        /\ t[Root].tokens = <<>> /\ t[Root].parent = None /\ s[Root] = <<>>
        /\ \A m \in DOMAIN t \ {Root} : /\ t[m].parent \in DOMAIN t /\ t[m].tokens # <<>>
                                        /\ s[m] = s[t[m].parent] \o t[m].tokens
        /\ \A m \in DOMAIN t : t[m].end = Len(s[m])
        /\ \A m, o \in DOMAIN t \ {Root} :
              m # o /\ t[m].parent = t[o].parent => t[m].tokens[1] # t[o].tokens[1]
    BY Zenon DEF Tree
  <1>2. PICK q, tok : q = t[n].parent /\ tok = t[n].tokens
    OBVIOUS
  <1>3. \A m \in DOMAIN t \ {Root} : t[m].parent # n
    BY DEF Children
  <1>4. q \in DOMAIN t /\ q # n /\ s[n] = s[q] \o tok /\ tok # <<>> /\ tok \in Words /\ s[q] \in Words /\ s[n] \in Words
    <2>1. q \in DOMAIN t /\ q # n /\ s[n] = s[q] \o tok /\ tok # <<>>
      BY <1>1, <1>2, <1>3
    <2> QED BY <1>2, <2>1, TreeFacts
  <1>5. tok \o more # <<>> /\ (tok \o more)[1] = tok[1] /\ s[q] \o (tok \o more) = s[n] \o more
        /\ Len(s[n] \o more) = Len(s[n]) + Len(more)
    <2>1. PICK a, b, d : a = s[q] /\ b = tok /\ d = more
      OBVIOUS
    <2>2. a \in Seq(Tokens) /\ b \in Seq(Tokens) /\ d \in Seq(Tokens) /\ s[n] \in Seq(Tokens)
      BY <1>0, <1>4, <2>1 DEF Words
    <2>3. Len(b) \in Nat /\ Len(b) >= 1 /\ Len(d) \in Nat
      BY <1>4, <2>1, <2>2, LenProperties, EmptySeq
    <2>4. (a \o b) \o d = a \o (b \o d)
      BY <2>2, ConcatAssociative
    <2>5. Agree(b \o d, b, Len(b)) /\ b \o d \in Seq(Tokens) /\ Len(b \o d) = Len(b) + Len(d)
      BY <2>2, AgreeConcat
    <2>6. (b \o d)[1] = b[1]
      <3>1. 1 \in 1 .. Len(b)
        BY <2>3
      <3> QED BY <2>5, <3>1 DEF Agree
    <2>7. b \o d # <<>>
      <3>1. Len(b \o d) # 0
        BY <2>3, <2>5
      <3> QED BY <3>1, EmptySeq
    <2>8. Len(s[n] \o d) = Len(s[n]) + Len(d)
      BY <2>2, ConcatProperties
    <2> QED BY <1>4, <2>1, <2>4, <2>6, <2>7, <2>8
  <1>6. /\ IsFiniteSet(DOMAIN u) /\ DOMAIN u \subseteq Nat /\ Root \in DOMAIN u
        /\ u[Root].tokens = <<>> /\ u[Root].parent = None /\ r[Root] = <<>>
    BY <1>0, <1>1
  <1>7. ASSUME NEW m \in DOMAIN u \ {Root}
        PROVE  /\ u[m].parent \in DOMAIN u /\ u[m].tokens # <<>>
               /\ r[m] = r[u[m].parent] \o u[m].tokens /\ u[m].parent # n
               /\ u[m].parent = t[m].parent /\ u[m].tokens[1] = t[m].tokens[1]
    <2>1. CASE m = n
      <3>1. u[m].parent = q /\ u[m].tokens = tok \o more /\ r[m] = s[n] \o more /\ r[q] = s[q]
        BY <1>0, <1>2, <1>4, <2>1
      <3> QED BY <1>0, <1>2, <1>4, <1>5, <2>1, <3>1, Zenon
    <2>2. CASE m # n
      <3>1. m \in DOMAIN t \ {Root} /\ u[m] = t[m] /\ r[m] = s[m]
        BY <1>0, <2>2, Zenon
      <3>2. /\ t[m].parent \in DOMAIN t /\ t[m].tokens # <<>> /\ s[m] = s[t[m].parent] \o t[m].tokens
            /\ t[m].parent # n
        BY <1>1, <1>3, <3>1, Zenon
      <3>3. r[t[m].parent] = s[t[m].parent] /\ t[m].parent \in DOMAIN u
        BY <1>0, <3>2
      <3> QED BY <3>1, <3>2, <3>3, Zenon
    <2> QED BY <2>1, <2>2
  <1>8. ASSUME NEW m \in DOMAIN u PROVE u[m].end = Len(r[m])
    <2>1. CASE m = n
      BY <1>0, <1>1, <1>5, <2>1
    <2>2. CASE m # n
      BY <1>0, <1>1, <2>2
    <2> QED BY <2>1, <2>2
  <1>9. ASSUME NEW m \in DOMAIN u \ {Root}, NEW o \in DOMAIN u \ {Root}, m # o, u[m].parent = u[o].parent
        PROVE  u[m].tokens[1] # u[o].tokens[1]
    <2>1. /\ u[m].parent = t[m].parent /\ u[m].tokens[1] = t[m].tokens[1]
          /\ u[o].parent = t[o].parent /\ u[o].tokens[1] = t[o].tokens[1]
      BY <1>7, Zenon
    <2>2. m \in DOMAIN t \ {Root} /\ o \in DOMAIN t \ {Root}
      BY <1>0
    <2>3. t[m].tokens[1] # t[o].tokens[1]
      BY <1>1, <1>9, <2>1, <2>2, Zenon
    <2> QED BY <2>1, <2>3
  <1> QED BY <1>0, <1>6, <1>7, <1>8, <1>9 DEF Tree

\* A leaf is removed.
LeafRemoved(t, s, n, u, r) ==
    /\ DOMAIN u = DOMAIN t \ {n} /\ u \in [DOMAIN u -> Node] /\ r \in [DOMAIN u -> Words]
    /\ \A m \in DOMAIN u : u[m] = t[m] /\ r[m] = s[m]

\* one with a leaf less,
LEMMA LeafRemovedTree ==
  ASSUME NEW t, NEW s, Tree(t, s), NEW n \in DOMAIN t, n # Root, Children(t, n) = {},
         NEW u, NEW r, LeafRemoved(t, s, n, u, r)
  PROVE  Tree(u, r)
  <1>0. /\ DOMAIN u = DOMAIN t \ {n} /\ u \in [DOMAIN u -> Node] /\ r \in [DOMAIN u -> Words]
        /\ \A m \in DOMAIN u : u[m] = t[m] /\ r[m] = s[m]
    BY Zenon DEF LeafRemoved
  <1>1. /\ IsFiniteSet(DOMAIN t) /\ DOMAIN t \subseteq Nat /\ Root \in DOMAIN t
        /\ t[Root].tokens = <<>> /\ t[Root].parent = None /\ s[Root] = <<>>
        /\ \A m \in DOMAIN t \ {Root} : /\ t[m].parent \in DOMAIN t /\ t[m].tokens # <<>>
                                        /\ s[m] = s[t[m].parent] \o t[m].tokens
        /\ \A m \in DOMAIN t : t[m].end = Len(s[m])
        /\ \A m, o \in DOMAIN t \ {Root} :
              m # o /\ t[m].parent = t[o].parent => t[m].tokens[1] # t[o].tokens[1]
    BY Zenon DEF Tree
  <1>2. \A m \in DOMAIN t \ {Root} : t[m].parent # n
    BY DEF Children
  <1>3. /\ IsFiniteSet(DOMAIN u) /\ DOMAIN u \subseteq Nat /\ Root \in DOMAIN u
        /\ u[Root].tokens = <<>> /\ u[Root].parent = None /\ r[Root] = <<>>
    <2>1. IsFiniteSet(DOMAIN t \ {n})
      BY <1>1, FS_RemoveElement
    <2> QED BY <1>0, <1>1, <2>1
  <1>4. ASSUME NEW m \in DOMAIN u \ {Root}
        PROVE  /\ u[m].parent \in DOMAIN u /\ u[m].tokens # <<>>
               /\ r[m] = r[u[m].parent] \o u[m].tokens
    <2>1. m \in DOMAIN t \ {Root} /\ u[m] = t[m] /\ r[m] = s[m]
      BY <1>0, Zenon
    <2>2. /\ t[m].parent \in DOMAIN t /\ t[m].tokens # <<>> /\ s[m] = s[t[m].parent] \o t[m].tokens
          /\ t[m].parent # n
      BY <1>1, <1>2, <2>1, Zenon
    <2>3. t[m].parent \in DOMAIN u
      BY <1>0, <2>2
    <2>4. r[t[m].parent] = s[t[m].parent]
      BY <1>0, <2>3, Zenon
    <2> QED BY <2>1, <2>2, <2>3, <2>4, Zenon
  <1>5. \A m \in DOMAIN u : u[m].end = Len(r[m])
    BY <1>0, <1>1
  <1>6. \A m, o \in DOMAIN u \ {Root} : m # o /\ u[m].parent = u[o].parent => u[m].tokens[1] # u[o].tokens[1]
    BY <1>0, <1>1
  <1> QED BY <1>0, <1>3, <1>4, <1>5, <1>6 DEF Tree

\* An edge is split: a new node takes the first tokens of it.
EdgeSplit(t, s, n, new, u, r) ==
    /\ DOMAIN u = DOMAIN t \cup {new} /\ u \in [DOMAIN u -> Node] /\ r \in [DOMAIN u -> Words]
    /\ u[new].parent = t[n].parent /\ u[new].tokens # <<>>
    /\ u[new].end = Start(t[n]) + Len(u[new].tokens)
    /\ u[n].parent = new /\ u[n].tokens # <<>> /\ u[n].end = t[n].end
    /\ u[new].tokens \o u[n].tokens = t[n].tokens
    /\ \A m \in DOMAIN t \ {n} : Alike(u[m], t[m])
    /\ \A m \in DOMAIN t : r[m] = s[m]
    /\ r[new] = s[t[n].parent] \o u[new].tokens

\* one with an edge split in two,
LEMMA EdgeSplitTree ==
  ASSUME NEW t, NEW s, Tree(t, s), NEW n \in DOMAIN t, n # Root, NEW new \in Nat, new \notin DOMAIN t,
         NEW u, NEW r, EdgeSplit(t, s, n, new, u, r)
  PROVE  Tree(u, r)
  <1>0. /\ DOMAIN u = DOMAIN t \cup {new} /\ u \in [DOMAIN u -> Node] /\ r \in [DOMAIN u -> Words]
        /\ u[new].parent = t[n].parent /\ u[new].tokens # <<>>
        /\ u[new].end = Start(t[n]) + Len(u[new].tokens)
        /\ u[n].parent = new /\ u[n].tokens # <<>> /\ u[n].end = t[n].end
        /\ u[new].tokens \o u[n].tokens = t[n].tokens
        /\ \A m \in DOMAIN t \ {n} : u[m].tokens = t[m].tokens /\ u[m].end = t[m].end /\ u[m].parent = t[m].parent
        /\ \A m \in DOMAIN t : r[m] = s[m]
        /\ r[new] = s[t[n].parent] \o u[new].tokens
    BY Zenon DEF EdgeSplit, Alike
  <1>1. /\ IsFiniteSet(DOMAIN t) /\ DOMAIN t \subseteq Nat /\ Root \in DOMAIN t
        /\ t[Root].tokens = <<>> /\ t[Root].parent = None /\ s[Root] = <<>>
        /\ \A m \in DOMAIN t \ {Root} : /\ t[m].parent \in DOMAIN t /\ t[m].tokens # <<>>
                                        /\ s[m] = s[t[m].parent] \o t[m].tokens
        /\ \A m \in DOMAIN t : t[m].end = Len(s[m])
        /\ \A m, o \in DOMAIN t \ {Root} :
              m # o /\ t[m].parent = t[o].parent => t[m].tokens[1] # t[o].tokens[1]
    BY Zenon DEF Tree
  <1>2. PICK q, one, two : q = t[n].parent /\ one = u[new].tokens /\ two = u[n].tokens
    OBVIOUS
  <1>3. /\ q \in DOMAIN t /\ q # new /\ n # new /\ Root # new /\ s[q] \in Words /\ Len(s[q]) = t[q].end
        /\ Start(t[n]) = t[q].end /\ one \in Words /\ two \in Words
        /\ s[n] = s[q] \o t[n].tokens /\ one \o two = t[n].tokens /\ one # <<>> /\ two # <<>>
    <2>1. PICK p : Edge(t, s, n, p)
      BY EdgeFacts
    <2>2. q = p /\ q \in DOMAIN t /\ Start(t[n]) = t[q].end
      BY <1>2, <2>1 DEF Edge
    <2>3. s[q] \in Words /\ Len(s[q]) = t[q].end
      BY <2>2, TreeFacts
    <2>4. one \in Words /\ two \in Words
      BY <1>0, <1>2 DEF Node
    <2> QED BY <1>0, <1>1, <1>2, <2>2, <2>3, <2>4
  <1>4. /\ s[n] = r[new] \o two /\ Len(r[new]) = t[q].end + Len(one) /\ t[n].tokens[1] = one[1]
    <2>1. PICK a, b, d : a = s[q] /\ b = one /\ d = two
      OBVIOUS
    <2>2. a \in Seq(Tokens) /\ b \in Seq(Tokens) /\ d \in Seq(Tokens)
      BY <1>3, <2>1 DEF Words
    <2>3. Len(b) \in Nat /\ Len(b) >= 1
      BY <1>3, <2>1, <2>2, LenProperties, EmptySeq
    <2>4. (a \o b) \o d = a \o (b \o d)
      BY <2>2, ConcatAssociative, SMTT(60)
    <2>5. Agree(b \o d, b, Len(b))
      BY <2>2, AgreeConcat
    <2>6. (b \o d)[1] = b[1]
      <3>1. 1 \in 1 .. Len(b)
        BY <2>3
      <3> QED BY <2>5, <3>1 DEF Agree
    <2>7. Len(a \o b) = Len(a) + Len(b)
      BY <2>2, ConcatProperties
    <2>8. r[new] = a \o b
      BY <1>0, <1>2, <2>1
    <2> QED BY <1>3, <2>1, <2>4, <2>6, <2>7, <2>8
  <1>5. /\ IsFiniteSet(DOMAIN u) /\ DOMAIN u \subseteq Nat /\ Root \in DOMAIN u
        /\ u[Root].tokens = <<>> /\ u[Root].parent = None /\ r[Root] = <<>>
    <2>1. IsFiniteSet(DOMAIN t \cup {new})
      BY <1>1, FS_AddElement
    <2> QED BY <1>0, <1>1, <2>1
  <1>6. ASSUME NEW m \in DOMAIN u, m # n, m # new
        PROVE  /\ m \in DOMAIN t /\ r[m] = s[m] /\ u[m].tokens = t[m].tokens /\ u[m].end = t[m].end
               /\ u[m].parent = t[m].parent
    BY <1>0, <1>6
  <1>7. ASSUME NEW m \in DOMAIN u \ {Root}
        PROVE  /\ u[m].parent \in DOMAIN u /\ u[m].tokens # <<>>
               /\ r[m] = r[u[m].parent] \o u[m].tokens
    <2>1. CASE m = new
      <3>1. r[q] = s[q] /\ u[m].parent = q /\ q \in DOMAIN u
        BY <1>0, <1>2, <1>3, <2>1
      <3> QED BY <1>0, <1>2, <2>1, <3>1
    <2>2. CASE m = n
      <3>1. u[m].parent = new /\ new \in DOMAIN u /\ r[m] = s[n] /\ u[m].tokens = two
        BY <1>0, <1>2, <2>2
      <3> QED BY <1>0, <1>4, <2>2, <3>1
    <2>3. CASE m # n /\ m # new
      <3>1. m \in DOMAIN t \ {Root} /\ u[m].parent = t[m].parent /\ u[m].tokens = t[m].tokens /\ r[m] = s[m]
        BY <1>6, <2>3, Zenon
      <3>2. /\ t[m].parent \in DOMAIN t /\ t[m].tokens # <<>> /\ s[m] = s[t[m].parent] \o t[m].tokens
        BY <1>1, <3>1, Zenon
      <3>3. t[m].parent \in DOMAIN u /\ r[t[m].parent] = s[t[m].parent]
        BY <1>0, <3>2
      <3> QED BY <3>1, <3>2, <3>3, Zenon
    <2> QED BY <2>1, <2>2, <2>3
  <1>8. ASSUME NEW m \in DOMAIN u PROVE u[m].end = Len(r[m])
    <2>1. CASE m = new
      BY <1>0, <1>2, <1>3, <1>4, <2>1
    <2>2. CASE m = n
      BY <1>0, <1>1, <2>2
    <2>3. CASE m # n /\ m # new
      BY <1>1, <1>6, <2>3
    <2> QED BY <2>1, <2>2, <2>3
  <1>9. ASSUME NEW m \in DOMAIN u \ {Root}, m # n
        PROVE  \E o \in DOMAIN t \ {Root} : /\ u[m].parent = t[o].parent /\ u[m].tokens[1] = t[o].tokens[1]
                                            /\ u[m].parent # new
                                            /\ o = IF m = new THEN n ELSE m
    <2>1. CASE m = new
      <3>1. n \in DOMAIN t \ {Root} /\ u[m].parent = t[n].parent /\ u[m].tokens[1] = t[n].tokens[1] /\ u[m].parent # new
        BY <1>0, <1>2, <1>3, <1>4, <2>1
      <3> QED BY <2>1, <3>1
    <2>2. CASE m # new
      <3>1. m \in DOMAIN t \ {Root} /\ u[m].parent = t[m].parent /\ u[m].tokens = t[m].tokens
        BY <1>6, <1>9, <2>2, Zenon
      <3>2. t[m].parent \in DOMAIN t
        BY <1>1, <3>1, Zenon
      <3> QED BY <2>2, <3>1, <3>2
    <2> QED BY <2>1, <2>2
  <1>10. ASSUME NEW m \in DOMAIN u \ {Root}, NEW o \in DOMAIN u \ {Root}, m # o, u[m].parent = u[o].parent
         PROVE  u[m].tokens[1] # u[o].tokens[1]
    <2>1. m # n /\ o # n
      <3>1. u[n].parent = new
        BY <1>0
      <3> QED BY <1>9, <1>10, <3>1
    <2>2. PICK i \in DOMAIN t \ {Root} : /\ u[m].parent = t[i].parent /\ u[m].tokens[1] = t[i].tokens[1]
                                         /\ i = IF m = new THEN n ELSE m
      BY <1>9, <2>1
    <2>3. PICK j \in DOMAIN t \ {Root} : /\ u[o].parent = t[j].parent /\ u[o].tokens[1] = t[j].tokens[1]
                                         /\ j = IF o = new THEN n ELSE o
      BY <1>9, <2>1
    <2>4. i # j
      BY <1>10, <2>1, <2>2, <2>3
    <2>5. t[i].tokens[1] # t[j].tokens[1]
      BY <1>1, <1>10, <2>2, <2>3, <2>4, ZenonT(60)
    <2> QED BY <2>2, <2>3, <2>5
  <1> QED BY <1>0, <1>5, <1>7, <1>8, <1>10 DEF Tree

\* A node takes in its only child.
ChildMerged(t, s, n, ch, u, r) ==
    /\ DOMAIN u = DOMAIN t \ {ch} /\ u \in [DOMAIN u -> Node] /\ r \in [DOMAIN u -> Words]
    /\ u[n].parent = t[n].parent /\ u[n].end = t[ch].end
    /\ u[n].tokens = t[n].tokens \o t[ch].tokens
    /\ \A m \in DOMAIN u \ {n} : /\ u[m].tokens = t[m].tokens /\ u[m].end = t[m].end
                                 /\ u[m].parent = IF t[m].parent = ch THEN n ELSE t[m].parent
                                 /\ r[m] = s[m]
    /\ r[n] = s[ch]

\* and one in which a node has taken in its only child.
LEMMA ChildMergedTree ==
  ASSUME NEW t, NEW s, Tree(t, s), NEW n \in DOMAIN t, n # Root, NEW ch, Children(t, n) = {ch},
         NEW u, NEW r, ChildMerged(t, s, n, ch, u, r)
  PROVE  Tree(u, r)
  <1>0. /\ DOMAIN u = DOMAIN t \ {ch} /\ u \in [DOMAIN u -> Node] /\ r \in [DOMAIN u -> Words]
        /\ u[n].parent = t[n].parent /\ u[n].end = t[ch].end
        /\ u[n].tokens = t[n].tokens \o t[ch].tokens
        /\ \A m \in DOMAIN u \ {n} : /\ u[m].tokens = t[m].tokens /\ u[m].end = t[m].end
                                     /\ u[m].parent = IF t[m].parent = ch THEN n ELSE t[m].parent
                                     /\ r[m] = s[m]
        /\ r[n] = s[ch]
    BY Zenon DEF ChildMerged
  <1>1. /\ IsFiniteSet(DOMAIN t) /\ DOMAIN t \subseteq Nat /\ Root \in DOMAIN t
        /\ t[Root].tokens = <<>> /\ t[Root].parent = None /\ s[Root] = <<>>
        /\ \A m \in DOMAIN t \ {Root} : /\ t[m].parent \in DOMAIN t /\ t[m].tokens # <<>>
                                        /\ s[m] = s[t[m].parent] \o t[m].tokens
        /\ \A m \in DOMAIN t : t[m].end = Len(s[m])
        /\ \A m, o \in DOMAIN t \ {Root} :
              m # o /\ t[m].parent = t[o].parent => t[m].tokens[1] # t[o].tokens[1]
    BY Zenon DEF Tree
  <1>2. /\ ch \in DOMAIN t /\ t[ch].parent = n /\ \A m \in DOMAIN t : t[m].parent = n => m = ch
    BY DEF Children
  <1>3. PICK q, one, two : q = t[n].parent /\ one = t[n].tokens /\ two = t[ch].tokens
    OBVIOUS
  <1>4. Edge(t, s, n, q) /\ ch # Root /\ ch # n
    <2>1. PICK p : Edge(t, s, n, p)
      BY EdgeFacts
    <2>2. p = q
      BY <1>3, <2>1 DEF Edge
    <2>3. ch # Root
      <3>1. None \notin Nat /\ n \in Nat
        BY <1>1, PrefixCacheAssumption
      <3> QED BY <1>1, <1>2, <3>1
    <2>4. PICK p2 : Edge(t, s, ch, p2)
      BY <1>2, <2>3, EdgeFacts
    <2>5. p2 = n /\ t[n].end < t[ch].end
      BY <1>2, <2>4 DEF Edge
    <2>6. t[n].end \in Nat
      BY TreeFacts
    <2> QED BY <2>1, <2>2, <2>3, <2>5, <2>6
  <1>5. /\ q \in DOMAIN t /\ q # n /\ q # ch /\ one \in Words /\ two \in Words /\ s[q] \in Words
        /\ s[n] = s[q] \o one /\ s[ch] = s[n] \o two /\ one # <<>>
    <2>1. PICK p2 : Edge(t, s, ch, p2)
      BY <1>2, <1>4, EdgeFacts
    <2>2. p2 = n /\ t[n].end < t[ch].end
      BY <1>2, <2>1 DEF Edge
    <2>3. q \in DOMAIN t /\ t[q].end < t[n].end
      BY <1>3, <1>4 DEF Edge
    <2>4. t[n].end \in Nat /\ t[ch].end \in Nat /\ t[q].end \in Nat /\ one \in Words /\ two \in Words /\ s[q] \in Words
      BY <1>2, <1>3, <2>3, TreeFacts
    <2>5. q # n /\ q # ch
      BY <2>2, <2>3, <2>4
    <2> QED BY <1>1, <1>2, <1>3, <1>4, <2>3, <2>4, <2>5
  <1>6. /\ s[ch] = s[q] \o (one \o two) /\ (one \o two)[1] = one[1] /\ one \o two # <<>>
    <2>1. PICK a, b, d : a = s[q] /\ b = one /\ d = two
      OBVIOUS
    <2>2. a \in Seq(Tokens) /\ b \in Seq(Tokens) /\ d \in Seq(Tokens)
      BY <1>5, <2>1 DEF Words
    <2>3. Len(b) \in Nat /\ Len(b) >= 1 /\ Len(d) \in Nat
      BY <1>5, <2>1, <2>2, LenProperties, EmptySeq
    <2>4. (a \o b) \o d = a \o (b \o d)
      BY <2>2, ConcatAssociative
    <2>5. Agree(b \o d, b, Len(b)) /\ Len(b \o d) = Len(b) + Len(d)
      BY <2>2, AgreeConcat
    <2>6. (b \o d)[1] = b[1]
      <3>1. 1 \in 1 .. Len(b)
        BY <2>3
      <3> QED BY <2>5, <3>1 DEF Agree
    <2>7. b \o d # <<>>
      <3>1. Len(b \o d) # 0
        BY <2>3, <2>5
      <3> QED BY <3>1, EmptySeq
    <2> QED BY <1>5, <2>1, <2>4, <2>6, <2>7
  <1>7. /\ IsFiniteSet(DOMAIN u) /\ DOMAIN u \subseteq Nat /\ Root \in DOMAIN u /\ n \in DOMAIN u
        /\ u[Root].tokens = <<>> /\ u[Root].parent = None /\ r[Root] = <<>>
    <2>1. IsFiniteSet(DOMAIN t \ {ch})
      BY <1>1, FS_RemoveElement
    <2>2. None # ch
      BY <1>1, <1>2, PrefixCacheAssumption
    <2> QED BY <1>0, <1>1, <1>4, <2>1, <2>2
  <1>8. ASSUME NEW m \in DOMAIN u \ {Root}
        PROVE  /\ u[m].parent \in DOMAIN u /\ u[m].tokens # <<>>
               /\ r[m] = r[u[m].parent] \o u[m].tokens /\ u[m].tokens[1] = t[m].tokens[1]
               /\ m \in DOMAIN t \ {Root}
               /\ u[m].parent = n => t[m].parent = ch
               /\ u[m].parent # n => t[m].parent = u[m].parent
    <2>1. CASE m = n
      <3>1. r[q] = s[q] /\ u[m].parent = q /\ q \in DOMAIN u /\ u[m].tokens = one \o two
        BY <1>0, <1>3, <1>5, <2>1
      <3> QED BY <1>0, <1>3, <1>5, <1>6, <2>1, <3>1
    <2>2. CASE m # n /\ t[m].parent = ch
      <3>1. m \in DOMAIN t \ {Root} /\ u[m].parent = n /\ u[m].tokens = t[m].tokens /\ r[m] = s[m]
        BY <1>0, <2>2
      <3>2. t[m].tokens # <<>> /\ s[m] = s[ch] \o t[m].tokens
        BY <1>1, <2>2, <3>1
      <3> QED BY <1>0, <1>7, <2>2, <3>1, <3>2
    <2>3. CASE m # n /\ t[m].parent # ch
      <3>1. m \in DOMAIN t \ {Root} /\ u[m].parent = t[m].parent /\ u[m].tokens = t[m].tokens /\ r[m] = s[m]
        BY <1>0, <2>3
      <3>2. t[m].tokens # <<>> /\ s[m] = s[t[m].parent] \o t[m].tokens /\ t[m].parent \in DOMAIN t
        BY <1>1, <3>1
      <3>3. t[m].parent # n
        BY <1>0, <1>2, <3>1
      <3>4. t[m].parent \in DOMAIN u /\ r[t[m].parent] = s[t[m].parent]
        BY <1>0, <2>3, <3>2, <3>3
      <3> QED BY <3>1, <3>2, <3>3, <3>4
    <2> QED BY <2>1, <2>2, <2>3
  <1>9. \A m \in DOMAIN u : u[m].end = Len(r[m])
    BY <1>0, <1>1, <1>2
  <1>10. ASSUME NEW m \in DOMAIN u \ {Root}, NEW o \in DOMAIN u \ {Root}, m # o, u[m].parent = u[o].parent
         PROVE  u[m].tokens[1] # u[o].tokens[1]
    <2>1. /\ u[m].tokens[1] = t[m].tokens[1] /\ u[o].tokens[1] = t[o].tokens[1]
          /\ m \in DOMAIN t \ {Root} /\ o \in DOMAIN t \ {Root}
      BY <1>8, Zenon
    <2>2. t[m].parent = t[o].parent
      BY <1>8, <1>10
    <2>3. t[m].tokens[1] # t[o].tokens[1]
      BY <1>1, <1>10, <2>1, <2>2, Zenon
    <2> QED BY <2>1, <2>3
  <1> QED BY <1>0, <1>7, <1>8, <1>9, <1>10 DEF Tree

\* A new node is not yet in the trie.
LEMMA FreshIs ==
  ASSUME NEW t, NEW s, Tree(t, s)
  PROVE  Fresh(t) \in Nat /\ Fresh(t) \notin DOMAIN t
  <1> DEFINE D == DOMAIN t
             k == Cardinality(D)
             S == (1 .. k) \ D
  <1>1. IsFiniteSet(D) /\ k \in Nat /\ 0 \in D
    BY FS_CardinalityType DEF Tree, Root
  <1>2. S # {}
    <2>1. SUFFICES ASSUME S = {} PROVE FALSE
      OBVIOUS
    <2>2. (1 .. k) \subseteq D \ {0}
      <3>1. \A i \in 1 .. k : i \in D /\ i # 0
        BY <1>1, <2>1
      <3> QED BY <3>1
    <2>3. IsFiniteSet(D \ {0}) /\ Cardinality(D \ {0}) = k - 1
      BY <1>1, FS_RemoveElement
    <2>4. Cardinality(1 .. k) = k
      <3>1. 1 \in Int /\ k \in Int
        BY <1>1
      <3>2. Cardinality(1 .. k) = IF 1 > k THEN 0 ELSE k - 1 + 1
        BY <3>1, FS_Interval
      <3> HIDE DEF k
      <3> QED BY <1>1, <3>2
    <2>5. Cardinality(1 .. k) <= Cardinality(D \ {0})
      BY <2>2, <2>3, FS_Subset
    <2> HIDE DEF k
    <2> QED BY <1>1, <2>3, <2>4, <2>5
  <1>3. Min(S) \in S
    <2>1. S \in SUBSET Nat
      <3> HIDE DEF D, k
      <3> QED BY <1>1
    <2> HIDE DEF S
    <2> QED BY <1>2, <2>1, MinOf
  <1>4. Fresh(t) \in S
    BY <1>3 DEF Fresh
  <1> HIDE DEF D, k
  <1> QED BY <1>1, <1>4 DEF D

\* A path that stays in the tree.
LEMMA WalksOn ==
  ASSUME NEW t, NEW path, Walks(t, path), NEW u,
         \A i \in 1 .. Len(path) : path[i] \in DOMAIN u,
         \A i \in 2 .. Len(path) : u[path[i]].parent = t[path[i]].parent
  PROVE  Walks(u, path)
  <1>1. path \in Seq(DOMAIN t) /\ path # <<>> /\ \A i \in 2 .. Len(path) : t[path[i]].parent = path[i - 1]
    BY DEF Walks
  <1>2. Len(path) \in Nat /\ path \in [1 .. Len(path) -> DOMAIN t]
    BY <1>1, LenProperties
  <1>3. path \in Seq(DOMAIN u)
    <2>1. path \in [1 .. Len(path) -> DOMAIN u]
      BY <1>2
    <2> QED BY <1>2, <2>1, SeqDef
  <1> QED BY <1>1, <1>3 DEF Walks

\* A cache of which only the tree and the path are others.
Reshapes(c, d) == d = [trie |-> d.trie, path |-> d.path, kv |-> c.kv, rec |-> c.rec, paged |-> c.paged,
                       rows |-> c.rows, base |-> c.base]

HeldWell(c, d, r) ==
    \A n \in DOMAIN d.trie : Fits(d.trie[n].kv, Len(c.kv.buf)) /\ RecOf(d.trie[n].rec, r[n])

\* A cache stays sound with another trie that owns as much.
LEMMA Reshape ==
  ASSUME NEW c, NEW s, Sound(c, s), NEW d, NEW r, Reshapes(c, d), Tree(d.trie, r),
         Walks(d.trie, d.path), d.path[1] = Root, Paid(d.trie) = Paid(c.trie), HeldWell(c, d, r)
  PROVE  Sound(d, r) /\ Apart(c, d)
  <1>1. /\ c.kv \in KVs /\ c.rec \in Words /\ c.paged \in Int /\ c.rows \in Seq(Snaps) /\ c.base \in Nat
        /\ c.kv.off <= Len(c.kv.buf) /\ c.paged = Paid(c.trie)
    BY DEF Sound, Caches
  <1>2. /\ d.kv = c.kv /\ d.rec = c.rec /\ d.paged = c.paged /\ d.rows = c.rows /\ d.base = c.base
    BY DEF Reshapes
  <1>3. d.path \in Seq(Nat)
    <2>1. d.path \in Seq(DOMAIN d.trie) /\ DOMAIN d.trie \subseteq Nat
      BY DEF Walks, Tree
    <2> QED BY <2>1, SeqMonotonic
  <1>4. d.trie \in Tries
    BY TrieIn
  <1>5. d \in Caches
    <2>1. d = [trie |-> d.trie, path |-> d.path, kv |-> c.kv, rec |-> c.rec, paged |-> c.paged,
               rows |-> c.rows, base |-> c.base]
      BY DEF Reshapes
    <2> QED BY <1>1, <1>3, <1>4, <2>1 DEF Caches
  <1> QED BY <1>1, <1>2, <1>5 DEF Sound, Apart, HeldWell

\* Snapshots may always be dropped.
LEMMA BareSound ==
  ASSUME NEW c, NEW s, Sound(c, s), NEW n \in DOMAIN c.trie
  PROVE  LET d == SetSnapshots(c, n, NoSnapshots)
         IN /\ Sound(d, s) /\ SnapshotsSet(c, n, NoSnapshots, d)
            /\ d.trie[n].kv = None /\ d.trie[n].rec = None /\ Bytes(d.trie[n]) = 0
            /\ DOMAIN d.trie = DOMAIN c.trie
  <1>1. PICK x : x = NoSnapshots
    OBVIOUS
  <1>2. x.kv = None /\ x.rec = None /\ x.kv \in KVSnaps /\ x.rec \in RecSnaps
    BY <1>1 DEF NoSnapshots, KVSnaps, RecSnaps
  <1>3. Fits(x.kv, Len(c.kv.buf)) /\ RecOf(x.rec, s[n])
    BY <1>2 DEF Fits, RecOf
  <1>4. PICK d : d = SetSnapshots(c, n, x)
    OBVIOUS
  <1>5. Sound(d, s)
    BY <1>2, <1>3, <1>4, SnapshotsSound
  <1>6. SnapshotsSet(c, n, x, d)
    BY <1>2, <1>4, SnapshotsFields DEF Sound
  <1>7. d.trie[n].kv = None /\ d.trie[n].rec = None /\ DOMAIN d.trie = DOMAIN c.trie
    BY <1>2, <1>6 DEF SnapshotsSet
  <1>8. Bytes(d.trie[n]) = 0
    BY <1>7 DEF Bytes, KVBytes
  <1> QED BY <1>1, <1>4, <1>5, <1>6, <1>7, <1>8

----------------------------------------------------------------------------
(* What the snapshots of the KV cache hold.                                *)

\* The slot of a snapshot for the i-th token, in its own data or in the live buffer.
SlotOf(buf, k, i) == IF k.lazy THEN buf[i] ELSE k.data[i - k.from]

\* A snapshot has all slots of its range, computed from these tokens.
Holding(buf, k, w) == k # None =>
    /\ ~k.lazy => Len(k.data) = k.to - k.from
    /\ \A i \in k.from + 1 .. k.to : i <= Len(w) /\ SlotOf(buf, k, i) = SubSeq(w, 1, i)

Faithful(c, s) == \A n \in DOMAIN c.trie : Holding(c.kv.buf, c.trie[n].kv, s[n])

\* What is done to the trie leaves its snapshots as faithful as they were.
Bears(c, s, d, r) == Faithful(c, s) => Faithful(d, r)

\* A snapshot holds what it did for any tokens that agree with the first as far as it goes.
LEMMA HoldingOn ==
  ASSUME NEW buf, NEW k \in KVSnaps, NEW w \in Words, NEW v \in Words, NEW m \in Nat, Agree(v, w, m),
         m = Len(w) \/ (k # None => k.to <= m), Holding(buf, k, w)
  PROVE  Holding(buf, k, v)
  <1>1. ASSUME k # None, NEW i \in k.from + 1 .. k.to
        PROVE  i <= Len(v) /\ SlotOf(buf, k, i) = SubSeq(v, 1, i)
    <2>1. k.from \in Nat /\ k.to \in Nat
      BY <1>1 DEF KVSnaps
    <2>2. i \in Nat /\ i >= 1 /\ i <= k.to /\ i <= Len(w) /\ SlotOf(buf, k, i) = SubSeq(w, 1, i)
      BY <1>1, <2>1 DEF Holding
    <2>3. i \in 0 .. m /\ m <= Len(v) /\ Len(v) \in Nat
      BY <1>1, <2>1, <2>2, LenProperties DEF Agree, Words
    <2>4. SubSeq(v, 1, i) = SubSeq(w, 1, i)
      BY <2>3, AgreeFirst DEF Words
    <2> QED BY <2>2, <2>3, <2>4
  <1> QED BY <1>1 DEF Holding

\* A word agrees with itself.
LEMMA AgreeSelf ==
  ASSUME NEW w \in Words
  PROVE  Agree(w, w, Len(w))
  BY LenProperties DEF Words, Agree

\* A node has no snapshot, or the one that it had for a word that goes on.
Carried(t, s, u, r, m) ==
    u[m].kv = None \/ (m \in DOMAIN t /\ u[m].kv = t[m].kv /\ Agree(r[m], s[m], Len(s[m])))

\* What is carried over to a node is held by it as before.
LEMMA CarriedHolds ==
  ASSUME NEW t, NEW s, Tree(t, s), NEW u, NEW r, Tree(u, r), NEW m \in DOMAIN u, Carried(t, s, u, r, m),
         NEW buf, \A n \in DOMAIN t : Holding(buf, t[n].kv, s[n])
  PROVE  Holding(buf, u[m].kv, r[m])
  <1>1. CASE u[m].kv = None
    BY <1>1 DEF Holding
  <1>2. CASE m \in DOMAIN t /\ u[m].kv = t[m].kv /\ Agree(r[m], s[m], Len(s[m]))
    <2>1. PICK k, w, v : k = t[m].kv /\ w = s[m] /\ v = r[m]
      OBVIOUS
    <2>2. k \in KVSnaps /\ w \in Words /\ v \in Words
      BY <1>2, <2>1, NodeBytes, TreeFacts
    <2>3. Len(w) \in Nat
      BY <2>2, LenProperties DEF Words
    <2>4. Holding(buf, k, w) /\ Agree(v, w, Len(w))
      BY <1>2, <2>1
    <2>5. Holding(buf, k, v)
      BY <2>2, <2>3, <2>4, HoldingOn
    <2> QED BY <1>2, <2>1, <2>5
  <1> QED BY <1>1, <1>2 DEF Carried

\* A step bears what is faithful if each node was carried over.
LEMMA BearsIf ==
  ASSUME NEW c, NEW s, Tree(c.trie, s), NEW d, NEW r, Tree(d.trie, r), d.kv = c.kv,
         \A m \in DOMAIN d.trie : Carried(c.trie, s, d.trie, r, m)
  PROVE  Bears(c, s, d, r)
  BY CarriedHolds DEF Bears, Faithful

\* One after the other.
LEMMA BearsOn ==
  ASSUME NEW c, NEW s, NEW d, NEW r, NEW e, NEW v, Bears(c, s, d, r), Bears(d, r, e, v)
  PROVE  Bears(c, s, e, v)
  BY DEF Bears

\* Snapshots that are dropped are missed by no one.
LEMMA BareBears ==
  ASSUME NEW c, NEW s, Sound(c, s), NEW n \in DOMAIN c.trie
  PROVE  Bears(c, s, SetSnapshots(c, n, NoSnapshots), s)
  <1>1. PICK d : d = SetSnapshots(c, n, NoSnapshots)
    OBVIOUS
  <1>2. Sound(d, s) /\ SnapshotsSet(c, n, NoSnapshots, d) /\ d.trie[n].kv = None /\ DOMAIN d.trie = DOMAIN c.trie
    BY <1>1, BareSound
  <1>3. Tree(c.trie, s) /\ Tree(d.trie, s) /\ d.kv = c.kv
    BY <1>2 DEF Sound, SnapshotsSet, Apart
  <1>4. \A m \in DOMAIN d.trie : Carried(c.trie, s, d.trie, s, m)
    <2>1. ASSUME NEW m \in DOMAIN d.trie, m # n PROVE Carried(c.trie, s, d.trie, s, m)
      <3>1. m \in DOMAIN c.trie /\ d.trie[m] = c.trie[m]
        BY <1>2, <2>1 DEF SnapshotsSet
      <3>2. s[m] \in Words
        BY <1>3, <3>1, TreeFacts
      <3>3. Agree(s[m], s[m], Len(s[m]))
        BY <3>2, AgreeSelf
      <3> QED BY <3>1, <3>3 DEF Carried
    <2> QED BY <1>2, <2>1 DEF Carried
  <1>5. Bears(c, s, d, s)
    BY <1>3, <1>4, BearsIf
  <1> QED BY <1>1, <1>5

----------------------------------------------------------------------------
(* Eviction.                                                               *)

\* Nothing that the active path stands for is touched.
Pruned(c, s, d, r) ==
    Sound(d, r) /\ Apart(c, d) /\ d.path = c.path /\ r[Last(c.path)] = s[Last(c.path)]

\* The snapshots of a node and of its child meet, if both have one.
Meet(p, k) == p # None /\ k # None => p.to = k.from

OffPath(c, n) == \A i \in 1 .. Len(c.path) : c.path[i] # n

\* removeNode of a leaf off the active path.
LEMMA RemoveNodeSound ==
  ASSUME NEW c, NEW s, Sound(c, s), NEW n \in DOMAIN c.trie, Children(c.trie, n) = {}, OffPath(c, n)
  PROVE  \E r : Pruned(c, s, RemoveNode(c, n), r) /\ Bears(c, s, RemoveNode(c, n), r)
  <1>1. PICK b : b = SetSnapshots(c, n, NoSnapshots)
    OBVIOUS
  <1>2. /\ Sound(b, s) /\ SnapshotsSet(c, n, NoSnapshots, b) /\ DOMAIN b.trie = DOMAIN c.trie
        /\ Bytes(b.trie[n]) = 0
    BY <1>1, BareSound
  <1>3. /\ b.path = c.path /\ Apart(c, b) /\ SameNodes(c.trie, b.trie)
        /\ \A m \in DOMAIN c.trie \ {n} : b.trie[m] = c.trie[m]
    BY <1>2 DEF SnapshotsSet
  <1>4. PICK d : d = RemoveNode(c, n)
    OBVIOUS
  <1> DEFINE u == [m \in DOMAIN c.trie \ {n} |-> c.trie[m]]
             r == [m \in DOMAIN c.trie \ {n} |-> s[m]]
  <1>5. Reshapes(b, d) /\ d.trie = u /\ d.path = c.path
    <2> HIDE DEF u
    <2>1. d = [b EXCEPT !.trie = u]
      BY <1>1, <1>4 DEF RemoveNode, u
    <2>2. b \in Caches
      BY <1>2 DEF Sound
    <2>3. d.trie = u /\ d.path = b.path
      BY <2>1, <2>2 DEF Caches
    <2>4. Reshapes(b, d)
      BY <2>1, <2>2, <2>3 DEF Caches, Reshapes
    <2> QED BY <1>3, <2>3, <2>4
  <1>6. /\ DOMAIN u = DOMAIN b.trie \ {n} /\ \A m \in DOMAIN u : u[m] = b.trie[m] /\ r[m] = s[m]
        /\ r = [m \in DOMAIN u |-> s[m]]
    BY <1>2, <1>3
  <1>7. c.path[1] = Root /\ Walks(c.trie, c.path) /\ Tree(c.trie, s) /\ Tree(b.trie, s)
    BY <1>2 DEF Sound
  <1>8. /\ Len(c.path) \in Nat /\ Len(c.path) >= 1 /\ Last(c.path) = c.path[Len(c.path)]
        /\ \A i \in 1 .. Len(c.path) : c.path[i] \in DOMAIN c.trie
    BY <1>7, WalkFacts
  <1>9. n # Root
    <2>1. 1 \in 1 .. Len(c.path)
      BY <1>8
    <2> QED BY <1>7, <2>1 DEF OffPath
  <1> HIDE DEF u, r
  <1>10. LeafRemoved(b.trie, s, n, u, r)
    <2>1. u \in [DOMAIN u -> Node]
      <3>1. \A m \in DOMAIN u : u[m] \in Node
        BY <1>6, <1>7, TreeFacts
      <3>2. u = [m \in DOMAIN u |-> u[m]]
        BY DEF u
      <3> QED BY <3>1, <3>2
    <2>2. r \in [DOMAIN u -> Words]
      <3>1. \A m \in DOMAIN u : s[m] \in Words
        BY <1>6, <1>7, TreeFacts
      <3> QED BY <1>6, <3>1
    <2> QED BY <1>6, <2>1, <2>2 DEF LeafRemoved
  <1>11. Tree(u, r)
    <2>1. Children(b.trie, n) = {}
      BY <1>2, <1>3 DEF Children, SameNodes
    <2> QED BY <1>2, <1>7, <1>9, <1>10, <2>1, LeafRemovedTree
  <1>12. Walks(u, c.path)
    <2>1. \A i \in 1 .. Len(c.path) : c.path[i] \in DOMAIN u
      BY <1>2, <1>6, <1>8 DEF OffPath
    <2>2. \A i \in 2 .. Len(c.path) : u[c.path[i]].parent = c.trie[c.path[i]].parent
      <3>1. \A i \in 2 .. Len(c.path) : i \in 1 .. Len(c.path)
        BY <1>8
      <3>2. \A m \in DOMAIN u : u[m] = c.trie[m]
        BY DEF u
      <3> QED BY <2>1, <3>1, <3>2
    <2> QED BY <1>7, <2>1, <2>2, WalksOn
  <1>13. Paid(u) = Paid(b.trie)
    <2>1. DOMAIN b.trie = DOMAIN u \cup {n} /\ n \notin DOMAIN u
      BY <1>2, <1>6
    <2>2. \A m \in DOMAIN u : b.trie[m].kv = u[m].kv /\ b.trie[m].rec = u[m].rec
      BY <1>6
    <2> QED BY <1>2, <1>7, <1>11, <2>1, <2>2, PaidBare
  <1>14. HeldWell(b, d, r)
    BY <1>2, <1>5, <1>6 DEF HeldWell, Sound
  <1>15. Sound(d, r) /\ Apart(b, d)
    BY <1>2, <1>5, <1>7, <1>11, <1>12, <1>13, <1>14, Reshape
  <1>16. r[Last(c.path)] = s[Last(c.path)]
    <2>1. Last(c.path) \in DOMAIN u
      <3>1. Len(c.path) \in 1 .. Len(c.path)
        BY <1>8
      <3> QED BY <1>2, <1>6, <1>8, <3>1 DEF OffPath
    <2> QED BY <1>6, <2>1
  <1>17. Pruned(c, s, d, r)
    BY <1>3, <1>5, <1>15, <1>16 DEF Pruned, Apart
  <1>18. Bears(c, s, d, r)
    <2>1. ASSUME NEW m \in DOMAIN u PROVE Carried(c.trie, s, u, r, m)
      <3>1. m \in DOMAIN c.trie /\ u[m] = c.trie[m] /\ r[m] = s[m]
        BY <1>6 DEF u
      <3>2. s[m] \in Words
        BY <1>7, <3>1, TreeFacts
      <3>3. Agree(r[m], s[m], Len(s[m]))
        BY <3>1, <3>2, AgreeSelf
      <3> QED BY <3>1, <3>3 DEF Carried
    <2>2. d.kv = c.kv
      BY <1>3, <1>15 DEF Apart
    <2> QED BY <1>5, <1>7, <1>11, <2>1, <2>2, BearsIf
  <1> QED BY <1>4, <1>17, <1>18

\* What a lazy snapshot copies out.
LEMMA CopyData ==
  ASSUME NEW c \in Caches, NEW k \in KVSnaps, Fits(k, Len(c.kv.buf)), k # None, k.lazy
  PROVE  /\ CopyOf(c, k).data \in Seq(Words) /\ Len(CopyOf(c, k).data) = k.to - k.from
         /\ \A i \in 1 .. k.to - k.from : CopyOf(c, k).data[i] = c.kv.buf[k.from + i]
  <1>1. /\ k.from \in Nat /\ k.to \in Nat /\ k.from < k.to /\ k.to <= Len(c.kv.buf)
        /\ c.kv.buf \in Seq(Words) /\ Len(c.kv.buf) \in Nat
    BY LenProperties DEF KVSnaps, Fits, Caches, KVs
  <1>2. k.from \in 0 .. Len(c.kv.buf) /\ k.to \in k.from .. Len(c.kv.buf)
    BY <1>1
  <1> DEFINE data == SubSeq(c.kv.buf, k.from + 1, k.to)
  <1>3. /\ data \in Seq(Words) /\ Len(data) = k.to - k.from
        /\ \A i \in 1 .. k.to - k.from : data[i] = c.kv.buf[k.from + i]
    BY <1>1, <1>2, LastEntries, SMTT(60)
  <1>4. CopyOf(c, k).data = data
    BY DEF CopyOf, Owned
  <1> HIDE DEF data
  <1> QED BY <1>3, <1>4

\* What Merge makes of the snapshots of a node and of its child.
LEMMA MergeKVIs ==
  ASSUME NEW c \in Caches, NEW p \in KVSnaps, NEW ch \in KVSnaps,
         Fits(p, Len(c.kv.buf)), Fits(ch, Len(c.kv.buf))
  PROVE  MergeKV(c, p, ch) \in KVSnaps /\ Fits(MergeKV(c, p, ch), Len(c.kv.buf))
  <1>1. PICK k : k = MergeKV(c, p, ch)
    OBVIOUS
  <1>2. CASE p = None \/ ch = None
    <2>1. k = None
      BY <1>1, <1>2 DEF MergeKV
    <2>2. None \in KVSnaps /\ Fits(None, Len(c.kv.buf))
      BY DEF KVSnaps, Fits
    <2> QED BY <1>1, <2>1, <2>2
  <1>3. CASE p # None /\ ch # None
    <2>1. p.from \in Nat /\ p.to \in Nat /\ ch.from \in Nat /\ ch.to \in Nat
      BY <1>3 DEF KVSnaps
    <2>2. CASE p.lazy /\ ch.lazy /\ p.to = ch.from
      <3>1. k = Lazy(p.from, ch.to)
        BY <1>1, <1>3, <2>2 DEF MergeKV
      <3>2. <<>> \in Seq(Words) /\ TRUE \in BOOLEAN
        BY EmptySeq
      <3>3. k \in KVSnaps /\ k.from = p.from /\ k.to = ch.to
        BY <2>1, <3>1, <3>2 DEF Lazy, KVSnaps
      <3>4. p.from < p.to /\ ch.from < ch.to /\ ch.to <= Len(c.kv.buf)
        BY <1>3, <2>2 DEF Fits
      <3>5. k.from < k.to /\ k.to <= Len(c.kv.buf)
        BY <2>1, <2>2, <3>3, <3>4
      <3>6. Fits(k, Len(c.kv.buf))
        BY <3>5 DEF Fits
      <3> QED BY <1>1, <3>3, <3>6
    <2>3. CASE ~(p.lazy /\ ch.lazy /\ p.to = ch.from)
      <3>1. PICK a, b : /\ a = IF p.lazy THEN CopyOf(c, p).data ELSE p.data
                        /\ b = IF ch.lazy THEN CopyOf(c, ch).data ELSE ch.data
        OBVIOUS
      <3>2. a \in Seq(Words)
        <4>1. p.data \in Seq(Words)
          BY <1>3 DEF KVSnaps
        <4>2. p.lazy => CopyOf(c, p).data \in Seq(Words)
          BY <1>3, CopyData
        <4> QED BY <3>1, <4>1, <4>2
      <3>3. b \in Seq(Words)
        <4>1. ch.data \in Seq(Words)
          BY <1>3 DEF KVSnaps
        <4>2. ch.lazy => CopyOf(c, ch).data \in Seq(Words)
          BY <1>3, CopyData
        <4> QED BY <3>1, <4>1, <4>2
      <3>4. k = Owned(p.from, ch.to, a \o b)
        BY <1>1, <1>3, <2>3, <3>1 DEF MergeKV
      <3>5. PICK ab : ab = a \o b /\ ab \in Seq(Words)
        BY <3>2, <3>3, ConcatProperties
      <3>6. k = [from |-> p.from, to |-> ch.to, lazy |-> FALSE, data |-> ab]
        BY <3>4, <3>5 DEF Owned
      <3>7. k \in KVSnaps /\ k.lazy = FALSE
        BY <2>1, <3>5, <3>6 DEF KVSnaps
      <3> QED BY <1>1, <3>7 DEF Fits
    <2> QED BY <2>2, <2>3
  <1> QED BY <1>2, <1>3

\* The slots of a snapshot, in data of its own.
LEMMA DataOf ==
  ASSUME NEW c \in Caches, NEW k \in KVSnaps, k # None, Fits(k, Len(c.kv.buf)), NEW w, Holding(c.kv.buf, k, w),
         NEW data, data = IF k.lazy THEN CopyOf(c, k).data ELSE k.data
  PROVE  /\ data \in Seq(Words) /\ Len(data) = k.to - k.from /\ k.to - k.from \in Nat
         /\ \A i \in k.from + 1 .. k.to : data[i - k.from] = SlotOf(c.kv.buf, k, i)
  <1>1. k.from \in Nat /\ k.to \in Nat /\ k.data \in Seq(Words) /\ k.lazy \in BOOLEAN
    BY DEF KVSnaps
  <1>2. CASE k.lazy
    <2>1. /\ data \in Seq(Words) /\ Len(data) = k.to - k.from
          /\ \A i \in 1 .. k.to - k.from : data[i] = c.kv.buf[k.from + i]
      BY <1>2, CopyData
    <2>2. k.from < k.to
      BY <1>2 DEF Fits
    <2>3. ASSUME NEW i \in k.from + 1 .. k.to PROVE data[i - k.from] = c.kv.buf[i]
      <3>1. i - k.from \in 1 .. k.to - k.from /\ k.from + (i - k.from) = i
        BY <1>1
      <3>2. data[i - k.from] = c.kv.buf[k.from + (i - k.from)]
        BY <2>1, <3>1
      <3> QED BY <3>1, <3>2
    <2> QED BY <1>1, <1>2, <2>1, <2>2, <2>3 DEF SlotOf
  <1>3. CASE ~k.lazy
    <2>1. data = k.data /\ Len(data) = k.to - k.from
      BY <1>3 DEF Holding
    <2>2. Len(data) \in Nat
      BY <1>1, <2>1, LenProperties
    <2> QED BY <1>1, <1>3, <2>1, <2>2 DEF SlotOf
  <1> QED BY <1>2, <1>3

\* Snapshots that meet are merged into one of the tokens of both.
LEMMA MergeKVHolds ==
  ASSUME NEW c \in Caches, NEW p \in KVSnaps, NEW ch \in KVSnaps,
         Fits(p, Len(c.kv.buf)), Fits(ch, Len(c.kv.buf)), Meet(p, ch),
         NEW w \in Words, NEW v \in Words, Agree(v, w, Len(w)),
         Holding(c.kv.buf, p, w), Holding(c.kv.buf, ch, v)
  PROVE  Holding(c.kv.buf, MergeKV(c, p, ch), v)
  <1>1. PICK buf, k : buf = c.kv.buf /\ k = MergeKV(c, p, ch)
    OBVIOUS
  <1>2. CASE p = None \/ ch = None
    <2>1. k = None
      BY <1>1, <1>2 DEF MergeKV
    <2> QED BY <1>1, <2>1 DEF Holding
  <1>3. CASE p # None /\ ch # None
    <2>1. /\ p.from \in Nat /\ p.to \in Nat /\ ch.from \in Nat /\ ch.to \in Nat /\ p.to = ch.from
      BY <1>3 DEF KVSnaps, Meet
    <2>2. Holding(buf, p, v) /\ Holding(buf, ch, v)
      <3>1. Len(w) \in Nat
        BY LenProperties DEF Words
      <3> QED BY <1>1, <3>1, HoldingOn
    <2>3. /\ \A i \in p.from + 1 .. p.to : i <= Len(v) /\ SlotOf(buf, p, i) = SubSeq(v, 1, i)
          /\ \A i \in ch.from + 1 .. ch.to : i <= Len(v) /\ SlotOf(buf, ch, i) = SubSeq(v, 1, i)
      BY <1>3, <2>2 DEF Holding
    <2>4. CASE p.lazy /\ ch.lazy
      <3>1. k = Lazy(p.from, ch.to)
        BY <1>1, <1>3, <2>1, <2>4 DEF MergeKV
      <3>2. k.from = p.from /\ k.to = ch.to /\ k.lazy = TRUE
        BY <3>1 DEF Lazy
      <3>3. ASSUME NEW i \in p.from + 1 .. ch.to PROVE i <= Len(v) /\ buf[i] = SubSeq(v, 1, i)
        <4>1. CASE i <= p.to
          <5>1. i \in p.from + 1 .. p.to
            BY <2>1, <4>1
          <5> QED BY <2>3, <2>4, <5>1 DEF SlotOf
        <4>2. CASE ~(i <= p.to)
          <5>1. i \in ch.from + 1 .. ch.to
            BY <2>1, <4>2
          <5> QED BY <2>3, <2>4, <5>1 DEF SlotOf
        <4> QED BY <4>1, <4>2
      <3> QED BY <1>1, <3>2, <3>3 DEF Holding, SlotOf
    <2>5. CASE ~(p.lazy /\ ch.lazy)
      <3>1. PICK a, b : /\ a = IF p.lazy THEN CopyOf(c, p).data ELSE p.data
                        /\ b = IF ch.lazy THEN CopyOf(c, ch).data ELSE ch.data
        OBVIOUS
      <3>2. /\ a \in Seq(Words) /\ Len(a) = p.to - p.from /\ p.to - p.from \in Nat
            /\ \A i \in p.from + 1 .. p.to : a[i - p.from] = SlotOf(buf, p, i)
        BY <1>1, <1>3, <3>1, DataOf
      <3>3. /\ b \in Seq(Words) /\ Len(b) = ch.to - ch.from /\ ch.to - ch.from \in Nat
            /\ \A i \in ch.from + 1 .. ch.to : b[i - ch.from] = SlotOf(buf, ch, i)
        BY <1>1, <1>3, <3>1, DataOf
      <3>4. k = Owned(p.from, ch.to, a \o b)
        BY <1>1, <1>3, <2>5, <3>1 DEF MergeKV
      <3>5. PICK ab : ab = a \o b
        OBVIOUS
      <3>6. /\ Len(ab) = Len(a) + Len(b)
            /\ \A j \in 1 .. Len(a) + Len(b) : ab[j] = IF j <= Len(a) THEN a[j] ELSE b[j - Len(a)]
        BY <3>2, <3>3, <3>5, ConcatProperties
      <3>7. k.from = p.from /\ k.to = ch.to /\ k.lazy = FALSE /\ k.data = ab
        BY <3>4, <3>5 DEF Owned
      <3>8. Len(ab) = ch.to - p.from
        BY <2>1, <3>2, <3>3, <3>6
      <3>9. ASSUME NEW i \in p.from + 1 .. ch.to PROVE i <= Len(v) /\ ab[i - p.from] = SubSeq(v, 1, i)
        <4>0. Len(a) \in Nat /\ Len(b) \in Nat /\ Len(a) = p.to - p.from /\ Len(b) = ch.to - ch.from
          BY <3>2, <3>3
        <4>1. PICK j \in 1 .. Len(a) + Len(b) : j = i - p.from
          <5>1. i \in Int /\ p.from + 1 <= i /\ i <= ch.to
            BY <2>1
          <5>2. i - p.from \in 1 .. Len(a) + Len(b)
            BY <2>1, <4>0, <5>1
          <5> QED BY <5>2
        <4>2. CASE i <= p.to
          <5>1. i \in p.from + 1 .. p.to /\ j <= Len(a)
            BY <2>1, <3>2, <4>1, <4>2
          <5>2. ab[j] = a[i - p.from]
            BY <3>6, <4>1, <5>1
          <5> QED BY <2>3, <3>2, <4>1, <5>1, <5>2
        <4>3. CASE ~(i <= p.to)
          <5>0. i \in Int /\ i <= ch.to /\ i > p.to /\ j = i - p.from
            BY <2>1, <4>1, <4>3
          <5>1. i \in ch.from + 1 .. ch.to /\ ~(j <= Len(a)) /\ j - Len(a) = i - ch.from
            <6>1. i \in ch.from + 1 .. ch.to
              BY <2>1, <5>0
            <6>2. PICK f, g, h : f = p.from /\ g = p.to /\ h = Len(a)
              OBVIOUS
            <6>3. f \in Nat /\ g \in Nat /\ h = g - f /\ i \in Int /\ i > g /\ j = i - f
              BY <2>1, <4>0, <5>0, <6>2
            <6>4. ~(j <= h) /\ j - h = i - g
              BY <6>3
            <6> QED BY <2>1, <6>1, <6>2, <6>4
          <5>2. ab[j] = b[i - ch.from]
            BY <3>6, <5>1
          <5> QED BY <2>3, <3>3, <4>1, <5>1, <5>2
        <4> QED BY <4>2, <4>3
      <3> QED BY <1>1, <3>7, <3>8, <3>9 DEF Holding, SlotOf
    <2> QED BY <2>4, <2>5
  <1> QED BY <1>2, <1>3

\* mergeWithChild of a node off the active path.
LEMMA MergeWithChildSound ==
  ASSUME NEW c, NEW s, Sound(c, s), NEW n \in DOMAIN c.trie, NEW ch, Children(c.trie, n) = {ch}, OffPath(c, n)
  PROVE  \E r : /\ Pruned(c, s, MergeWithChild(c, n), r)
                /\ Meet(c.trie[n].kv, c.trie[ch].kv) => Bears(c, s, MergeWithChild(c, n), r)
  <1> DEFINE t == c.trie
             merged == [kv |-> MergeKV(c, t[n].kv, t[ch].kv), rec |-> t[ch].rec]
  <1>1. PICK b : b = SetSnapshots(c, n, NoSnapshots)
    OBVIOUS
  <1>2. /\ Sound(b, s) /\ SnapshotsSet(c, n, NoSnapshots, b) /\ DOMAIN b.trie = DOMAIN t
        /\ b.trie[n].kv = None /\ b.trie[n].rec = None
    BY <1>1, BareSound
  <1>3. ch \in DOMAIN t /\ t[ch].parent = n
    BY DEF Children
  <1>4. PICK b2 : b2 = SetSnapshots(b, ch, NoSnapshots)
    OBVIOUS
  <1>5. /\ Sound(b2, s) /\ SnapshotsSet(b, ch, NoSnapshots, b2) /\ DOMAIN b2.trie = DOMAIN t
        /\ b2.trie[ch].kv = None /\ b2.trie[ch].rec = None /\ Bytes(b2.trie[ch]) = 0
    BY <1>2, <1>3, <1>4, BareSound
  <1>6. /\ b2.path = c.path /\ Apart(c, b2)
        /\ \A m \in DOMAIN t : /\ b2.trie[m].tokens = t[m].tokens /\ b2.trie[m].end = t[m].end
                               /\ b2.trie[m].parent = t[m].parent /\ b2.trie[m] \in Node
    <2>1. b2.path = c.path /\ Apart(c, b2)
      BY <1>2, <1>5 DEF SnapshotsSet, Apart
    <2>2. SameNodes(t, b.trie) /\ SameNodes(b.trie, b2.trie)
      BY <1>2, <1>5 DEF SnapshotsSet
    <2>3. \A m \in DOMAIN t : b2.trie[m] \in Node
      <3>1. Tree(b2.trie, s)
        BY <1>5 DEF Sound
      <3> QED BY <1>5, <3>1, TreeFacts
    <2> QED BY <1>2, <2>1, <2>2, <2>3 DEF SameNodes
  <1>7. Tree(t, s) /\ Tree(b2.trie, s) /\ c.path[1] = Root /\ Walks(t, c.path) /\ c \in Caches
    BY <1>5 DEF Sound
  <1>8. /\ Len(c.path) \in Nat /\ Len(c.path) >= 1 /\ Last(c.path) = c.path[Len(c.path)]
        /\ \A i \in 1 .. Len(c.path) : c.path[i] \in DOMAIN t
    BY <1>7, WalkFacts
  <1>9. n # Root
    <2>1. 1 \in 1 .. Len(c.path)
      BY <1>8
    <2> QED BY <1>7, <2>1 DEF OffPath
  <1>10. OffPath(c, ch) /\ ch # Root /\ ch # n
    <2>1. ch # Root
      <3>1. None \notin Nat /\ n \in Nat
        BY <1>7, PrefixCacheAssumption DEF Tree
      <3> QED BY <1>3, <1>7, <3>1 DEF Tree
    <2>2. ASSUME NEW i \in 1 .. Len(c.path), c.path[i] = ch PROVE FALSE
      <3>1. i # 1
        BY <1>7, <2>1, <2>2
      <3>2. i \in 2 .. Len(c.path) /\ i - 1 \in 1 .. Len(c.path)
        BY <1>8, <3>1
      <3>3. t[c.path[i]].parent = c.path[i - 1]
        BY <1>7, <3>2 DEF Walks
      <3> QED BY <1>3, <2>2, <3>2, <3>3 DEF OffPath
    <2>3. PICK q : Edge(t, s, ch, q)
      BY <1>3, <1>7, <2>1, EdgeFacts
    <2>4. q = n /\ t[n].end < t[ch].end
      BY <1>3, <2>3 DEF Edge
    <2>5. t[n].end \in Nat
      BY <1>7, TreeFacts
    <2> QED BY <2>1, <2>2, <2>4, <2>5 DEF OffPath
  <1> DEFINE x == [[[b2.trie[n] EXCEPT !.tokens = t[n].tokens \o t[ch].tokens] EXCEPT !.end = t[ch].end] EXCEPT !.user = t[ch].user]
             Adopted(m) == IF b2.trie[m].parent = ch THEN [b2.trie[m] EXCEPT !.parent = n] ELSE b2.trie[m]
             u == [m \in DOMAIN t \ {ch} |-> IF m = n THEN x ELSE Adopted(m)]
             r == [m \in DOMAIN t \ {ch} |-> IF m = n THEN s[ch] ELSE s[m]]
  <1>11. /\ x \in Node /\ x.tokens = t[n].tokens \o t[ch].tokens /\ x.end = t[ch].end /\ x.parent = t[n].parent
         /\ x.kv = None /\ x.rec = None
    <2>1. b2.trie[n] \in Node /\ t[ch].end \in Nat /\ t[ch].user \in BOOLEAN /\ b2.trie[n].parent = t[n].parent
      BY <1>3, <1>6, <1>7, TreeFacts DEF Node
    <2>2. t[n].tokens \o t[ch].tokens \in Words
      <3>1. t[n].tokens \in Words /\ t[ch].tokens \in Words
        BY <1>3, <1>7, TreeFacts
      <3> QED BY <3>1, ConcatProperties DEF Words
    <2>3. b2.trie[n].kv = None /\ b2.trie[n].rec = None
      <3>1. b2.trie[n] = b.trie[n]
        BY <1>2, <1>5, <1>10 DEF SnapshotsSet
      <3> QED BY <1>2, <3>1
    <2>4. PICK f, w : f = b2.trie[n] /\ w = t[n].tokens \o t[ch].tokens
      OBVIOUS
    <2>5. /\ [[[f EXCEPT !.tokens = w] EXCEPT !.end = t[ch].end] EXCEPT !.user = t[ch].user] \in Node
          /\ [[[f EXCEPT !.tokens = w] EXCEPT !.end = t[ch].end] EXCEPT !.user = t[ch].user].tokens = w
          /\ [[[f EXCEPT !.tokens = w] EXCEPT !.end = t[ch].end] EXCEPT !.user = t[ch].user].end = t[ch].end
          /\ [[[f EXCEPT !.tokens = w] EXCEPT !.end = t[ch].end] EXCEPT !.user = t[ch].user].parent = f.parent
          /\ [[[f EXCEPT !.tokens = w] EXCEPT !.end = t[ch].end] EXCEPT !.user = t[ch].user].kv = f.kv
          /\ [[[f EXCEPT !.tokens = w] EXCEPT !.end = t[ch].end] EXCEPT !.user = t[ch].user].rec = f.rec
      BY <2>1, <2>2, <2>4 DEF Node
    <2> QED BY <2>1, <2>3, <2>4, <2>5
  <1>12. ASSUME NEW m \in DOMAIN t
         PROVE  /\ Adopted(m) \in Node /\ Adopted(m).tokens = t[m].tokens /\ Adopted(m).end = t[m].end
                /\ Adopted(m).parent = IF t[m].parent = ch THEN n ELSE t[m].parent
                /\ Adopted(m).kv = b2.trie[m].kv /\ Adopted(m).rec = b2.trie[m].rec
    <2>1. n \in Nat
      BY <1>7 DEF Tree
    <2>2. /\ b2.trie[m].tokens = t[m].tokens /\ b2.trie[m].end = t[m].end
          /\ b2.trie[m].parent = t[m].parent /\ b2.trie[m] \in Node
      BY <1>6
    <2>3. PICK f : f = b2.trie[m]
      OBVIOUS
    <2>4. /\ [f EXCEPT !.parent = n] \in Node /\ [f EXCEPT !.parent = n].tokens = f.tokens
          /\ [f EXCEPT !.parent = n].end = f.end /\ [f EXCEPT !.parent = n].parent = n
          /\ [f EXCEPT !.parent = n].kv = f.kv /\ [f EXCEPT !.parent = n].rec = f.rec
      BY <2>1, <2>2, <2>3 DEF Node
    <2>5. CASE f.parent = ch
      <3>1. Adopted(m) = [f EXCEPT !.parent = n]
        BY <2>3, <2>5
      <3> HIDE DEF Adopted
      <3> QED BY <2>2, <2>3, <2>4, <2>5, <3>1
    <2>6. CASE f.parent # ch
      <3>1. Adopted(m) = f
        BY <2>3, <2>6
      <3> HIDE DEF Adopted
      <3> QED BY <2>2, <2>3, <2>6, <3>1
    <2> QED BY <2>5, <2>6
  <1> HIDE DEF x, Adopted
  <1>13. /\ DOMAIN u = DOMAIN t \ {ch} /\ u[n] = x /\ n \in DOMAIN u
         /\ \A m \in DOMAIN u \ {n} : u[m] = Adopted(m) /\ r[m] = s[m] /\ m \in DOMAIN t
         /\ r[n] = s[ch] /\ DOMAIN r = DOMAIN u
    BY <1>10
  <1>14. u \in [DOMAIN u -> Node] /\ r \in [DOMAIN u -> Words]
    <2>1. \A m \in DOMAIN t \ {ch} : (IF m = n THEN x ELSE Adopted(m)) \in Node
      BY <1>11, <1>12
    <2>2. \A m \in DOMAIN t \ {ch} : (IF m = n THEN s[ch] ELSE s[m]) \in Words
      <3>1. \A m \in DOMAIN t : s[m] \in Words
        BY <1>7, TreeFacts
      <3> QED BY <1>3, <3>1
    <2> QED BY <1>13, <2>1, <2>2
  <1>15. PICK d : d = [b2 EXCEPT !.trie = u]
    OBVIOUS
  <1>16. MergeWithChild(c, n) = SetSnapshots(d, n, merged)
    <2>1. ch = CHOOSE m \in Children(c.trie, n) : TRUE
      OBVIOUS
    <2> QED BY <1>1, <1>4, <1>15, <2>1 DEF MergeWithChild, x, Adopted
  <1> HIDE DEF u, r
  <1>17. Reshapes(b2, d) /\ d.trie = u /\ d.path = c.path
    <2>1. b2 \in Caches
      BY <1>5 DEF Sound
    <2>2. d.trie = u /\ d.path = b2.path
      BY <1>15, <2>1 DEF Caches
    <2>3. Reshapes(b2, d)
      BY <1>15, <2>1, <2>2 DEF Caches, Reshapes
    <2> QED BY <1>6, <2>2, <2>3
  <1>18. Tree(u, r)
    <2>1. ChildMerged(t, s, n, ch, u, r)
      BY <1>11, <1>12, <1>13, <1>14, ZenonT(60) DEF ChildMerged
    <2> QED BY <1>7, <1>9, <2>1, ChildMergedTree
  <1>19. Walks(u, c.path)
    <2>1. \A i \in 1 .. Len(c.path) : c.path[i] \in DOMAIN u \ {n}
      BY <1>8, <1>10, <1>13 DEF OffPath
    <2>2. ASSUME NEW i \in 2 .. Len(c.path) PROVE u[c.path[i]].parent = t[c.path[i]].parent
      <3>1. i \in 1 .. Len(c.path) /\ i - 1 \in 1 .. Len(c.path)
        BY <1>8
      <3>2. t[c.path[i]].parent = c.path[i - 1] /\ c.path[i - 1] # ch
        BY <1>7, <1>10, <3>1 DEF Walks, OffPath
      <3>3. u[c.path[i]] = Adopted(c.path[i]) /\ c.path[i] \in DOMAIN t
        BY <1>13, <2>1, <3>1
      <3> QED BY <1>12, <3>2, <3>3
    <2>3. \A i \in 1 .. Len(c.path) : c.path[i] \in DOMAIN u
      BY <2>1
    <2> QED BY <1>7, <2>2, <2>3, WalksOn
  <1>20. \A m \in DOMAIN u : u[m].kv = b2.trie[m].kv /\ u[m].rec = b2.trie[m].rec
    <2>1. b2.trie[n].kv = None /\ b2.trie[n].rec = None
      <3>1. b2.trie[n] = b.trie[n]
        BY <1>2, <1>5, <1>10 DEF SnapshotsSet
      <3> QED BY <1>2, <3>1
    <2>2. ASSUME NEW m \in DOMAIN u, m # n PROVE u[m].kv = b2.trie[m].kv /\ u[m].rec = b2.trie[m].rec
      BY <1>12, <1>13, <2>2
    <2> QED BY <1>11, <1>13, <2>1, <2>2
  <1>21. Paid(u) = Paid(b2.trie)
    <2>1. DOMAIN b2.trie = DOMAIN u \cup {ch} /\ ch \notin DOMAIN u
      BY <1>3, <1>5, <1>13
    <2> QED BY <1>5, <1>7, <1>18, <1>20, <2>1, PaidBare
  <1>22. HeldWell(b2, d, r)
    <2>1. \A m \in DOMAIN u : Fits(b2.trie[m].kv, Len(b2.kv.buf)) /\ RecOf(b2.trie[m].rec, s[m])
      BY <1>5, <1>13 DEF Sound
    <2>2. ASSUME NEW m \in DOMAIN u PROVE Fits(u[m].kv, Len(b2.kv.buf)) /\ RecOf(u[m].rec, r[m])
      <3>1. CASE m = n
        BY <1>11, <1>13, <3>1 DEF Fits, RecOf
      <3>2. CASE m # n
        BY <1>13, <1>20, <2>1, <3>2
      <3> QED BY <3>1, <3>2
    <2> QED BY <1>17, <2>2 DEF HeldWell
  <1>23. Sound(d, r) /\ Apart(b2, d)
    <2>1. Walks(d.trie, d.path) /\ d.path[1] = Root /\ Tree(d.trie, r) /\ Paid(d.trie) = Paid(b2.trie)
      BY <1>7, <1>17, <1>18, <1>19, <1>21
    <2> QED BY <1>5, <1>17, <1>22, <2>1, Reshape
  <1>24. PICK y : y = merged
    OBVIOUS
  <1>25. y.kv \in KVSnaps /\ y.rec \in RecSnaps /\ Fits(y.kv, Len(d.kv.buf)) /\ RecOf(y.rec, r[n])
    <2>1. /\ t[n].kv \in KVSnaps /\ t[ch].kv \in KVSnaps /\ t[ch].rec \in RecSnaps
      BY <1>3, <1>7, NodeBytes
    <2>2. Fits(t[n].kv, Len(c.kv.buf)) /\ Fits(t[ch].kv, Len(c.kv.buf)) /\ RecOf(t[ch].rec, s[ch])
      BY <1>3 DEF Sound
    <2>3. PICK k : k = MergeKV(c, t[n].kv, t[ch].kv)
      OBVIOUS
    <2>4. k \in KVSnaps /\ Fits(k, Len(c.kv.buf))
      BY <1>7, <2>1, <2>2, <2>3, MergeKVIs
    <2>5. d.kv = c.kv
      BY <1>6, <1>23 DEF Apart
    <2>6. y.kv = k /\ y.rec = t[ch].rec
      BY <1>24, <2>3
    <2> QED BY <1>13, <2>1, <2>2, <2>4, <2>5, <2>6
  <1>26. PICK e : e = SetSnapshots(d, n, y)
    OBVIOUS
  <1>27. n \in DOMAIN d.trie
    BY <1>13, <1>17
  <1>28. Sound(e, r)
    BY <1>23, <1>25, <1>26, <1>27, SnapshotsSound
  <1>29. e.path = d.path /\ Apart(d, e)
    <2>1. SnapshotsSet(d, n, y, e)
      BY <1>23, <1>25, <1>26, <1>27, SnapshotsFields DEF Sound
    <2> QED BY <2>1 DEF SnapshotsSet
  <1>30. r[Last(c.path)] = s[Last(c.path)]
    <2>1. Len(c.path) \in 1 .. Len(c.path)
      BY <1>8
    <2>2. Last(c.path) \in DOMAIN t /\ Last(c.path) # n /\ Last(c.path) # ch
      BY <1>8, <1>10, <2>1 DEF OffPath
    <2> QED BY <1>13, <2>2
  <1>31. Pruned(c, s, e, r)
    BY <1>6, <1>17, <1>23, <1>28, <1>29, <1>30 DEF Pruned, Apart
  <1>32. ASSUME Meet(t[n].kv, t[ch].kv), Faithful(c, s), NEW m \in DOMAIN e.trie
         PROVE  Holding(e.kv.buf, e.trie[m].kv, r[m])
    <2>1. e.kv = c.kv /\ SnapshotsSet(d, n, y, e) /\ DOMAIN e.trie = DOMAIN u
      <3>1. SnapshotsSet(d, n, y, e)
        BY <1>23, <1>25, <1>26, <1>27, SnapshotsFields DEF Sound
      <3> QED BY <1>6, <1>17, <1>23, <1>29, <3>1 DEF SnapshotsSet, Apart
    <2>2. \A h \in DOMAIN t : Holding(c.kv.buf, t[h].kv, s[h]) /\ t[h].kv \in KVSnaps /\ s[h] \in Words
      BY <1>7, <1>32, NodeBytes, TreeFacts DEF Faithful
    <2>3. CASE m = n
      <3>1. e.trie[n].kv = MergeKV(c, t[n].kv, t[ch].kv)
        BY <1>24, <2>1 DEF SnapshotsSet
      <3>2. Fits(t[n].kv, Len(c.kv.buf)) /\ Fits(t[ch].kv, Len(c.kv.buf))
        BY <1>3 DEF Sound
      <3>3. Agree(s[ch], s[n], Len(s[n]))
        <4>1. PICK q : Edge(t, s, ch, q)
          BY <1>3, <1>7, <1>10, EdgeFacts
        <4>2. q = n /\ Agree(s[ch], s[q], t[q].end) /\ Len(s[n]) = t[n].end
          BY <1>3, <1>7, <4>1, TreeFacts DEF Edge
        <4> QED BY <4>2
      <3>4. PICK p, k, w, v : p = t[n].kv /\ k = t[ch].kv /\ w = s[n] /\ v = s[ch]
        OBVIOUS
      <3>5. Holding(c.kv.buf, MergeKV(c, p, k), v)
        BY <1>3, <1>7, <1>32, <2>2, <3>2, <3>3, <3>4, MergeKVHolds
      <3> QED BY <1>13, <2>1, <2>3, <3>1, <3>4, <3>5
    <2>4. CASE m # n
      <3>1. m \in DOMAIN t /\ m # ch /\ r[m] = s[m] /\ m \in DOMAIN u
        BY <1>13, <2>1, <2>4
      <3>2. e.trie[m] = u[m]
        BY <1>17, <2>1, <2>4, <3>1 DEF SnapshotsSet
      <3>3. b2.trie[m] = b.trie[m] /\ b.trie[m] = t[m]
        BY <1>2, <1>5, <2>4, <3>1 DEF SnapshotsSet
      <3> QED BY <1>20, <2>1, <2>2, <3>1, <3>2, <3>3
    <2> QED BY <2>3, <2>4
  <1>33. Meet(t[n].kv, t[ch].kv) => Bears(c, s, e, r)
    BY <1>32 DEF Bears, Faithful
  <1> QED BY <1>16, <1>24, <1>26, <1>31, <1>33

\* A turn of eviction leaves the active path and what it spells.
LEMMA EvictSound ==
  ASSUME NEW c, NEW s, Sound(c, s), NEW n \in Evictable(c)
  PROVE  LET d == IF Children(c.trie, n) = {} THEN RemoveNode(c, n) ELSE MergeWithChild(c, n)
         IN \E r : /\ Pruned(c, s, d, r)
                   /\ (\A ch \in Children(c.trie, n) : Meet(c.trie[n].kv, c.trie[ch].kv)) => Bears(c, s, d, r)
  <1>1. n \in DOMAIN c.trie /\ n \notin ToSet(c.path) /\ Cardinality(Children(c.trie, n)) <= 1
    BY DEF Evictable
  <1>2. Walks(c.trie, c.path) /\ Tree(c.trie, s)
    BY DEF Sound
  <1>3. OffPath(c, n)
    <2>1. c.path \in Seq(DOMAIN c.trie)
      BY <1>2, WalkFacts
    <2>2. DOMAIN c.path = 1 .. Len(c.path)
      BY <2>1, LenProperties
    <2> QED BY <1>1, <2>2 DEF OffPath, ToSet
  <1>4. CASE Children(c.trie, n) = {}
    BY <1>1, <1>3, <1>4, RemoveNodeSound
  <1>5. CASE Children(c.trie, n) # {}
    <2>1. IsFiniteSet(Children(c.trie, n))
      <3>1. IsFiniteSet(DOMAIN c.trie)
        BY <1>2 DEF Tree
      <3>2. Children(c.trie, n) \in SUBSET DOMAIN c.trie
        BY DEF Children
      <3> QED BY <3>1, <3>2, FS_Subset
    <2>2. PICK ch \in Children(c.trie, n) : TRUE
      BY <1>5
    <2>3. Children(c.trie, n) = {ch}
      <3>1. PICK S : S = Children(c.trie, n)
        OBVIOUS
      <3>2. IsFiniteSet(S \ {ch}) /\ Cardinality(S \ {ch}) = Cardinality(S) - 1 /\ Cardinality(S) \in Nat
        BY <2>1, <2>2, <3>1, FS_RemoveElement, FS_CardinalityType
      <3>3. Cardinality(S \ {ch}) = 0
        <4>1. Cardinality(S \ {ch}) \in Nat
          BY <3>2, FS_CardinalityType
        <4> QED BY <1>1, <3>1, <3>2, <4>1
      <3>4. S \ {ch} = {}
        BY <3>2, <3>3, FS_EmptySet
      <3> QED BY <2>2, <3>1, <3>4
    <2>4. \E r : /\ Pruned(c, s, MergeWithChild(c, n), r)
                 /\ Meet(c.trie[n].kv, c.trie[ch].kv) => Bears(c, s, MergeWithChild(c, n), r)
      BY <1>1, <1>3, <2>3, MergeWithChildSound
    <2> QED BY <1>5, <2>2, <2>4
  <1> QED BY <1>4, <1>5

----------------------------------------------------------------------------
(* advancePath.                                                            *)

\* The active path stands for these tokens now.
Grown(c, s, d, r, word) == Sound(d, r) /\ Apart(c, d) /\ r[Last(d.path)] = word /\ Bears(c, s, d, r)

\* Two words joined.
LEMMA JoinedFacts ==
  ASSUME NEW a \in Words, NEW b \in Words
  PROVE  /\ a \o b \in Words /\ Len(a \o b) = Len(a) + Len(b) /\ Len(a) \in Nat /\ Len(b) \in Nat
         /\ Agree(a \o b, a, Len(a))
         /\ b = <<>> => a \o b = a
  BY AgreeConcat, LenProperties, ConcatEmptySeq DEF Words

\* appendTokens, as a new leaf,
LEMMA LeafSound ==
  ASSUME NEW c, NEW s, Sound(c, s), NEW p, p = Last(c.path), NEW rest \in Words, rest # <<>>,
         \A m \in Children(c.trie, p) : c.trie[m].tokens[1] # rest[1],
         NEW end, end = c.trie[p].end + Len(rest), NEW new, new = Fresh(c.trie)
  PROVE  \E r : Grown(c, s, [AddNode(c, new, NewNode(rest, end, p)) EXCEPT !.path = Append(c.path, new)], r,
                      s[p] \o rest)
  <1>1. Tree(c.trie, s) /\ Walks(c.trie, c.path) /\ c.path[1] = Root /\ c \in Caches
    BY DEF Sound
  <1>2. new \in Nat /\ new \notin DOMAIN c.trie
    BY <1>1, FreshIs
  <1>3. /\ Len(c.path) \in Nat /\ Len(c.path) >= 1 /\ p \in DOMAIN c.trie
        /\ \A i \in 1 .. Len(c.path) : c.path[i] \in DOMAIN c.trie
    BY <1>1, WalkFacts
  <1>4. /\ s[p] \in Words /\ c.trie[p].end \in Nat /\ Len(rest) \in Nat /\ end \in Nat /\ p \in Nat
        /\ s[p] \o rest \in Words
    <2>1. s[p] \in Words /\ c.trie[p].end \in Nat /\ p \in Nat
      BY <1>1, <1>3, TreeFacts
    <2>2. Len(rest) \in Nat /\ s[p] \o rest \in Words
      BY <2>1, JoinedFacts
    <2> QED BY <2>1, <2>2
  <1> DEFINE x == NewNode(rest, end, p)
             u == [m \in DOMAIN c.trie \cup {new} |-> IF m = new THEN x ELSE c.trie[m]]
             r == [m \in DOMAIN c.trie \cup {new} |-> IF m = new THEN s[p] \o rest ELSE s[m]]
  <1>5. /\ x \in Node /\ x.tokens = rest /\ x.end = end /\ x.parent = p /\ x.kv = None /\ x.rec = None
    BY <1>4 DEF NewNode, Node, KVSnaps, RecSnaps
  <1> HIDE DEF x
  <1>6. /\ DOMAIN u = DOMAIN c.trie \cup {new} /\ u[new] = x /\ r[new] = s[p] \o rest
        /\ \A m \in DOMAIN c.trie : u[m] = c.trie[m] /\ r[m] = s[m]
    BY <1>2
  <1>7. u \in [DOMAIN u -> Node] /\ r \in [DOMAIN u -> Words]
    <2>1. \A m \in DOMAIN c.trie : c.trie[m] \in Node /\ s[m] \in Words
      BY <1>1, TreeFacts
    <2> QED BY <1>4, <1>5, <2>1
  <1>8. PICK d : d = [AddNode(c, new, x) EXCEPT !.path = Append(c.path, new)]
    OBVIOUS
  <1>9. Reshapes(c, d) /\ d.trie = u /\ d.path = Append(c.path, new)
    <2>1. PICK path : path = Append(c.path, new)
      OBVIOUS
    <2>2. d = [[c EXCEPT !.trie = u] EXCEPT !.path = path]
      BY <1>8, <2>1 DEF AddNode
    <2> HIDE DEF u
    <2>3. d.trie = u /\ d.path = path
      BY <1>1, <2>2 DEF Caches
    <2>4. Reshapes(c, d)
      BY <1>1, <2>2, <2>3 DEF Caches, Reshapes
    <2> QED BY <2>1, <2>3, <2>4
  <1> HIDE DEF u, r
  <1>10. Tree(u, r)
    <2>1. LeafAdded(c.trie, s, p, new, u, r)
      BY <1>5, <1>6, <1>7 DEF LeafAdded
    <2> QED BY <1>1, <1>2, <1>3, <2>1, LeafAddedTree
  <1>11. Walks(u, c.path)
    <2>1. \A i \in 2 .. Len(c.path) : i \in 1 .. Len(c.path)
      BY <1>3
    <2> QED BY <1>1, <1>3, <1>6, <2>1, WalksOn
  <1>12. /\ Walks(u, Append(c.path, new)) /\ Last(Append(c.path, new)) = new
         /\ Append(c.path, new)[1] = c.path[1]
    <2>1. new \in Children(u, Last(c.path))
      BY <1>5, <1>6 DEF Children
    <2> QED BY <1>10, <1>11, <2>1, WalkOn
  <1>13. Paid(u) = Paid(c.trie)
    <2>1. Bytes(u[new]) = 0
      BY <1>5, <1>6 DEF Bytes, KVBytes
    <2>2. \A m \in DOMAIN c.trie : u[m].kv = c.trie[m].kv /\ u[m].rec = c.trie[m].rec
      BY <1>6
    <2> QED BY <1>1, <1>2, <1>6, <1>10, <2>1, <2>2, PaidBare
  <1>14. HeldWell(c, d, r)
    <2>1. ASSUME NEW m \in DOMAIN u PROVE Fits(u[m].kv, Len(c.kv.buf)) /\ RecOf(u[m].rec, r[m])
      <3>1. CASE m = new
        BY <1>5, <1>6, <3>1 DEF Fits, RecOf
      <3>2. CASE m # new
        BY <1>6, <3>2 DEF Sound
      <3> QED BY <3>1, <3>2
    <2> QED BY <1>9, <2>1 DEF HeldWell
  <1>15. Sound(d, r) /\ Apart(c, d)
    BY <1>1, <1>9, <1>10, <1>12, <1>13, <1>14, Reshape
  <1>16. Bears(c, s, d, r)
    <2>1. ASSUME NEW m \in DOMAIN c.trie PROVE Carried(c.trie, s, u, r, m)
      <3>1. u[m] = c.trie[m] /\ r[m] = s[m]
        BY <1>6
      <3>2. s[m] \in Words
        BY <1>1, TreeFacts
      <3>3. Agree(r[m], s[m], Len(s[m]))
        BY <3>1, <3>2, AgreeSelf
      <3> QED BY <3>1, <3>3 DEF Carried
    <2>2. Carried(c.trie, s, u, r, new)
      BY <1>5, <1>6 DEF Carried
    <2>3. \A m \in DOMAIN d.trie : Carried(c.trie, s, d.trie, r, m)
      BY <1>6, <1>9, <2>1, <2>2
    <2>4. d.kv = c.kv
      BY <1>15 DEF Apart
    <2> QED BY <1>1, <1>9, <1>10, <2>3, <2>4, BearsIf
  <1>17. Grown(c, s, d, r, s[p] \o rest)
    BY <1>6, <1>9, <1>12, <1>15, <1>16 DEF Grown
  <1> QED BY <1>8, <1>17 DEF x

\* as a longer leaf,
LEMMA LongerSound ==
  ASSUME NEW c, NEW s, Sound(c, s), NEW n, n = Last(c.path), n # Root, Children(c.trie, n) = {},
         NEW rest \in Words, NEW end, end = c.trie[n].end + Len(rest)
  PROVE  \E r : Grown(c, s, [c EXCEPT !.trie[n].tokens = @ \o rest, !.trie[n].end = end], r, s[n] \o rest)
  <1>1. Tree(c.trie, s) /\ Walks(c.trie, c.path) /\ c.path[1] = Root /\ c \in Caches
    BY DEF Sound
  <1>2. /\ Len(c.path) \in Nat /\ Len(c.path) >= 1 /\ n \in DOMAIN c.trie
        /\ \A i \in 1 .. Len(c.path) : c.path[i] \in DOMAIN c.trie
    BY <1>1, WalkFacts
  <1>3. /\ s[n] \in Words /\ c.trie[n].end \in Nat /\ Len(rest) \in Nat /\ end \in Nat /\ n \in Nat
        /\ s[n] \o rest \in Words /\ c.trie[n] \in Node /\ c.trie[n].tokens \o rest \in Words
        /\ Agree(s[n] \o rest, s[n], Len(s[n])) /\ Len(s[n]) \in Nat
    <2>1. s[n] \in Words /\ c.trie[n].end \in Nat /\ n \in Nat /\ c.trie[n].tokens \in Words /\ c.trie[n] \in Node
      BY <1>1, <1>2, TreeFacts
    <2>2. Len(rest) \in Nat /\ s[n] \o rest \in Words /\ Agree(s[n] \o rest, s[n], Len(s[n])) /\ Len(s[n]) \in Nat
      <3>1. PICK a : a = s[n]
        OBVIOUS
      <3>2. a \in Words
        BY <2>1, <3>1
      <3>3. Len(rest) \in Nat /\ a \o rest \in Words /\ Agree(a \o rest, a, Len(a)) /\ Len(a) \in Nat
        BY <3>2, JoinedFacts
      <3> QED BY <3>1, <3>3
    <2>3. c.trie[n].tokens \o rest \in Words
      <3>1. PICK a : a = c.trie[n].tokens
        OBVIOUS
      <3>2. a \o rest \in Words
        BY <2>1, <3>1, JoinedFacts
      <3> QED BY <3>1, <3>2
    <2> QED BY <2>1, <2>2, <2>3
  <1> DEFINE w == c.trie[n].tokens \o rest
             x == [[c.trie[n] EXCEPT !.tokens = w] EXCEPT !.end = end]
             u == [c.trie EXCEPT ![n] = x]
             r == [s EXCEPT ![n] = s[n] \o rest]
  <1>4. /\ x \in Node /\ x.tokens = w /\ x.end = end /\ x.parent = c.trie[n].parent
        /\ x.kv = c.trie[n].kv /\ x.rec = c.trie[n].rec
    <2> HIDE DEF w
    <2> QED BY <1>3 DEF Node, w
  <1>5. PICK d : d = [c EXCEPT !.trie[n].tokens = @ \o rest, !.trie[n].end = end]
    OBVIOUS
  <1>6. d = [c EXCEPT !.trie = u]
    <2>1. PICK t, y : t = c.trie /\ y = w
      OBVIOUS
    <2>2. d = [c EXCEPT !.trie = [[t EXCEPT ![n] = [t[n] EXCEPT !.tokens = y]] EXCEPT ![n] = [[t[n] EXCEPT !.tokens = y] EXCEPT !.end = end]]]
      BY <1>1, <1>2, <1>5, <2>1 DEF Caches
    <2>3. [[t EXCEPT ![n] = [t[n] EXCEPT !.tokens = y]] EXCEPT ![n] = [[t[n] EXCEPT !.tokens = y] EXCEPT !.end = end]]
           = [t EXCEPT ![n] = [[t[n] EXCEPT !.tokens = y] EXCEPT !.end = end]]
      BY <1>1, <1>2, <2>1 DEF Tree
    <2> QED BY <2>1, <2>2, <2>3
  <1> HIDE DEF x
  <1>7. /\ DOMAIN u = DOMAIN c.trie /\ u[n] = x /\ r[n] = s[n] \o rest
        /\ \A m \in DOMAIN c.trie \ {n} : u[m] = c.trie[m] /\ r[m] = s[m]
        /\ u \in [DOMAIN u -> Node] /\ r \in [DOMAIN u -> Words]
    <2>1. c.trie \in [DOMAIN c.trie -> Node] /\ s \in [DOMAIN c.trie -> Words]
      BY <1>1 DEF Tree
    <2> QED BY <1>2, <1>3, <1>4, <2>1
  <1> HIDE DEF u, r
  <1>8. Reshapes(c, d) /\ d.trie = u /\ d.path = c.path
    <2>1. d.trie = u /\ d.path = c.path
      BY <1>1, <1>6 DEF Caches
    <2> QED BY <1>1, <1>6, <2>1 DEF Caches, Reshapes
  <1>9. Tree(u, r)
    <2>1. LeafLonger(c.trie, s, n, rest, u, r)
      BY <1>4, <1>7 DEF LeafLonger
    <2> QED BY <1>1, <1>2, <2>1, LeafLongerTree
  <1>10. \A m \in DOMAIN c.trie : u[m].kv = c.trie[m].kv /\ u[m].rec = c.trie[m].rec /\ u[m].parent = c.trie[m].parent
    BY <1>4, <1>7
  <1>11. Walks(u, c.path)
    <2>1. \A i \in 2 .. Len(c.path) : i \in 1 .. Len(c.path)
      BY <1>2
    <2> QED BY <1>1, <1>2, <1>7, <1>10, <2>1, WalksOn
  <1>12. Paid(u) = Paid(c.trie)
    <2>1. Paid(u) = Paid(c.trie) - Bytes(c.trie[n]) + Bytes(u[n])
      BY <1>1, <1>2, <1>7, <1>9, <1>10, PaidOne
    <2>2. Bytes(u[n]) = Bytes(c.trie[n])
      BY <1>2, <1>10 DEF Bytes
    <2>3. Bytes(c.trie[n]) \in Nat /\ Paid(c.trie) \in Int
      BY <1>1, <1>2, NodeBytes
    <2> QED BY <2>1, <2>2, <2>3
  <1>13. HeldWell(c, d, r)
    <2>1. ASSUME NEW m \in DOMAIN u PROVE Fits(u[m].kv, Len(c.kv.buf)) /\ RecOf(u[m].rec, r[m])
      <3>1. Fits(c.trie[m].kv, Len(c.kv.buf)) /\ RecOf(c.trie[m].rec, s[m])
        BY <1>7 DEF Sound
      <3>2. CASE m = n
        <4>1. ASSUME x.rec # None PROVE Agree(r[n], x.rec, Len(x.rec))
          <5>1. x.rec \in Words /\ Len(x.rec) \in Nat
            <6>1. x.rec \in Words
              BY <1>4, <4>1 DEF Node, RecSnaps
            <6> QED BY <6>1, LenProperties DEF Words
          <5>2. Agree(s[n], x.rec, Len(x.rec)) /\ Len(x.rec) <= Len(s[n])
            BY <1>4, <3>1, <3>2, <4>1 DEF RecOf, Agree
          <5> QED BY <1>3, <1>7, <5>1, <5>2, AgreeTwice
        <4> QED BY <1>4, <1>7, <3>1, <3>2, <4>1 DEF RecOf
      <3>3. CASE m # n
        BY <1>7, <3>1, <3>3
      <3> QED BY <3>2, <3>3
    <2> QED BY <1>8, <2>1 DEF HeldWell
  <1>14. Sound(d, r) /\ Apart(c, d)
    BY <1>1, <1>8, <1>9, <1>11, <1>12, <1>13, Reshape
  <1>15. Bears(c, s, d, r)
    <2>1. ASSUME NEW m \in DOMAIN c.trie, m # n PROVE Agree(r[m], s[m], Len(s[m]))
      <3>1. s[m] \in Words /\ r[m] = s[m]
        BY <1>1, <1>7, <2>1, TreeFacts
      <3> QED BY <3>1, AgreeSelf
    <2>2. Agree(r[n], s[n], Len(s[n]))
      BY <1>3, <1>7
    <2>3. \A m \in DOMAIN d.trie : Carried(c.trie, s, d.trie, r, m)
      BY <1>7, <1>8, <1>10, <2>1, <2>2 DEF Carried
    <2>4. d.kv = c.kv
      BY <1>14 DEF Apart
    <2> QED BY <1>1, <1>8, <1>9, <2>3, <2>4, BearsIf
  <1>16. Grown(c, s, d, r, s[n] \o rest)
    BY <1>7, <1>8, <1>14, <1>15 DEF Grown
  <1> QED BY <1>5, <1>16

\* and as either.
LEMMA GrowSound ==
  ASSUME NEW c, NEW s, Sound(c, s), NEW dest, dest = Last(c.path), NEW rest \in Words, rest # <<>>,
         \A m \in Children(c.trie, dest) : c.trie[m].tokens[1] # rest[1],
         NEW end, end = c.trie[dest].end + Len(rest)
  PROVE  \E r : Grown(c, s, Grow(c, dest, rest, end), r, s[dest] \o rest)
  <1>1. CASE dest = Root \/ Children(c.trie, dest) # {} \/ HasSnapshots(c.trie[dest])
    <2>1. PICK new : new = Fresh(c.trie)
      OBVIOUS
    <2>2. Grow(c, dest, rest, end) = [AddNode(c, new, NewNode(rest, end, dest)) EXCEPT !.path = Append(c.path, new)]
      BY <1>1, <2>1 DEF Grow
    <2>3. \E r : Grown(c, s, [AddNode(c, new, NewNode(rest, end, dest)) EXCEPT !.path = Append(c.path, new)], r,
                       s[dest] \o rest)
      BY <2>1, LeafSound
    <2> QED BY <2>2, <2>3
  <1>2. CASE ~(dest = Root \/ Children(c.trie, dest) # {} \/ HasSnapshots(c.trie[dest]))
    <2>1. Grow(c, dest, rest, end) = [c EXCEPT !.trie[dest].tokens = @ \o rest, !.trie[dest].end = end]
      BY <1>2 DEF Grow
    <2>2. dest # Root /\ Children(c.trie, dest) = {}
      BY <1>2
    <2>3. \E r : Grown(c, s, [c EXCEPT !.trie[dest].tokens = @ \o rest, !.trie[dest].end = end], r, s[dest] \o rest)
      BY <2>2, LongerSound
    <2> QED BY <2>1, <2>3
  <1> QED BY <1>1, <1>2

\* What a node may grow by: nothing that a child of it begins with.
Grows(c, s, dest, rest, end) ==
    /\ dest = Last(c.path) /\ rest \in Words /\ end = c.trie[dest].end + Len(rest)
    /\ rest # <<>> => \A m \in Children(c.trie, dest) : c.trie[m].tokens[1] # rest[1]

\* The same when the leaf loses its snapshots first.
LEMMA ExtendSound ==
  ASSUME NEW c, NEW s, Sound(c, s), NEW dest, NEW rest, NEW end, Grows(c, s, dest, rest, end)
  PROVE  \E r : Grown(c, s, Extend(c, dest, rest, end), r, s[dest] \o rest)
  <1>1. /\ dest = Last(c.path) /\ rest \in Words /\ end = c.trie[dest].end + Len(rest)
        /\ rest # <<>> => \A m \in Children(c.trie, dest) : c.trie[m].tokens[1] # rest[1]
    BY DEF Grows
  <1>2. dest \in DOMAIN c.trie /\ s[dest] \in Words
    <2>1. Walks(c.trie, c.path) /\ Tree(c.trie, s)
      BY DEF Sound
    <2>2. dest \in DOMAIN c.trie
      BY <1>1, <2>1, WalkFacts
    <2> QED BY <2>1, <2>2, TreeFacts
  <1>3. CASE rest = <<>>
    <2>1. Extend(c, dest, rest, end) = c
      BY <1>3 DEF Extend
    <2>2. s[dest] \o rest = s[dest]
      <3>1. PICK a : a = s[dest]
        OBVIOUS
      <3>2. a \o rest = a
        BY <1>1, <1>2, <1>3, <3>1, JoinedFacts
      <3> QED BY <3>1, <3>2
    <2>3. Grown(c, s, c, s, s[dest])
      BY <1>1 DEF Grown, Apart, Bears
    <2> QED BY <2>1, <2>2, <2>3
  <1>4. CASE rest # <<>>
    <2>1. PICK b : b = IF Children(c.trie, dest) = {} /\ ~c.trie[dest].user
                       THEN SetSnapshots(c, dest, NoSnapshots) ELSE c
      OBVIOUS
    <2>2. Extend(c, dest, rest, end) = Grow(b, dest, rest, end)
      BY <1>4, <2>1 DEF Extend
    <2>3. /\ Sound(b, s) /\ Apart(c, b) /\ b.path = c.path /\ SameNodes(c.trie, b.trie) /\ Bears(c, s, b, s)
      <3>1. CASE b = c
        BY <3>1 DEF Apart, SameNodes, Bears
      <3>2. CASE b = SetSnapshots(c, dest, NoSnapshots)
        <4>1. Sound(b, s) /\ SnapshotsSet(c, dest, NoSnapshots, b) /\ Bears(c, s, b, s)
          BY <1>2, <3>2, BareSound, BareBears
        <4> QED BY <4>1 DEF SnapshotsSet
      <3> QED BY <2>1, <3>1, <3>2
    <2>4. /\ dest = Last(b.path) /\ end = b.trie[dest].end + Len(rest)
          /\ \A m \in Children(b.trie, dest) : b.trie[m].tokens[1] # rest[1]
      <3>1. b.trie[dest].end = c.trie[dest].end
        BY <1>2, <2>3 DEF SameNodes
      <3>2. Children(b.trie, dest) = Children(c.trie, dest) /\ \A m \in DOMAIN c.trie : b.trie[m].tokens = c.trie[m].tokens
        BY <2>3 DEF SameNodes, Children
      <3>3. \A m \in Children(c.trie, dest) : m \in DOMAIN c.trie
        BY DEF Children
      <3> QED BY <1>1, <1>4, <2>3, <3>1, <3>2, <3>3
    <2>5. PICK r : Grown(b, s, Grow(b, dest, rest, end), r, s[dest] \o rest)
      BY <1>1, <1>4, <2>3, <2>4, GrowSound
    <2>6. PICK e : e = Grow(b, dest, rest, end)
      OBVIOUS
    <2>7. Grown(b, s, e, r, s[dest] \o rest)
      BY <2>5, <2>6
    <2>8. Grown(c, s, e, r, s[dest] \o rest)
      BY <2>3, <2>7 DEF Grown, Apart, Bears
    <2> QED BY <2>2, <2>6, <2>8
  <1> QED BY <1>3, <1>4

\* What Split makes of a snapshot: both parts are snapshots that fit.
LEMMA SplitKVIs ==
  ASSUME NEW k \in KVSnaps, NEW len \in Nat, Fits(k, len), NEW at \in Nat
  PROVE  /\ SplitKV(k, at)[1] \in KVSnaps /\ Fits(SplitKV(k, at)[1], len)
         /\ SplitKV(k, at)[2] \in KVSnaps /\ Fits(SplitKV(k, at)[2], len)
  <1>0. None \in KVSnaps /\ Fits(None, len)
    BY DEF KVSnaps, Fits
  <1>1. CASE k = None \/ at <= k.from
    <2>1. SplitKV(k, at) = <<None, k>>
      BY <1>1 DEF SplitKV
    <2> QED BY <1>0, <2>1
  <1>2. CASE ~(k = None \/ at <= k.from) /\ at >= k.to
    <2>1. SplitKV(k, at) = <<k, None>>
      BY <1>2 DEF SplitKV
    <2> QED BY <1>0, <2>1
  <1>3. CASE ~(k = None \/ at <= k.from) /\ ~(at >= k.to)
    <2>1. /\ k.from \in Nat /\ k.to \in Nat /\ k.from < at /\ at < k.to /\ k.data \in Seq(Words)
          /\ k.lazy => k.to <= len
      BY <1>3 DEF KVSnaps, Fits
    <2>2. CASE k.lazy
      <3>1. PICK a, b : a = Lazy(k.from, at) /\ b = Lazy(at, k.to)
        OBVIOUS
      <3>2. SplitKV(k, at) = <<a, b>>
        BY <1>3, <2>2, <3>1 DEF SplitKV
      <3>3. <<>> \in Seq(Words) /\ TRUE \in BOOLEAN
        BY EmptySeq
      <3>4. a \in KVSnaps /\ a.from = k.from /\ a.to = at /\ b \in KVSnaps /\ b.from = at /\ b.to = k.to
        BY <2>1, <3>1, <3>3 DEF Lazy, KVSnaps
      <3>5. Fits(a, len) /\ Fits(b, len)
        BY <2>1, <2>2, <3>4 DEF Fits
      <3> QED BY <3>2, <3>4, <3>5
    <2>3. CASE ~k.lazy
      <3>1. PICK p, q : p = Slice(k.data, 0, at - k.from) /\ q = Slice(k.data, at - k.from, k.to - k.from)
        OBVIOUS
      <3>2. SplitKV(k, at) = <<Owned(k.from, at, p), Owned(at, k.to, q)>>
        BY <1>3, <2>3, <3>1 DEF SplitKV
      <3>3. ASSUME NEW i \in Nat, NEW j \in Nat PROVE Slice(k.data, i, j) \in Seq(Words)
        <4>1. Len(k.data) \in Nat
          BY <2>1, LenProperties
        <4>2. PICK m : m = Min({j, Len(k.data)})
          OBVIOUS
        <4>3. m \in Nat /\ m <= Len(k.data)
          <5>1. m = IF j <= Len(k.data) THEN j ELSE Len(k.data)
            BY <4>1, <4>2, MinTwo
          <5> QED BY <4>1, <5>1
        <4>4. Slice(k.data, i, j) = SubSeq(k.data, i + 1, m)
          BY <4>2 DEF Slice
        <4>5. \A h \in i + 1 .. m : k.data[h] \in Words
          <5>1. \A h \in i + 1 .. m : h \in 1 .. Len(k.data)
            BY <4>1, <4>3
          <5> QED BY <2>1, <5>1, ElementOfSeq
        <4>6. SubSeq(k.data, i + 1, m) \in Seq(Words)
          <5>1. i + 1 \in Int /\ m \in Int
            BY <4>3
          <5> QED BY <4>5, <5>1, SubSeqProperties
        <4> QED BY <4>4, <4>6
      <3>4. p \in Seq(Words) /\ q \in Seq(Words)
        <4>1. at - k.from \in Nat /\ k.to - k.from \in Nat /\ 0 \in Nat
          BY <2>1
        <4> QED BY <3>1, <3>3, <4>1
      <3>5. PICK a, b : a = Owned(k.from, at, p) /\ b = Owned(at, k.to, q)
        OBVIOUS
      <3>6. a \in KVSnaps /\ a.lazy = FALSE /\ b \in KVSnaps /\ b.lazy = FALSE
        BY <2>1, <3>4, <3>5 DEF Owned, KVSnaps
      <3>7. Fits(a, len) /\ Fits(b, len)
        BY <3>6 DEF Fits
      <3> QED BY <3>2, <3>5, <3>6, <3>7
    <2> QED BY <2>2, <2>3
  <1> QED BY <1>1, <1>2, <1>3

\* Both parts hold what the whole did, the first of them for the first tokens alone.
LEMMA SplitKVHolds ==
  ASSUME NEW k \in KVSnaps, NEW buf, NEW w \in Words, Holding(buf, k, w), NEW v \in Words, NEW at \in Nat,
         Len(v) = at, Agree(v, w, at)
  PROVE  Holding(buf, SplitKV(k, at)[1], v) /\ Holding(buf, SplitKV(k, at)[2], w)
  <1>1. CASE k = None \/ at <= k.from
    <2>1. SplitKV(k, at) = <<None, k>>
      BY <1>1 DEF SplitKV
    <2> QED BY <2>1 DEF Holding
  <1>2. CASE ~(k = None \/ at <= k.from) /\ at >= k.to
    <2>1. SplitKV(k, at) = <<k, None>>
      BY <1>2 DEF SplitKV
    <2>2. k # None /\ k.to <= at
      BY <1>2 DEF KVSnaps
    <2>3. Holding(buf, k, v)
      BY <2>2, HoldingOn
    <2> QED BY <2>1, <2>3 DEF Holding
  <1>3. CASE ~(k = None \/ at <= k.from) /\ ~(at >= k.to)
    <2>1. /\ k.from \in Nat /\ k.to \in Nat /\ k.from < at /\ at < k.to /\ k.data \in Seq(Words)
      BY <1>3 DEF KVSnaps
    <2>2. \A i \in k.from + 1 .. k.to : i <= Len(w) /\ SlotOf(buf, k, i) = SubSeq(w, 1, i)
      BY <1>3 DEF Holding
    <2>3. \A i \in k.from + 1 .. at : i \in k.from + 1 .. k.to /\ i <= at /\ i \in 0 .. at
      BY <2>1
    <2>4. \A i \in at + 1 .. k.to : i \in k.from + 1 .. k.to
      BY <2>1
    <2>5. \A i \in k.from + 1 .. at : SubSeq(v, 1, i) = SubSeq(w, 1, i)
      BY <2>3, AgreeFirst DEF Words
    <2>6. CASE k.lazy
      <3>1. PICK a, b : a = Lazy(k.from, at) /\ b = Lazy(at, k.to)
        OBVIOUS
      <3>2. SplitKV(k, at) = <<a, b>>
        BY <1>3, <2>6, <3>1 DEF SplitKV
      <3>3. a.from = k.from /\ a.to = at /\ a.lazy = TRUE /\ b.from = at /\ b.to = k.to /\ b.lazy = TRUE
        BY <3>1 DEF Lazy
      <3>4. \A i \in k.from + 1 .. k.to : buf[i] = SubSeq(w, 1, i)
        BY <2>2, <2>6 DEF SlotOf
      <3>5. Holding(buf, a, v)
        <4>1. \A i \in k.from + 1 .. at : i <= Len(v) /\ buf[i] = SubSeq(v, 1, i)
          BY <2>3, <2>5, <3>4
        <4> QED BY <3>3, <4>1 DEF Holding, SlotOf
      <3>6. Holding(buf, b, w)
        <4>1. \A i \in at + 1 .. k.to : i <= Len(w) /\ buf[i] = SubSeq(w, 1, i)
          BY <2>2, <2>4, <3>4
        <4> QED BY <3>3, <4>1 DEF Holding, SlotOf
      <3> QED BY <3>2, <3>5, <3>6
    <2>7. CASE ~k.lazy
      <3>1. PICK p, q : p = Slice(k.data, 0, at - k.from) /\ q = Slice(k.data, at - k.from, k.to - k.from)
        OBVIOUS
      <3>2. PICK a, b : a = Owned(k.from, at, p) /\ b = Owned(at, k.to, q)
        OBVIOUS
      <3>3. SplitKV(k, at) = <<a, b>>
        BY <1>3, <2>7, <3>1, <3>2 DEF SplitKV
      <3>4. /\ a.from = k.from /\ a.to = at /\ a.lazy = FALSE /\ a.data = p
            /\ b.from = at /\ b.to = k.to /\ b.lazy = FALSE /\ b.data = q
        BY <3>2 DEF Owned
      <3>5. PICK x, y : x = at - k.from /\ y = k.to - k.from
        OBVIOUS
      <3>6. x \in Nat /\ y \in Nat /\ x < y /\ Len(k.data) = y
        BY <1>3, <2>1, <2>7, <3>5 DEF Holding
      <3>7. p = SubSeq(k.data, 1, x) /\ q = SubSeq(k.data, x + 1, y)
        <4>1. Min({x, y}) = x /\ Min({y, y}) = y
          BY <3>6, MinTwo
        <4>2. 0 + 1 = 1
          OBVIOUS
        <4>3. p = SubSeq(k.data, 0 + 1, Min({x, Len(k.data)})) /\ q = SubSeq(k.data, x + 1, Min({y, Len(k.data)}))
          BY <3>1, <3>5 DEF Slice
        <4> QED BY <3>6, <4>1, <4>2, <4>3
      <3>8. x \in 0 .. Len(k.data) /\ y \in x .. Len(k.data)
        BY <3>6
      <3>9. Len(p) = x /\ \A j \in 1 .. x : p[j] = k.data[j]
        BY <2>1, <3>7, <3>8, FirstEntries
      <3>10. Len(q) = y - x /\ \A j \in 1 .. y - x : q[j] = k.data[x + j]
        BY <2>1, <3>7, <3>8, LastEntries
      <3>11. \A i \in k.from + 1 .. k.to : k.data[i - k.from] = SubSeq(w, 1, i)
        BY <2>2, <2>7 DEF SlotOf
      <3>12. Holding(buf, a, v)
        <4>1. ASSUME NEW i \in k.from + 1 .. at PROVE i <= Len(v) /\ p[i - k.from] = SubSeq(v, 1, i)
          <5>1. i - k.from \in 1 .. x
            BY <2>1, <3>5
          <5> QED BY <2>3, <2>5, <3>9, <3>11, <5>1
        <4> QED BY <3>4, <3>5, <3>9, <4>1 DEF Holding, SlotOf
      <3>13. Holding(buf, b, w)
        <4>1. ASSUME NEW i \in at + 1 .. k.to PROVE i <= Len(w) /\ q[i - at] = SubSeq(w, 1, i)
          <5>1. i - at \in 1 .. y - x /\ x + (i - at) = i - k.from
            BY <2>1, <3>5
          <5>2. q[i - at] = k.data[i - k.from]
            BY <3>10, <5>1
          <5> QED BY <2>2, <2>4, <3>11, <5>2
        <4>2. y - x = k.to - at
          BY <2>1, <3>5
        <4> QED BY <3>4, <3>10, <4>1, <4>2 DEF Holding, SlotOf
      <3> QED BY <3>3, <3>12, <3>13
    <2> QED BY <2>6, <2>7
  <1> QED BY <1>1, <1>2, <1>3

\* A node was split: the new one stands for the first tokens of its edge.
SplitTo(c, s, n, at, d, r, new) ==
    /\ Sound(d, r) /\ Apart(c, d) /\ d.path = c.path /\ Bears(c, s, d, r)
    /\ new = Fresh(c.trie) /\ new \in Nat /\ new \notin DOMAIN c.trie
    /\ DOMAIN d.trie = DOMAIN c.trie \cup {new}
    /\ \A m \in DOMAIN c.trie : r[m] = s[m]
    /\ d.trie[new].parent = c.trie[n].parent /\ d.trie[new].end = Start(c.trie[n]) + at
    /\ d.trie[n].parent = new /\ d.trie[n].tokens = SubSeq(c.trie[n].tokens, at + 1, Len(c.trie[n].tokens))
    /\ \A m \in DOMAIN c.trie \ {n} : Alike(d.trie[m], c.trie[m])

\* splitNode: the new node takes a part of the snapshots too.
LEMMA SplitNodeSound ==
  ASSUME NEW c, NEW s, Sound(c, s), NEW n \in DOMAIN c.trie, n # Root, Walks(c.trie, c.path), OffPath(c, n),
         NEW at \in Nat, 0 < at, at < Len(c.trie[n].tokens)
  PROVE  \E r, new : SplitTo(c, s, n, at, SplitNode(c, n, at), r, new)
  <1> DEFINE t == c.trie
             one == SubSeq(t[n].tokens, 1, at)
             two == SubSeq(t[n].tokens, at + 1, Len(t[n].tokens))
  <1>1. Tree(t, s) /\ c.path[1] = Root /\ c \in Caches
    BY DEF Sound
  <1>2. PICK new : new = Fresh(t)
    OBVIOUS
  <1>3. new \in Nat /\ new \notin DOMAIN t
    BY <1>1, <1>2, FreshIs
  <1>4. PICK q : Edge(t, s, n, q)
    BY <1>1, EdgeFacts
  <1>5. /\ q \in DOMAIN t /\ q = t[n].parent /\ Start(t[n]) = t[q].end /\ q \in Nat
        /\ t[q].end \in Nat /\ s[q] \in Words /\ t[n].tokens \in Words /\ Len(t[n].tokens) \in Nat
        /\ t[n] \in Node
    <2>1. q \in DOMAIN t /\ q = t[n].parent /\ Start(t[n]) = t[q].end /\ q \in Nat
      BY <1>4 DEF Edge
    <2> QED BY <1>1, <2>1, TreeFacts
  <1>6. /\ one \in Words /\ two \in Words /\ one # <<>> /\ two # <<>> /\ Len(one) = at
        /\ one \o two = t[n].tokens
    <2>1. PICK w : w = t[n].tokens
      OBVIOUS
    <2>2. w \in Seq(Tokens) /\ Len(w) \in Nat
      BY <1>5, <2>1 DEF Words
    <2>3. at \in 0 .. Len(w) /\ Len(w) \in at .. Len(w)
      BY <1>5, <2>1, <2>2
    <2>4. /\ SubSeq(w, 1, at) \in Seq(Tokens) /\ Len(SubSeq(w, 1, at)) = at
      BY <2>2, <2>3, FirstEntries
    <2>5. /\ SubSeq(w, at + 1, Len(w)) \in Seq(Tokens) /\ Len(SubSeq(w, at + 1, Len(w))) = Len(w) - at
      BY <2>2, <2>3, LastEntries
    <2>6. SubSeq(w, 1, at) \o SubSeq(w, at + 1, Len(w)) = w
      <3>1. 1 \in 1 .. Len(w) + 1 /\ at \in 1 - 1 .. Len(w) /\ Len(w) \in at .. Len(w)
        BY <2>2, <2>3
      <3>2. SubSeq(w, 1, at) \o SubSeq(w, at + 1, Len(w)) = SubSeq(w, 1, Len(w))
        BY <2>2, <3>1, ConcatAdjacentSubSeq
      <3>3. SubSeq(w, 1, Len(w)) = w
        BY <2>2, SubSeqFull
      <3> QED BY <3>2, <3>3
    <2>7. Len(w) - at # 0 /\ at # 0
      BY <2>1, <2>2
    <2>8. SubSeq(w, 1, at) # <<>> /\ SubSeq(w, at + 1, Len(w)) # <<>>
      BY <2>4, <2>5, <2>7, EmptySeq
    <2> QED BY <2>1, <2>4, <2>5, <2>6, <2>8 DEF Words
  <1> HIDE DEF one, two
  <1>7. PICK end : end = Start(t[n]) + at /\ end \in Nat
    BY <1>5
  <1>8. PICK b : b = SetSnapshots(c, n, NoSnapshots)
    OBVIOUS
  <1>9. /\ Sound(b, s) /\ b.path = c.path /\ Apart(c, b) /\ DOMAIN b.trie = DOMAIN t
        /\ b.trie[n].kv = None /\ b.trie[n].rec = None
        /\ SameNodes(t, b.trie)
    BY <1>8, BareSound DEF SnapshotsSet
  <1> DEFINE x == NewNode(one, end, t[n].parent)
             y == [[b.trie[n] EXCEPT !.tokens = two] EXCEPT !.parent = new]
             u == [m \in DOMAIN t \cup {new} |-> IF m = new THEN x ELSE IF m = n THEN y ELSE b.trie[m]]
             r == [m \in DOMAIN t \cup {new} |-> IF m = new THEN s[q] \o one ELSE s[m]]
  <1>10. /\ x \in Node /\ x.tokens = one /\ x.end = end /\ x.parent = q /\ x.kv = None /\ x.rec = None
    BY <1>5, <1>6, <1>7 DEF NewNode, Node, KVSnaps, RecSnaps
  <1>11. /\ y \in Node /\ y.tokens = two /\ y.end = t[n].end /\ y.parent = new /\ y.kv = None /\ y.rec = None
    <2>1. b.trie[n] \in Node /\ b.trie[n].end = t[n].end
      <3>1. Tree(b.trie, s)
        BY <1>9 DEF Sound
      <3>2. b.trie[n] \in Node
        BY <1>9, <3>1, TreeFacts
      <3> QED BY <1>9, <3>2 DEF SameNodes
    <2>2. PICK f : f = b.trie[n]
      OBVIOUS
    <2>3. PICK g : g = [[f EXCEPT !.tokens = two] EXCEPT !.parent = new]
      OBVIOUS
    <2>4. /\ g \in Node /\ g.tokens = two /\ g.end = f.end /\ g.parent = new /\ g.kv = f.kv /\ g.rec = f.rec
      BY <1>3, <1>6, <2>1, <2>2, <2>3 DEF Node
    <2> QED BY <1>9, <2>1, <2>2, <2>3, <2>4
  <1>12. \A m \in DOMAIN t : /\ b.trie[m] \in Node /\ b.trie[m].tokens = t[m].tokens /\ b.trie[m].end = t[m].end
                             /\ b.trie[m].parent = t[m].parent /\ s[m] \in Words
    <2>1. Tree(b.trie, s)
      BY <1>9 DEF Sound
    <2>2. \A m \in DOMAIN t : b.trie[m] \in Node /\ s[m] \in Words
      BY <1>9, <2>1, TreeFacts
    <2> QED BY <1>9, <2>2 DEF SameNodes
  <1> HIDE DEF x
  <1>13. SplitNode(c, n, at) = SetSnapshots(SetSnapshots([b EXCEPT !.trie = u], new,
                                   [kv |-> SplitKV(t[n].kv, end)[1], rec |-> None]),
                                   n, [kv |-> SplitKV(t[n].kv, end)[2], rec |-> t[n].rec])
    <2> DEFINE v == [m \in DOMAIN b.trie \cup {new} |-> IF m = new THEN x ELSE b.trie[m]]
    <2>1. PICK a : a = AddNode(b, new, x)
      OBVIOUS
    <2>2. a = [b EXCEPT !.trie = v]
      BY <2>1 DEF AddNode
    <2>3. [a EXCEPT !.trie[n].tokens = two, !.trie[n].parent = new] = [b EXCEPT !.trie = u]
      <3>1. a.trie = v /\ a \in [{"trie", "path", "kv", "rec", "paged", "rows", "base"} -> {a[h] : h \in {"trie", "path", "kv", "rec", "paged", "rows", "base"}}]
        <4>1. b \in Caches
          BY <1>9 DEF Sound
        <4> HIDE DEF v
        <4> QED BY <2>2, <4>1 DEF Caches
      <3>2. v[n] = b.trie[n] /\ n \in DOMAIN v /\ n # new
        BY <1>3, <1>9
      <3>3. u = [[v EXCEPT ![n] = [v[n] EXCEPT !.tokens = two]] EXCEPT ![n] = [[v[n] EXCEPT !.tokens = two] EXCEPT !.parent = new]]
        <4> HIDE DEF y
        <4>1. y = [[v[n] EXCEPT !.tokens = two] EXCEPT !.parent = new]
          BY <3>2 DEF y
        <4>2. u = [v EXCEPT ![n] = y]
          BY <1>9, <3>2
        <4>3. \A z : [[v EXCEPT ![n] = z] EXCEPT ![n] = y] = [v EXCEPT ![n] = y]
          OBVIOUS
        <4> QED BY <4>1, <4>2, <4>3
      <3> HIDE DEF u, v
      <3> QED BY <2>2, <3>1, <3>2, <3>3
    <2>4. PICK g : g = SplitKV(t[n].kv, end)
      OBVIOUS
    <2> HIDE DEF u, v, y
    <2> QED BY <1>2, <1>7, <1>8, <2>1, <2>3, <2>4 DEF SplitNode, x, one, two
  <1>14. /\ DOMAIN u = DOMAIN t \cup {new} /\ u[new] = x /\ u[n] = y /\ r[new] = s[q] \o one /\ new # n
         /\ \A m \in DOMAIN t \ {n} : u[m] = b.trie[m]
         /\ \A m \in DOMAIN t : r[m] = s[m]
    BY <1>3
  <1> HIDE DEF y
  <1>15. u \in [DOMAIN u -> Node] /\ r \in [DOMAIN u -> Words]
    <2>1. s[q] \o one \in Words
      BY <1>5, <1>6, ConcatProperties DEF Words
    <2>2. \A m \in DOMAIN t \cup {new} : (IF m = new THEN x ELSE IF m = n THEN y ELSE b.trie[m]) \in Node
      BY <1>10, <1>11, <1>12
    <2>3. \A m \in DOMAIN t \cup {new} : (IF m = new THEN s[q] \o one ELSE s[m]) \in Words
      BY <1>12, <2>1
    <2> QED BY <1>14, <2>2, <2>3
  <1>16. PICK e : e = [b EXCEPT !.trie = u]
    OBVIOUS
  <1> HIDE DEF u, r
  <1>17. Reshapes(b, e) /\ e.trie = u /\ e.path = c.path
    <2>1. b \in Caches
      BY <1>9 DEF Sound
    <2>2. e.trie = u /\ e.path = b.path
      BY <1>16, <2>1 DEF Caches
    <2>3. Reshapes(b, e)
      BY <1>16, <2>1, <2>2 DEF Caches, Reshapes
    <2> QED BY <1>9, <2>2, <2>3
  <1>18. Tree(u, r)
    <2>1. \A m \in DOMAIN t \ {n} : Alike(u[m], t[m])
      BY <1>12, <1>14 DEF Alike
    <2>2. EdgeSplit(t, s, n, new, u, r)
      BY <1>5, <1>6, <1>7, <1>10, <1>11, <1>14, <1>15, <2>1 DEF EdgeSplit
    <2> QED BY <1>1, <1>3, <2>2, EdgeSplitTree
  <1>19. /\ Len(c.path) \in Nat /\ Len(c.path) >= 1
         /\ \A i \in 1 .. Len(c.path) : c.path[i] \in DOMAIN t
    BY <1>1, WalkFacts
  <1>20. Walks(u, c.path)
    <2>1. \A i \in 1 .. Len(c.path) : c.path[i] \in DOMAIN u
      BY <1>14, <1>19
    <2>2. ASSUME NEW i \in 2 .. Len(c.path) PROVE u[c.path[i]].parent = t[c.path[i]].parent
      <3>1. i \in 1 .. Len(c.path)
        BY <1>19
      <3>2. c.path[i] \in DOMAIN t \ {n}
        BY <1>19, <3>1 DEF OffPath
      <3> QED BY <1>12, <1>14, <3>2
    <2> QED BY <2>1, <2>2, WalksOn
  <1>21. \A m \in DOMAIN t : u[m].kv = b.trie[m].kv /\ u[m].rec = b.trie[m].rec
    BY <1>9, <1>11, <1>14
  <1>22. Paid(u) = Paid(b.trie)
    <2>1. Bytes(u[new]) = 0
      BY <1>10, <1>14 DEF Bytes, KVBytes
    <2>2. Tree(b.trie, s)
      BY <1>9 DEF Sound
    <2> QED BY <1>3, <1>9, <1>14, <1>18, <1>21, <2>1, <2>2, PaidBare
  <1>23. HeldWell(b, e, r)
    <2>1. ASSUME NEW m \in DOMAIN u PROVE Fits(u[m].kv, Len(b.kv.buf)) /\ RecOf(u[m].rec, r[m])
      <3>1. CASE m = new
        BY <1>10, <1>14, <3>1 DEF Fits, RecOf
      <3>2. CASE m # new
        <4>1. m \in DOMAIN b.trie /\ m \in DOMAIN t
          BY <1>9, <1>14, <3>2
        <4>2. Fits(b.trie[m].kv, Len(b.kv.buf)) /\ RecOf(b.trie[m].rec, s[m])
          BY <1>9, <4>1 DEF Sound
        <4> QED BY <1>14, <1>21, <4>1, <4>2
      <3> QED BY <3>1, <3>2
    <2> QED BY <1>17, <2>1 DEF HeldWell
  <1>24. Sound(e, r) /\ Apart(b, e)
    <2>1. Walks(e.trie, e.path) /\ e.path[1] = Root /\ Tree(e.trie, r) /\ Paid(e.trie) = Paid(b.trie)
      BY <1>1, <1>17, <1>18, <1>20, <1>22
    <2> QED BY <1>9, <1>17, <1>23, <2>1, Reshape
  <1>25. PICK k : k = SplitKV(t[n].kv, end)
    OBVIOUS
  <1>26. /\ k[1] \in KVSnaps /\ Fits(k[1], Len(c.kv.buf)) /\ k[2] \in KVSnaps /\ Fits(k[2], Len(c.kv.buf))
         /\ t[n].rec \in RecSnaps /\ RecOf(t[n].rec, s[n]) /\ None \in RecSnaps
    <2>1. t[n].kv \in KVSnaps /\ t[n].rec \in RecSnaps
      BY <1>1, NodeBytes
    <2>2. Fits(t[n].kv, Len(c.kv.buf)) /\ RecOf(t[n].rec, s[n])
      BY DEF Sound
    <2>3. Len(c.kv.buf) \in Nat
      <3>1. c.kv.buf \in Seq(Words)
        BY <1>1 DEF Caches, KVs
      <3> QED BY <3>1, LenProperties
    <2>4. PICK w : w = t[n].kv
      OBVIOUS
    <2>5. /\ SplitKV(w, end)[1] \in KVSnaps /\ Fits(SplitKV(w, end)[1], Len(c.kv.buf))
          /\ SplitKV(w, end)[2] \in KVSnaps /\ Fits(SplitKV(w, end)[2], Len(c.kv.buf))
      BY <1>7, <2>1, <2>2, <2>3, <2>4, SplitKVIs
    <2> QED BY <1>25, <2>1, <2>2, <2>4, <2>5 DEF RecSnaps
  <1>27. e.kv = c.kv
    BY <1>9, <1>24 DEF Apart
  <1>28. PICK a, z : a = [kv |-> k[1], rec |-> None] /\ z = [kv |-> k[2], rec |-> t[n].rec]
    OBVIOUS
  <1>29. PICK g : g = SetSnapshots(e, new, a)
    OBVIOUS
  <1>30. /\ new \in DOMAIN e.trie /\ a.kv \in KVSnaps /\ a.rec \in RecSnaps /\ Fits(a.kv, Len(e.kv.buf))
         /\ RecOf(a.rec, r[new]) /\ e \in Caches /\ Tree(e.trie, r)
    BY <1>14, <1>17, <1>24, <1>26, <1>27, <1>28 DEF RecOf, Sound
  <1>31. Sound(g, r) /\ SnapshotsSet(e, new, a, g)
    BY <1>24, <1>29, <1>30, SnapshotsSound, SnapshotsFields
  <1>32. g.path = e.path /\ Apart(e, g) /\ SameNodes(u, g.trie)
    BY <1>17, <1>31 DEF SnapshotsSet
  <1>33. PICK d : d = SetSnapshots(g, n, z)
    OBVIOUS
  <1>34. /\ n \in DOMAIN g.trie /\ z.kv \in KVSnaps /\ z.rec \in RecSnaps /\ Fits(z.kv, Len(g.kv.buf))
         /\ RecOf(z.rec, r[n]) /\ g \in Caches /\ Tree(g.trie, r)
    <2>1. n \in DOMAIN g.trie /\ g.kv = c.kv
      BY <1>14, <1>27, <1>32 DEF Apart, SameNodes
    <2> QED BY <1>14, <1>26, <1>28, <1>31, <2>1 DEF Sound
  <1>35. Sound(d, r) /\ SnapshotsSet(g, n, z, d)
    BY <1>31, <1>33, <1>34, SnapshotsSound, SnapshotsFields
  <1>36. d.path = g.path /\ Apart(g, d) /\ SameNodes(g.trie, d.trie)
    BY <1>35 DEF SnapshotsSet
  <1>37. SplitNode(c, n, at) = d
    BY <1>13, <1>16, <1>25, <1>28, <1>29, <1>33
  <1>38. d.path = c.path /\ Apart(c, d)
    BY <1>9, <1>17, <1>24, <1>32, <1>36 DEF Apart
  <1>39. /\ DOMAIN d.trie = DOMAIN u
         /\ \A m \in DOMAIN u : /\ d.trie[m].tokens = u[m].tokens /\ d.trie[m].end = u[m].end
                                /\ d.trie[m].parent = u[m].parent
    BY <1>32, <1>36 DEF SameNodes
  <1>40. /\ d.trie[new].parent = t[n].parent /\ d.trie[new].end = Start(t[n]) + at
         /\ d.trie[n].parent = new /\ d.trie[n].tokens = SubSeq(t[n].tokens, at + 1, Len(t[n].tokens))
    <2>1. new \in DOMAIN u /\ n \in DOMAIN u
      BY <1>14
    <2> QED BY <1>5, <1>7, <1>10, <1>11, <1>14, <1>39, <2>1 DEF two
  <1>41. \A m \in DOMAIN t \ {n} : Alike(d.trie[m], t[m])
    BY <1>12, <1>14, <1>39 DEF Alike
  <1>42. ASSUME Faithful(c, s), NEW m \in DOMAIN d.trie
         PROVE  Holding(d.kv.buf, d.trie[m].kv, r[m])
    <2>1. d.kv = c.kv /\ n # new /\ m \in DOMAIN u
      BY <1>3, <1>38, <1>39, <1>42 DEF Apart
    <2>2. \A h \in DOMAIN t : Holding(c.kv.buf, t[h].kv, s[h]) /\ t[h].kv \in KVSnaps /\ s[h] \in Words
      BY <1>1, <1>42, NodeBytes, TreeFacts DEF Faithful
    <2>3. d.trie[new].kv = k[1] /\ d.trie[n].kv = k[2]
      <3>1. d.trie[new] = g.trie[new]
        <4>1. new \in DOMAIN g.trie \ {n}
          BY <1>14, <1>32, <2>1 DEF SameNodes
        <4> QED BY <1>35, <4>1 DEF SnapshotsSet
      <3>2. g.trie[new].kv = k[1]
        BY <1>28, <1>31 DEF SnapshotsSet
      <3>3. d.trie[n].kv = k[2]
        BY <1>28, <1>35 DEF SnapshotsSet
      <3> QED BY <3>1, <3>2, <3>3
    <2>4. Holding(c.kv.buf, k[1], r[new]) /\ Holding(c.kv.buf, k[2], s[n])
      <3>1. r[new] \in Words /\ Len(r[new]) = end
        <4>1. r[new] \in Words /\ Len(r[new]) = u[new].end
          <5>1. new \in DOMAIN u
            BY <1>14
          <5> QED BY <1>18, <5>1, TreeFacts
        <4> QED BY <1>10, <1>14, <4>1
      <3>2. Agree(r[new], s[n], end)
        <4>1. PICK h : Edge(u, r, n, h)
          BY <1>14, <1>18, EdgeFacts
        <4>2. h = new /\ Agree(r[n], r[h], u[h].end)
          BY <1>11, <1>14, <4>1 DEF Edge
        <4>3. Agree(s[n], r[new], end)
          BY <1>10, <1>14, <4>2
        <4>4. end <= end
          BY <1>7
        <4> QED BY <1>7, <2>2, <3>1, <4>3, <4>4, AgreeLess DEF Words
      <3>3. PICK h, w, v : h = t[n].kv /\ w = s[n] /\ v = r[new]
        OBVIOUS
      <3>4. Holding(c.kv.buf, SplitKV(h, end)[1], v) /\ Holding(c.kv.buf, SplitKV(h, end)[2], w)
        BY <1>7, <2>2, <3>1, <3>2, <3>3, SplitKVHolds
      <3> QED BY <1>25, <3>3, <3>4
    <2>5. CASE m = new
      BY <2>1, <2>3, <2>4, <2>5
    <2>6. CASE m = n
      BY <1>14, <2>1, <2>3, <2>4, <2>6
    <2>7. CASE m # new /\ m # n
      <3>1. m \in DOMAIN t /\ r[m] = s[m]
        BY <1>14, <2>1, <2>7
      <3>2. b.trie[m] = t[m]
        BY <1>8, <2>7, <3>1, BareSound DEF SnapshotsSet
      <3>3. d.trie[m] = g.trie[m] /\ g.trie[m] = u[m]
        BY <1>17, <1>31, <1>32, <1>35, <2>1, <2>7 DEF SnapshotsSet, SameNodes
      <3> QED BY <1>21, <2>1, <2>2, <3>1, <3>2, <3>3
    <2> QED BY <2>5, <2>6, <2>7
  <1>43. Bears(c, s, d, r)
    BY <1>42 DEF Bears, Faithful
  <1>44. SplitTo(c, s, n, at, d, r, new)
    BY <1>2, <1>3, <1>14, <1>35, <1>38, <1>39, <1>40, <1>41, <1>43 DEF SplitTo
  <1> QED BY <1>37, <1>44

\* What follows a path: nodes walked from its end, the last of them replaced.
Onto(q, dest) == IF Len(q) = 1 THEN <<>> ELSE Front(Tail(q)) \o <<dest>>

\* The nodes that a walk adds to the path.
LEMMA OntoIs ==
  ASSUME NEW D, NEW q \in Seq(D), q # <<>>, NEW E, NEW dest, Len(q) > 1 => dest \in E,
         \A i \in 2 .. Len(q) - 1 : q[i] \in E
  PROVE  /\ Onto(q, dest) \in Seq(E) /\ Len(Onto(q, dest)) = Len(q) - 1 /\ Len(q) \in Nat /\ Len(q) >= 1
         /\ \A i \in 1 .. Len(q) - 2 : Onto(q, dest)[i] = q[i + 1]
         /\ Len(q) > 1 => Onto(q, dest)[Len(q) - 1] = dest
  <1>1. Len(q) \in Nat /\ Len(q) >= 1
    BY EmptySeq, LenProperties
  <1>2. CASE Len(q) = 1
    <2>1. Onto(q, dest) = <<>>
      BY <1>2 DEF Onto
    <2>2. <<>> \in Seq(E) /\ Len(<<>>) = 0
      BY EmptySeq
    <2> QED BY <1>2, <2>1, <2>2
  <1>3. CASE Len(q) > 1
    <2>1. PICK t : t = Tail(q)
      OBVIOUS
    <2>2. t \in Seq(D) /\ Len(t) = Len(q) - 1 /\ \A i \in 1 .. Len(t) : t[i] = q[i + 1]
      BY <2>1, HeadTailProperties
    <2>3. PICK f : f = SubSeq(t, 1, Len(t) - 1)
      OBVIOUS
    <2>4. /\ f \in Seq(E) /\ Len(f) = Len(q) - 2
          /\ \A i \in 1 .. Len(f) : f[i] = q[i + 1]
      <3>1. PICK k \in 0 .. Len(t) : k = Len(t) - 1 /\ k = Len(q) - 2
        <4>1. Len(t) - 1 \in 0 .. Len(t) /\ Len(t) - 1 = Len(q) - 2
          BY <1>1, <1>3, <2>2
        <4> QED BY <4>1
      <3>2. Len(f) = k /\ f \in Seq(D) /\ \A i \in 1 .. k : f[i] = t[i]
        BY <2>2, <2>3, <3>1, FirstEntries
      <3>3. \A i \in 1 .. k : i \in 1 .. Len(t) /\ i + 1 \in 2 .. Len(q) - 1
        BY <1>1, <2>2, <3>1
      <3>4. \A i \in 1 .. k : f[i] = q[i + 1] /\ f[i] \in E
        BY <2>2, <3>2, <3>3
      <3>5. f \in Seq(E)
        <4>1. f \in [1 .. k -> E]
          BY <3>2, <3>4, LenProperties
        <4>2. k \in Nat
          BY <2>2, <3>1
        <4> QED BY <4>1, <4>2, SeqDef
      <3> QED BY <3>1, <3>2, <3>4, <3>5
    <2>5. Onto(q, dest) = Append(f, dest)
      <3>1. dest \in E
        BY <1>3
      <3>2. f \o <<dest>> = Append(f, dest)
        BY <2>4, <3>1, AppendIsConcat
      <3> QED BY <1>3, <2>1, <2>3, <3>2 DEF Onto, Front
    <2>6. /\ Append(f, dest) \in Seq(E) /\ Len(Append(f, dest)) = Len(f) + 1
          /\ Append(f, dest)[Len(f) + 1] = dest
          /\ \A i \in 1 .. Len(f) : Append(f, dest)[i] = f[i]
      BY <1>3, <2>4, AppendFacts
    <2>7. PICK z : z = Append(f, dest)
      OBVIOUS
    <2>8. /\ z \in Seq(E) /\ Len(z) = Len(q) - 1 /\ z[Len(f) + 1] = dest /\ Len(f) + 1 = Len(q) - 1
          /\ \A i \in 1 .. Len(q) - 2 : z[i] = q[i + 1]
      BY <1>1, <2>4, <2>6, <2>7
    <2> QED BY <1>1, <2>5, <2>7, <2>8
  <1>4. Len(q) = 1 \/ Len(q) > 1
    <2>1. \A k \in Nat : k >= 1 => k = 1 \/ k > 1
      OBVIOUS
    <2> QED BY <1>1, <2>1
  <1> QED BY <1>2, <1>3, <1>4

Onward(u, p, D, q, dest) ==
    /\ Walks(u, p) /\ q \in Seq(D) /\ q # <<>> /\ q[1] = Last(p)
    /\ \A i \in 2 .. Len(q) - 1 : q[i] \in DOMAIN u /\ u[q[i]].parent = q[i - 1]
    /\ Len(q) > 1 => dest \in DOMAIN u /\ u[dest].parent = q[Len(q) - 1]

Led(u, p, path, dest) == Walks(u, path) /\ path[1] = p[1] /\ Last(path) = dest

\* A path, and a walk on from its end, are a path.
LEMMA WalksOnto ==
  ASSUME NEW u, NEW p, NEW D, NEW q, NEW dest, Onward(u, p, D, q, dest)
  PROVE  Led(u, p, p \o Onto(q, dest), IF Len(q) > 1 THEN dest ELSE Last(p))
  <1> USE DEF Onward
  <1>1. /\ p \in Seq(DOMAIN u) /\ p # <<>> /\ \A i \in 2 .. Len(p) : u[p[i]].parent = p[i - 1]
    BY DEF Walks
  <1>2. Len(p) \in Nat /\ Len(p) >= 1 /\ Last(p) = p[Len(p)]
    BY <1>1, EmptySeq, LenProperties DEF Last
  <1>3. PICK z : z = Onto(q, dest)
    OBVIOUS
  <1>4. /\ z \in Seq(DOMAIN u) /\ Len(z) = Len(q) - 1 /\ Len(q) \in Nat /\ Len(q) >= 1
        /\ \A i \in 1 .. Len(q) - 2 : z[i] = q[i + 1]
        /\ Len(q) > 1 => z[Len(q) - 1] = dest
    <2>1. Len(q) > 1 => dest \in DOMAIN u
      OBVIOUS
    <2>2. \A i \in 2 .. Len(q) - 1 : q[i] \in DOMAIN u
      OBVIOUS
    <2> QED BY <1>3, <2>1, <2>2, OntoIs, ZenonT(60)
  <1>5. PICK w : w = p \o z
    OBVIOUS
  <1>6. /\ w \in Seq(DOMAIN u) /\ Len(w) = Len(p) + Len(z)
        /\ \A i \in 1 .. Len(p) : w[i] = p[i]
        /\ \A i \in 1 .. Len(z) : w[Len(p) + i] = z[i]
    <2>1. /\ p \o z \in Seq(DOMAIN u) /\ Len(p \o z) = Len(p) + Len(z) /\ Agree(p \o z, p, Len(p))
          /\ \A i \in 1 .. Len(z) : (p \o z)[Len(p) + i] = z[i]
      <3>1. PICK E : E = DOMAIN u
        OBVIOUS
      <3>2. p \in Seq(E) /\ z \in Seq(E)
        BY <1>1, <1>4, <3>1
      <3> QED BY <3>1, <3>2, AgreeConcat
    <2> QED BY <1>5, <2>1 DEF Agree
  <1>7. w[1] = p[1] /\ w # <<>>
    <2>1. 1 \in 1 .. Len(p) /\ Len(w) # 0
      BY <1>2, <1>4, <1>6
    <2> QED BY <1>6, <2>1, EmptySeq
  <1>8. ASSUME NEW i \in 2 .. Len(w) PROVE u[w[i]].parent = w[i - 1]
    <2>1. CASE i <= Len(p)
      <3>1. i \in 1 .. Len(p) /\ i \in 2 .. Len(p) /\ i - 1 \in 1 .. Len(p)
        BY <1>2, <1>6, <2>1
      <3> QED BY <1>1, <1>6, <3>1
    <2>2. CASE i > Len(p)
      <3>1. PICK j \in 1 .. Len(z) : i = Len(p) + j
        <4>1. i - Len(p) \in 1 .. Len(z) /\ i = Len(p) + (i - Len(p))
          BY <1>2, <1>4, <1>6, <2>2
        <4> QED BY <4>1
      <3>2. w[i] = z[j]
        BY <1>6, <3>1
      <3>3. w[i - 1] = q[j]
        <4>1. CASE j = 1
          <5>1. i - 1 = Len(p) /\ Len(p) \in 1 .. Len(p)
            BY <1>2, <3>1, <4>1
          <5> QED BY <1>2, <1>6, <4>1, <5>1
        <4>2. CASE j # 1
          <5>1. PICK h \in 1 .. Len(z) : h = j - 1 /\ i - 1 = Len(p) + h /\ h + 1 = j /\ h \in 1 .. Len(q) - 2
            BY <1>2, <1>4, <3>1, <4>2
          <5>2. w[Len(p) + h] = z[h] /\ z[h] = q[h + 1]
            BY <1>4, <1>6, <5>1
          <5> QED BY <5>1, <5>2
        <4> QED BY <4>1, <4>2
      <3>4. u[z[j]].parent = q[j]
        <4>1. CASE j = Len(q) - 1
          <5>1. Len(q) > 1 /\ z[j] = dest
            BY <1>4, <4>1
          <5> QED BY <4>1, <5>1
        <4>2. CASE j # Len(q) - 1
          <5>1. PICK h \in 2 .. Len(q) - 1 : h = j + 1 /\ h - 1 = j
            BY <1>4, <4>2
          <5>2. j \in 1 .. Len(q) - 2
            BY <1>4, <4>2
          <5>3. z[j] = q[h] /\ u[q[h]].parent = q[h - 1]
            BY <1>4, <5>1, <5>2
          <5> QED BY <5>1, <5>3
        <4> QED BY <4>1, <4>2
      <3> QED BY <3>2, <3>3, <3>4
    <2> QED BY <1>2, <1>6, <2>1, <2>2
  <1>9. Last(w) = IF Len(q) > 1 THEN dest ELSE Last(p)
    <2>1. Last(w) = w[Len(w)]
      BY DEF Last
    <2>2. CASE Len(q) > 1
      <3>1. PICK h \in 1 .. Len(z) : h = Len(q) - 1 /\ Len(w) = Len(p) + h
        <4>1. PICK a \in Nat, b \in Nat : a = Len(q) /\ b = Len(z)
          BY <1>4, LenProperties
        <4>2. b = a - 1 /\ a > 1
          BY <1>4, <2>2, <4>1
        <4>3. b \in 1 .. b
          BY <4>1, <4>2
        <4>4. b = Len(q) - 1 /\ Len(w) = Len(p) + b
          BY <1>6, <4>1, <4>2
        <4> QED BY <4>1, <4>3, <4>4
      <3>2. w[Len(p) + h] = z[h] /\ z[h] = dest
        BY <1>4, <1>6, <2>2, <3>1
      <3> QED BY <2>1, <2>2, <3>1, <3>2
    <2>3. CASE ~(Len(q) > 1)
      <3>1. Len(w) = Len(p) /\ Len(p) \in 1 .. Len(p)
        BY <1>2, <1>4, <1>6, <2>3
      <3> QED BY <1>2, <1>6, <2>1, <2>3, <3>1
    <2> QED BY <2>2, <2>3
  <1>10. Walks(u, w)
    BY <1>6, <1>7, <1>8 DEF Walks
  <1>11. Led(u, p, w, IF Len(q) > 1 THEN dest ELSE Last(p))
    BY <1>7, <1>9, <1>10 DEF Led
  <1> QED BY <1>3, <1>5, <1>11

\* A word is what agrees with its start, followed by the rest of it.
LEMMA WholeIs ==
  ASSUME NEW T \in Words, NEW a \in Words, NEW b \in Words, NEW e, Len(a) = e, Agree(a, T, e),
         Len(T) = e + Len(b), \A i \in 1 .. Len(b) : b[i] = T[e + i]
  PROVE  a \o b = T
  <1>1. T \in Seq(Tokens) /\ a \in Seq(Tokens) /\ b \in Seq(Tokens)
    BY DEF Words
  <1>2. Len(a) \in Nat /\ Len(b) \in Nat /\ Len(T) \in Nat
    BY <1>1, LenProperties
  <1>3. PICK w : w = a \o b
    OBVIOUS
  <1>4. /\ w \in Seq(Tokens) /\ Len(w) = Len(a) + Len(b)
        /\ \A i \in 1 .. Len(a) : w[i] = a[i]
        /\ \A i \in 1 .. Len(b) : w[Len(a) + i] = b[i]
    <2>1. /\ a \o b \in Seq(Tokens) /\ Len(a \o b) = Len(a) + Len(b) /\ Agree(a \o b, a, Len(a))
          /\ \A i \in 1 .. Len(b) : (a \o b)[Len(a) + i] = b[i]
      BY <1>1, AgreeConcat, ZenonT(60)
    <2> QED BY <1>3, <2>1 DEF Agree
  <1>5. \A i \in 1 .. Len(a) : a[i] = T[i]
    BY DEF Agree
  <1>6. ASSUME NEW i \in 1 .. Len(w) PROVE w[i] = T[i]
    <2>1. CASE i <= Len(a)
      <3>1. i \in 1 .. Len(a)
        BY <1>2, <1>4, <2>1
      <3> QED BY <1>4, <1>5, <3>1
    <2>2. CASE i > Len(a)
      <3>1. PICK j \in 1 .. Len(b) : i = Len(a) + j
        <4>1. i - Len(a) \in 1 .. Len(b) /\ i = Len(a) + (i - Len(a))
          BY <1>2, <1>4, <2>2
        <4> QED BY <4>1
      <3>2. w[Len(a) + j] = b[j] /\ b[j] = T[e + j]
        BY <1>4, <3>1
      <3> QED BY <3>1, <3>2
    <2> QED BY <1>2, <1>4, <2>1, <2>2
  <1>7. w = T
    <2>1. Len(w) = Len(T)
      BY <1>4
    <2> QED BY <1>1, <1>4, <1>6, <2>1, SeqEqual
  <1> QED BY <1>3, <1>7

\* Only the path is another.
LEMMA PathSet ==
  ASSUME NEW c, NEW s, Sound(c, s), NEW path, Walks(c.trie, path), path[1] = Root
  PROVE  LET d == [c EXCEPT !.path = path]
         IN Sound(d, s) /\ Apart(c, d) /\ d.trie = c.trie /\ d.path = path
  <1>1. c \in Caches /\ Tree(c.trie, s)
    BY DEF Sound
  <1>2. PICK d : d = [c EXCEPT !.path = path]
    OBVIOUS
  <1>3. d.trie = c.trie /\ d.path = path
    BY <1>1, <1>2 DEF Caches
  <1>4. Reshapes(c, d)
    BY <1>1, <1>2, <1>3 DEF Caches, Reshapes
  <1>5. HeldWell(c, d, s)
    BY <1>3 DEF Sound, HeldWell
  <1>6. Sound(d, s) /\ Apart(c, d)
    BY <1>1, <1>3, <1>4, <1>5, Reshape
  <1> QED BY <1>2, <1>3, <1>6

\* w is what findBestMatch finds of the tokens from the end of the path on; T is
\* what they spell with the path.
Finds(c, s, T, keys, w) ==
    LET n == Last(c.path)
    IN /\ GoesOn(c.trie, s, n, T, keys) /\ w.path \in Seq(DOMAIN c.trie)
       /\ Match(c.trie, s, n, T, w) /\ Stuck(c.trie, s, n, T, w)

\* What is left of the tokens.
RestOf(T, e, rest) == /\ rest \in Words /\ Len(T) = e + Len(rest)
                      /\ \A i \in 1 .. Len(rest) : rest[i] = T[e + i]
                      /\ rest # <<>> => Len(rest) >= 1 /\ rest[1] = T[e + 1] /\ e # Len(T)

\* The tokens left after those matched.
LEMMA RestIs ==
  ASSUME NEW T \in Words, NEW keys \in Words, NEW a \in Nat, NEW m \in Nat, Len(T) = a + Len(keys),
         \A i \in 1 .. Len(keys) : T[a + i] = keys[i], a + m <= Len(T)
  PROVE  RestOf(T, a + m, SubSeq(keys, m + 1, Len(keys)))
  <1>1. PICK N \in Nat : N = Len(keys)
    BY LenProperties DEF Words
  <1>2. m \in 0 .. N /\ N \in m .. N /\ N \in 0 .. N
    BY <1>1
  <1>3. PICK r : r = SubSeq(keys, m + 1, N)
    OBVIOUS
  <1>4. r \in Words /\ Len(r) = N - m /\ \A i \in 1 .. N - m : r[i] = keys[m + i]
    BY <1>1, <1>2, <1>3, LastEntries DEF Words
  <1>5. ASSUME NEW i \in 1 .. Len(r) PROVE r[i] = T[(a + m) + i]
    <2>1. PICK j \in 1 .. N : j = m + i /\ a + j = (a + m) + i /\ i \in 1 .. N - m
      <3>1. m + i \in 1 .. N /\ i \in 1 .. N - m /\ a + (m + i) = (a + m) + i
        BY <1>2, <1>4
      <3> QED BY <3>1
    <2> QED BY <1>1, <1>4, <2>1
  <1>6. Len(T) = (a + m) + Len(r)
    BY <1>1, <1>2, <1>4
  <1>7. ASSUME r # <<>> PROVE Len(r) >= 1 /\ r[1] = T[(a + m) + 1] /\ a + m # Len(T)
    <2>1. PICK k \in Nat : k = Len(r)
      BY <1>2, <1>4
    <2>2. k # 0
      BY <1>4, <1>7, <2>1, EmptySeq DEF Words
    <2>3. 1 \in 1 .. k /\ k >= 1 /\ a + m # (a + m) + k
      BY <2>1, <2>2
    <2> QED BY <1>5, <1>6, <2>1, <2>3
  <1> QED BY <1>1, <1>3, <1>4, <1>5, <1>6, <1>7 DEF RestOf

\* The first tokens of a node that agrees with T, and the rest of T.
LEMMA FirstAndRest ==
  ASSUME NEW T \in Words, NEW a \in Words, NEW rest, NEW e, RestOf(T, e, rest), Len(a) = e, Agree(a, T, e)
  PROVE  a \o rest = T
  BY WholeIs DEF RestOf

\* advancePath when the last edge matched in full.
LEMMA AdvanceWhole ==
  ASSUME NEW c, NEW s, Sound(c, s), NEW T, NEW keys, NEW w, Finds(c, s, T, keys, w),
         NEW hit, hit = Last(w.path), NEW e, e = c.trie[Last(c.path)].end + w.matched,
         ~(Len(w.path) > 1 /\ MatchedInPart(c.trie[hit], e - Start(c.trie[hit]))),
         NEW rest, RestOf(T, e, rest)
  PROVE  \E r : Grown(c, s, Extend(Walk(c, w.path, hit), hit, rest, Len(T)), r, T)
  <1> DEFINE t == c.trie
             n == Last(c.path)
             q == w.path
  <1>1. Tree(t, s) /\ Walks(t, c.path) /\ c.path[1] = Root
    BY DEF Sound
  <1>2. /\ Match(t, s, n, T, w) /\ Stuck(t, s, n, T, w) /\ T \in Words
    BY DEF Finds, GoesOn
  <1>3. Walks(t, q) /\ q[1] = n /\ w.matched \in Nat
    BY <1>2 DEF Match
  <1>4. /\ Len(q) \in Nat /\ Len(q) >= 1 /\ q \in Seq(DOMAIN t) /\ q # <<>> /\ hit \in DOMAIN t
        /\ hit = q[Len(q)] /\ \A i \in 1 .. Len(q) : q[i] \in DOMAIN t
    BY <1>1, <1>3, WalkFacts DEF Walks
  <1>5. n \in DOMAIN t
    BY <1>1, WalkFacts
  <1>6. /\ t[n].end \in Nat /\ t[hit].end \in Nat /\ s[hit] \in Words /\ Len(s[hit]) = t[hit].end
        /\ Len(t[hit].tokens) \in Nat
    BY <1>1, <1>4, <1>5, TreeFacts
  <1>7. Agree(s[hit], T, e) /\ e \in Nat
    BY <1>2, <1>3, <1>6 DEF Match
  <1>8. e <= t[hit].end
    BY <1>6, <1>7 DEF Agree
  <1>9. e = t[hit].end
    <2>1. CASE Len(q) = 1
      <3>1. w.matched = 0
        BY <1>2, <2>1 DEF Match
      <3> QED BY <1>3, <1>4, <1>6, <2>1, <3>1
    <2>2. CASE Len(q) > 1
      <3>1. Start(t[hit]) < e
        BY <1>2, <2>2 DEF Match
      <3>2. PICK x \in Int : x = Start(t[hit]) /\ x = t[hit].end - Len(t[hit].tokens)
        BY <1>6 DEF Start
      <3>3. ~(e - x > 0 /\ e - x < Len(t[hit].tokens))
        BY <2>2, <3>2 DEF MatchedInPart
      <3> QED BY <1>6, <1>7, <1>8, <3>1, <3>2, <3>3, SMTT(60)
    <2>3. \A k \in Nat : k >= 1 => k = 1 \/ k > 1
      OBVIOUS
    <2> QED BY <1>4, <2>1, <2>2, <2>3
  <1>10. PICK path : path = c.path \o Onto(q, hit)
    OBVIOUS
  <1>11. Walks(t, path) /\ path[1] = Root /\ Last(path) = hit
    <2>1. ASSUME NEW i \in 2 .. Len(q) - 1 PROVE q[i] \in DOMAIN t /\ t[q[i]].parent = q[i - 1]
      <3>1. i \in 1 .. Len(q) /\ i \in 2 .. Len(q)
        BY <1>4
      <3> QED BY <1>3, <1>4, <3>1 DEF Walks
    <2>2. ASSUME Len(q) > 1 PROVE hit \in DOMAIN t /\ t[hit].parent = q[Len(q) - 1]
      <3>1. Len(q) \in 2 .. Len(q)
        BY <1>4, <2>2
      <3> QED BY <1>3, <1>4, <3>1 DEF Walks
    <2>3. /\ Walks(t, c.path \o Onto(q, hit)) /\ (c.path \o Onto(q, hit))[1] = c.path[1]
          /\ Last(c.path \o Onto(q, hit)) = IF Len(q) > 1 THEN hit ELSE Last(c.path)
      <3>1. PICK D, y, p : D = DOMAIN t /\ y = q /\ p = c.path
        OBVIOUS
      <3>2. Onward(t, p, D, y, hit)
        BY <1>1, <1>3, <1>4, <2>1, <2>2, <3>1 DEF Onward
      <3>3. /\ Walks(t, p \o Onto(y, hit)) /\ (p \o Onto(y, hit))[1] = p[1]
            /\ Last(p \o Onto(y, hit)) = IF Len(y) > 1 THEN hit ELSE Last(p)
        <4>1. Led(t, p, p \o Onto(y, hit), IF Len(y) > 1 THEN hit ELSE Last(p))
          BY <3>2, WalksOnto
        <4> QED BY <4>1 DEF Led
      <3> QED BY <3>1, <3>3
    <2>4. Len(q) = 1 => hit = n
      BY <1>3, <1>4
    <2>5. \A k \in Nat : k >= 1 => k = 1 \/ k > 1
      OBVIOUS
    <2> QED BY <1>1, <1>4, <1>10, <2>3, <2>4, <2>5
  <1>12. PICK d : d = [c EXCEPT !.path = path]
    OBVIOUS
  <1>13. Sound(d, s) /\ Apart(c, d) /\ d.trie = t /\ d.path = path
    BY <1>11, <1>12, PathSet
  <1>14. Walk(c, q, hit) = d
    <2>1. Walk(c, q, hit) = [c EXCEPT !.path = c.path \o Onto(q, hit)]
      BY Zenon DEF Walk, Onto
    <2> QED BY <1>10, <1>12, <2>1
  <1>15. Grows(d, s, hit, rest, Len(T))
    <2>1. rest \in Words /\ Len(T) = d.trie[hit].end + Len(rest)
      BY <1>9, <1>13 DEF RestOf
    <2>2. ASSUME rest # <<>>, NEW m \in Children(d.trie, hit) PROVE d.trie[m].tokens[1] # rest[1]
      <3>1. rest[1] = T[e + 1] /\ e # Len(T)
        BY <2>2 DEF RestOf
      <3>2. ~(e < t[hit].end)
        BY <1>7, <1>9
      <3>3. \A x \in Children(t, hit) : t[x].tokens[1] # T[e + 1]
        BY <1>2, <3>1, <3>2 DEF Stuck
      <3> QED BY <1>13, <2>2, <3>1, <3>3
    <2> QED BY <1>11, <1>13, <2>1, <2>2 DEF Grows
  <1>16. PICK r : Grown(d, s, Extend(d, hit, rest, Len(T)), r, s[hit] \o rest)
    BY <1>13, <1>15, ExtendSound
  <1>17. s[hit] \o rest = T
    BY <1>2, <1>6, <1>7, <1>9, FirstAndRest
  <1>18. Bears(c, s, d, s)
    BY <1>13 DEF Bears, Faithful, Apart
  <1>19. Grown(c, s, Extend(d, hit, rest, Len(T)), r, T)
    BY <1>13, <1>16, <1>17, <1>18, BearsOn DEF Grown, Apart
  <1> QED BY <1>14, <1>19

\* Arithmetic of an offset inside an edge.
LEMMA InEdge ==
  \A x, y, z, e \in Nat, at \in Int :
     at = e - x /\ y = x + z /\ at > 0 /\ at < z => at \in Nat /\ 0 < at /\ e = x + at /\ e < y
  OBVIOUS

\* advancePath when the last edge matched in part.
LEMMA AdvanceSplit ==
  ASSUME NEW c, NEW s, Sound(c, s), NEW T, NEW keys, NEW w, Finds(c, s, T, keys, w),
         NEW hit, hit = Last(w.path), NEW e, e = c.trie[Last(c.path)].end + w.matched,
         NEW at, at = e - Start(c.trie[hit]), Len(w.path) > 1, MatchedInPart(c.trie[hit], at),
         NEW rest, RestOf(T, e, rest)
  PROVE  \E r : Grown(c, s, Extend(Walk(SplitNode(c, hit, at), w.path, Fresh(c.trie)), Fresh(c.trie), rest, Len(T)),
                      r, T)
  <1> DEFINE t == c.trie
             n == Last(c.path)
             q == w.path
  <1>1. Tree(t, s) /\ Walks(t, c.path) /\ c.path[1] = Root
    BY DEF Sound
  <1>2. /\ Match(t, s, n, T, w) /\ Stuck(t, s, n, T, w) /\ T \in Words
    BY DEF Finds, GoesOn
  <1>3. Walks(t, q) /\ q[1] = n /\ w.matched \in Nat
    BY <1>2 DEF Match
  <1>4. /\ Len(q) \in Nat /\ q \in Seq(DOMAIN t) /\ q # <<>> /\ hit \in DOMAIN t
        /\ hit = q[Len(q)] /\ \A i \in 1 .. Len(q) : q[i] \in DOMAIN t
        /\ \A i \in 2 .. Len(q) : q[i] # Root
    BY <1>1, <1>3, WalkFacts DEF Walks
  <1>5. /\ n \in DOMAIN t /\ n = c.path[Len(c.path)] /\ Len(c.path) \in Nat /\ Len(c.path) >= 1
        /\ \A i \in 1 .. Len(c.path) : c.path[i] \in DOMAIN t
    BY <1>1, WalkFacts
  <1>6. /\ t[n].end \in Nat /\ t[hit].end \in Nat /\ s[hit] \in Words /\ Len(s[hit]) = t[hit].end
        /\ Len(t[hit].tokens) \in Nat /\ t[hit].tokens \in Words
    BY <1>1, <1>4, <1>5, TreeFacts
  <1>7. Agree(s[hit], T, e) /\ e \in Nat
    BY <1>2, <1>3, <1>6 DEF Match
  <1>8. hit # Root /\ Len(q) \in 2 .. Len(q)
    <2>1. Len(q) \in 2 .. Len(q)
      BY <1>4
    <2> QED BY <1>4, <2>1
  <1>9. PICK p : Edge(t, s, hit, p)
    BY <1>1, <1>4, <1>8, EdgeFacts
  <1>10. /\ p \in DOMAIN t /\ p = t[hit].parent /\ t[hit].end = t[p].end + Len(t[hit].tokens)
         /\ Start(t[hit]) = t[p].end /\ Agree(s[hit], s[p], t[p].end)
         /\ \A i \in 1 .. Len(t[hit].tokens) : s[hit][t[p].end + i] = t[hit].tokens[i]
    BY <1>9 DEF Edge
  <1>11. t[p].end \in Nat /\ Len(s[p]) = t[p].end
    <2>1. p \in DOMAIN t
      BY <1>10
    <2> QED BY <1>1, <2>1, TreeFacts
  <1>12. /\ at \in Nat /\ 0 < at /\ at < Len(t[hit].tokens) /\ e = t[p].end + at /\ e < t[hit].end
    <2>1. at > 0 /\ at < Len(t[hit].tokens)
      BY DEF MatchedInPart
    <2>2. PICK x \in Nat, y \in Nat, z \in Nat : x = t[p].end /\ y = t[hit].end /\ z = Len(t[hit].tokens)
      BY <1>6, <1>11
    <2>3. y = x + z /\ at = e - x
      BY <1>10, <2>2
    <2>4. at > 0 /\ at < z
      BY <2>1, <2>2
    <2>5. at \in Nat /\ 0 < at /\ e = x + at /\ e < y
      <3>1. e \in Nat
        BY <1>7
      <3>2. at \in Int
        BY <2>2, <2>3, <3>1
      <3>3. x \in Nat /\ y \in Nat /\ z \in Nat
        BY <2>2
      <3>4. at = e - x
        BY <2>3
      <3>5. y = x + z
        BY <2>3
      <3>6. e = x + at
        BY <3>1, <3>2, <3>3, <3>4
      <3>7. e < y
        BY <2>4, <3>1, <3>2, <3>3, <3>5, <3>6
      <3>8. at \in Nat /\ 0 < at
        BY <2>4, <3>2
      <3> QED BY <3>6, <3>7, <3>8
    <2> QED BY <2>1, <2>2, <2>5
  <1>13. OffPath(c, hit)
    <2>1. p = q[Len(q) - 1]
      BY <1>3, <1>4, <1>8, <1>10 DEF Walks
    <2>2. t[n].end <= t[p].end
      <3>1. PICK j \in 1 .. Len(q) : j = Len(q) - 1 /\ 1 \in 1 .. j
        <4>1. Len(q) - 1 \in 1 .. Len(q) /\ 1 \in 1 .. Len(q) - 1
          BY <1>4, <1>8
        <4> QED BY <4>1
      <3>2. t[q[1]].end <= t[q[j]].end
        BY <1>1, <1>3, <3>1, WalkAgrees
      <3> QED BY <1>3, <2>1, <3>1, <3>2
    <2>3. ASSUME NEW i \in 1 .. Len(c.path) PROVE t[c.path[i]].end <= t[n].end /\ t[c.path[i]].end \in Nat
      <3>1. PICK j \in 1 .. Len(c.path) : j = Len(c.path) /\ i \in 1 .. j
        BY <1>5
      <3>2. t[c.path[i]].end <= t[c.path[j]].end
        BY <1>1, <3>1, WalkAgrees
      <3>3. t[c.path[i]].end \in Nat
        BY <1>1, <1>5, TreeFacts
      <3> QED BY <1>5, <3>1, <3>2, <3>3
    <2>4. t[n].end < t[hit].end
      BY <1>6, <1>11, <1>12, <2>2, SMTT(60)
    <2>5. \A i \in 1 .. Len(c.path) : c.path[i] # hit
      BY <1>6, <2>3, <2>4
    <2> QED BY <2>5 DEF OffPath
  <1>14. PICK b : b = SplitNode(c, hit, at)
    OBVIOUS
  <1>15. PICK r, new : SplitTo(c, s, hit, at, b, r, new)
    BY <1>1, <1>4, <1>8, <1>12, <1>13, <1>14, SplitNodeSound
  <1>16. /\ Sound(b, r) /\ Apart(c, b) /\ b.path = c.path /\ new = Fresh(t) /\ new \in Nat
         /\ new \notin DOMAIN t /\ DOMAIN b.trie = DOMAIN t \cup {new} /\ r[hit] = s[hit]
         /\ b.trie[new].parent = p /\ b.trie[new].end = e /\ b.trie[hit].parent = new
         /\ b.trie[hit].tokens = SubSeq(t[hit].tokens, at + 1, Len(t[hit].tokens))
         /\ \A m \in DOMAIN t \ {hit} : b.trie[m].parent = t[m].parent
    BY <1>4, <1>10, <1>12, <1>15 DEF SplitTo, Alike
  <1>17. Tree(b.trie, r) /\ Walks(b.trie, b.path) /\ b.path[1] = Root
    BY <1>16 DEF Sound
  <1>18. PICK path : path = b.path \o Onto(q, new)
    OBVIOUS
  <1>19. Walks(b.trie, path) /\ path[1] = Root /\ Last(path) = new
    <2>0. p = q[Len(q) - 1]
      BY <1>3, <1>4, <1>8, <1>10 DEF Walks
    <2>1. ASSUME NEW i \in 2 .. Len(q) - 1
          PROVE  q[i] \in DOMAIN b.trie /\ b.trie[q[i]].parent = q[i - 1]
      <3>1. i \in 1 .. Len(q) /\ i \in 2 .. Len(q)
        BY <1>4
      <3>2. q[i] \in DOMAIN t /\ t[q[i]].parent = q[i - 1]
        BY <1>3, <1>4, <3>1 DEF Walks
      <3>3. q[i] # hit
        <4>1. PICK j \in 1 .. Len(q) : j = Len(q) /\ i \in 1 .. j /\ i < j
          BY <1>4
        <4>2. t[q[i]].end < t[q[j]].end
          BY <1>1, <1>3, <4>1, WalkAgrees
        <4> QED BY <1>4, <1>6, <4>1, <4>2
      <3> QED BY <1>16, <3>2, <3>3
    <2>2. PICK E, D, y, z : E = DOMAIN t /\ D = DOMAIN b.trie /\ y = q /\ z = b.path
      OBVIOUS
    <2>3. y \in Seq(E) /\ y # <<>> /\ y[1] = Last(z)
      BY <1>3, <1>4, <1>16, <2>2
    <2>4. /\ Walks(b.trie, z)
          /\ \A i \in 2 .. Len(y) - 1 : y[i] \in DOMAIN b.trie /\ b.trie[y[i]].parent = y[i - 1]
          /\ Len(y) > 1 => new \in DOMAIN b.trie /\ b.trie[new].parent = y[Len(y) - 1]
      BY <1>16, <1>17, <2>0, <2>1, <2>2
    <2>6. Onward(b.trie, z, E, y, new)
      BY <2>3, <2>4 DEF Onward
    <2>5. /\ Walks(b.trie, z \o Onto(y, new)) /\ (z \o Onto(y, new))[1] = z[1]
          /\ Last(z \o Onto(y, new)) = IF Len(y) > 1 THEN new ELSE Last(z)
      <3>1. Led(b.trie, z, z \o Onto(y, new), IF Len(y) > 1 THEN new ELSE Last(z))
        BY <2>6, WalksOnto
      <3> QED BY <3>1 DEF Led
    <2> QED BY <1>17, <1>18, <2>2, <2>5
  <1>20. PICK d : d = [b EXCEPT !.path = path]
    OBVIOUS
  <1>21. Sound(d, r) /\ Apart(b, d) /\ d.trie = b.trie /\ d.path = path
    BY <1>16, <1>19, <1>20, PathSet, ZenonT(60)
  <1>22. Walk(b, q, new) = d
    <2>1. Walk(b, q, new) = [b EXCEPT !.path = b.path \o Onto(q, new)]
      BY Zenon DEF Walk, Onto
    <2> QED BY <1>18, <1>20, <2>1
  <1>23. /\ r[new] \in Words /\ Len(r[new]) = e /\ Agree(r[hit], r[new], e)
    <2>1. hit \in DOMAIN b.trie /\ new \in DOMAIN b.trie
      BY <1>4, <1>16
    <2>2. PICK x : Edge(b.trie, r, hit, x)
      BY <1>8, <1>17, <2>1, EdgeFacts
    <2>3. x = new /\ Agree(r[hit], r[x], b.trie[x].end)
      BY <1>16, <2>2 DEF Edge
    <2>4. r[new] \in Words /\ Len(r[new]) = b.trie[new].end
      BY <1>17, <2>1, TreeFacts
    <2> QED BY <1>16, <2>3, <2>4
  <1>24. Agree(r[new], T, e)
    <2>1. Agree(r[new], r[hit], e)
      <3>1. PICK x, y : x = r[new] /\ y = r[hit]
        OBVIOUS
      <3>2. x \in Seq(Tokens) /\ y \in Seq(Tokens) /\ Agree(y, x, e)
        BY <1>6, <1>16, <1>23, <3>1 DEF Words
      <3>3. e <= e
        BY <1>7
      <3> QED BY <1>7, <3>1, <3>2, <3>3, AgreeLess
    <2>2. Agree(r[hit], T, e) /\ e \in Nat /\ e <= e
      <3>1. r[hit] = s[hit] /\ e \in Nat /\ Agree(s[hit], T, e)
        BY <1>7, <1>16
      <3> QED BY <3>1
    <2> QED BY <2>1, <2>2, AgreeTwice
  <1>25. Grows(d, r, new, rest, Len(T))
    <2>1. rest \in Words /\ Len(T) = d.trie[new].end + Len(rest)
      BY <1>16, <1>21 DEF RestOf
    <2>2. ASSUME rest # <<>>, NEW m \in Children(d.trie, new) PROVE d.trie[m].tokens[1] # rest[1]
      <3>1. rest[1] = T[e + 1] /\ e # Len(T)
        BY <2>2 DEF RestOf
      <3>2. s[hit][e + 1] # T[e + 1]
        <4>1. e # t[hit].end
          BY <1>6, <1>7, <1>12
        <4> QED BY <1>2, <3>1, <4>1 DEF Stuck
      <3>3. m \in DOMAIN b.trie /\ b.trie[m].parent = new
        BY <1>21, <2>2 DEF Children
      <3>4. m = hit
        <4>1. m # new
          <5>1. b.trie[new].parent # new
            BY <1>10, <1>16
          <5> QED BY <3>3, <5>1
        <4>2. m \in DOMAIN t
          <5>1. m \in DOMAIN t \cup {new}
            BY <1>16, <3>3
          <5> QED BY <4>1, <5>1
        <4>3. m # hit => t[m].parent = new
          BY <1>16, <3>3, <4>2
        <4> QED BY <1>1, <1>16, <4>2, <4>3, NotOfNone
      <3>5. b.trie[hit].tokens[1] = t[hit].tokens[at + 1] /\ at + 1 \in 1 .. Len(t[hit].tokens)
        <4>1. PICK N \in Nat, z \in Words : z = t[hit].tokens /\ N = Len(t[hit].tokens)
          BY <1>6
        <4>2. z \in Seq(Tokens) /\ N = Len(z) /\ at \in 0 .. N /\ N \in at .. N /\ 1 \in 1 .. N - at /\ at + 1 \in 1 .. N
          BY <1>6, <1>12, <4>1 DEF Words
        <4>3. SubSeq(z, at + 1, N)[1] = z[at + 1]
          BY <4>2, LastEntries
        <4> QED BY <1>16, <4>1, <4>2, <4>3
      <3>6. s[hit][e + 1] = t[hit].tokens[at + 1]
        <4>1. PICK j \in 1 .. Len(t[hit].tokens) : j = at + 1 /\ t[p].end + j = e + 1
          <5>1. t[p].end + (at + 1) = e + 1
            BY <1>11, <1>12, SMTT(60)
          <5> QED BY <3>5, <5>1
        <4> QED BY <1>10, <4>1
      <3> QED BY <1>21, <3>1, <3>2, <3>4, <3>5, <3>6
    <2> QED BY <1>19, <1>21, <2>1, <2>2 DEF Grows
  <1>26. PICK u : Grown(d, r, Extend(d, new, rest, Len(T)), u, r[new] \o rest)
    BY <1>21, <1>25, ExtendSound
  <1>27. r[new] \o rest = T
    BY <1>2, <1>23, <1>24, FirstAndRest
  <1>28. Bears(c, s, d, r)
    <2>1. Bears(b, r, d, r)
      BY <1>21 DEF Bears, Faithful, Apart
    <2>2. Bears(c, s, b, r)
      BY <1>15 DEF SplitTo
    <2> QED BY <2>1, <2>2, BearsOn
  <1>29. Grown(c, s, Extend(d, new, rest, Len(T)), u, T)
    BY <1>16, <1>21, <1>26, <1>27, <1>28, BearsOn DEF Grown, Apart
  <1> QED BY <1>14, <1>16, <1>22, <1>29

\* The offset where an edge starts is a number.
LEMMA StartType ==
  ASSUME NEW t, NEW s, Tree(t, s), NEW n, NEW T, NEW w, Match(t, s, n, T, w)
  PROVE  Start(t[Last(w.path)]) \in Int
  <1>1. PICK m : m = Last(w.path)
    OBVIOUS
  <1>2. m \in DOMAIN t
    BY <1>1, WalkFacts DEF Match
  <1>3. t[m].end \in Nat /\ Len(t[m].tokens) \in Nat
    BY <1>2, TreeFacts
  <1> QED BY <1>1, <1>3 DEF Start

\* advancePath: the path grows by the tokens, along the nodes there are.
LEMMA AdvanceSound ==
  ASSUME NEW c, NEW s, Sound(c, s), NEW tokens \in Words, NEW end,
         end = c.trie[Last(c.path)].end + Len(tokens)
  PROVE  \E r : Grown(c, s, AdvancePath(c, tokens, end), r, s[Last(c.path)] \o tokens)
  <1> DEFINE t == c.trie
             n == Last(c.path)
  <1>1. Tree(t, s) /\ Walks(t, c.path)
    BY DEF Sound
  <1>2. n \in DOMAIN t
    BY <1>1, WalkFacts
  <1>3. t[n].end \in Nat /\ s[n] \in Words /\ Len(s[n]) = t[n].end
    BY <1>1, <1>2, TreeFacts
  <1>4. PICK T : T = s[n] \o tokens
    OBVIOUS
  <1>5. /\ T \in Words /\ Len(T) = t[n].end + Len(tokens) /\ Agree(T, s[n], t[n].end)
        /\ \A i \in 1 .. Len(tokens) : T[t[n].end + i] = tokens[i]
    <2>1. PICK x, k : x = s[n] /\ k = t[n].end
      OBVIOUS
    <2>2. x \in Seq(Tokens) /\ tokens \in Seq(Tokens) /\ Len(x) = k /\ T = x \o tokens
      BY <1>3, <1>4, <2>1 DEF Words
    <2>3. /\ T \in Seq(Tokens) /\ Len(T) = Len(x) + Len(tokens) /\ Agree(T, x, Len(x))
          /\ \A i \in 1 .. Len(tokens) : T[Len(x) + i] = tokens[i]
      BY <2>2, AgreeConcat
    <2> QED BY <2>1, <2>2, <2>3 DEF Words
  <1>6. GoesOn(t, s, n, T, tokens)
    <2>1. Agree(s[n], T, t[n].end)
      <3>1. PICK x : x = s[n]
        OBVIOUS
      <3>2. x \in Seq(Tokens) /\ T \in Seq(Tokens) /\ Agree(T, x, t[n].end) /\ t[n].end <= t[n].end
        BY <1>3, <1>5, <3>1 DEF Words
      <3> QED BY <1>3, <3>1, <3>2, AgreeLess
    <2> QED BY <1>2, <1>5, <2>1 DEF GoesOn
  <1>7. PICK w : w = FindBestMatch(t, n, tokens)
    OBVIOUS
  <1>8. Match(t, s, n, T, w) /\ Stuck(t, s, n, T, w)
    BY <1>1, <1>6, <1>7, FindBestMatchIs
  <1>9. Finds(c, s, T, tokens, w)
    BY <1>6, <1>8 DEF Finds, Match, Walks
  <1>10. w.matched \in Nat /\ t[n].end + w.matched <= Len(T)
    BY <1>8 DEF Match
  <1>11. PICK e, rest : e = t[n].end + w.matched /\ rest = SubSeq(tokens, w.matched + 1, Len(tokens))
    OBVIOUS
  <1>12. RestOf(T, e, rest)
    BY <1>3, <1>5, <1>10, <1>11, RestIs
  <1>13. PICK hit, at : hit = Last(w.path) /\ at = e - Start(t[hit])
    OBVIOUS
  <1>14. end = Len(T)
    BY <1>5
  <1>15. AdvancePath(c, tokens, end) =
           IF Len(w.path) > 1 /\ MatchedInPart(t[hit], at)
           THEN Extend(Walk(SplitNode(c, hit, at), w.path, Fresh(t)), Fresh(t), rest, Len(T))
           ELSE Extend(Walk(c, w.path, hit), hit, rest, Len(T))
    <2>1. AdvancePath(c, tokens, end) = Advance(c, w, tokens, Len(T))
      BY <1>7, <1>14 DEF AdvancePath
    <2>2. at = t[n].end + w.matched - Start(t[hit])
      <3>1. PICK x \in Int : x = Start(t[hit])
        BY <1>1, <1>8, <1>13, StartType
      <3>2. e \in Nat /\ e = t[n].end + w.matched /\ at = e - x
        <4>1. PICK a \in Nat, b \in Nat : a = t[n].end /\ b = w.matched
          BY <1>3, <1>10
        <4>2. e = a + b
          BY <1>11, <4>1
        <4>3. e \in Nat
          BY <4>1, <4>2
        <4>4. at = e - x
          BY <1>13, <3>1
        <4> QED BY <4>1, <4>2, <4>3, <4>4
      <3>3. at = t[n].end + w.matched - x
        BY <1>3, <1>10, <3>1, <3>2
      <3> QED BY <3>1, <3>3
    <2>3. Advance(c, w, tokens, Len(T)) =
             IF Len(w.path) > 1 /\ MatchedInPart(t[Last(w.path)], t[n].end + w.matched - Start(t[Last(w.path)]))
             THEN Extend(Walk(SplitNode(c, Last(w.path), t[n].end + w.matched - Start(t[Last(w.path)])),
                              w.path, Fresh(t)), Fresh(t), SubSeq(tokens, w.matched + 1, Len(tokens)), Len(T))
             ELSE Extend(Walk(c, w.path, Last(w.path)), Last(w.path),
                         SubSeq(tokens, w.matched + 1, Len(tokens)), Len(T))
      BY Zenon DEF Advance
    <2>4. hit = Last(w.path) /\ rest = SubSeq(tokens, w.matched + 1, Len(tokens))
      BY <1>11, <1>13
    <2> HIDE DEF t, n
    <2> QED BY <2>1, <2>2, <2>3, <2>4
  <1>16. CASE Len(w.path) > 1 /\ MatchedInPart(t[hit], at)
    <2>1. AdvancePath(c, tokens, end) =
            Extend(Walk(SplitNode(c, hit, at), w.path, Fresh(t)), Fresh(t), rest, Len(T))
      BY <1>15, <1>16
    <2>2. \E r : Grown(c, s, Extend(Walk(SplitNode(c, hit, at), w.path, Fresh(t)), Fresh(t), rest, Len(T)), r, T)
      BY <1>9, <1>11, <1>12, <1>13, <1>16, AdvanceSplit
    <2> QED BY <1>4, <2>1, <2>2
  <1>17. CASE ~(Len(w.path) > 1 /\ MatchedInPart(t[hit], at))
    <2>1. AdvancePath(c, tokens, end) = Extend(Walk(c, w.path, hit), hit, rest, Len(T))
      BY <1>15, <1>17
    <2>2. \E r : Grown(c, s, Extend(Walk(c, w.path, hit), hit, rest, Len(T)), r, T)
      BY <1>9, <1>11, <1>12, <1>13, <1>17, AdvanceWhole
    <2> QED BY <1>4, <2>1, <2>2
  <1> QED BY <1>16, <1>17

----------------------------------------------------------------------------
(* switchToPath.                                                           *)

\* The kinds of caches.
LEMMA LayersAre ==
  /\ Len(Layers) = 1 => Kinds = {Layers[1]}
  /\ Len(Layers) # 1 => Kinds = {Layers[1]} \cup {Layers[2]}
  /\ Layers[1] \in Kinds /\ (Len(Layers) # 1 => Layers[2] \in Kinds)
  /\ Kinds \subseteq {"kv", "rec"} /\ Kinds # {}
  <1>1. CASE Layers = <<"kv">>
    BY <1>1 DEF Kinds, ToSet
  <1>2. CASE Layers = <<"rec">>
    BY <1>2 DEF Kinds, ToSet
  <1>3. CASE Layers = <<"kv", "rec">>
    <2>1. DOMAIN Layers = {1, 2} /\ Layers[1] = "kv" /\ Layers[2] = "rec" /\ Len(Layers) = 2
      BY <1>3
    <2> QED BY <2>1 DEF Kinds, ToSet
  <1>4. CASE Layers = <<"rec", "kv">>
    <2>1. DOMAIN Layers = {1, 2} /\ Layers[1] = "rec" /\ Layers[2] = "kv" /\ Len(Layers) = 2
      BY <1>4
    <2> QED BY <2>1 DEF Kinds, ToSet
  <1> QED BY <1>1, <1>2, <1>3, <1>4, PrefixCacheAssumption

\* Offsets are numbers, and the least is the offset of some cache.
LEMMA OffsetType ==
  ASSUME NEW c, NEW s, Sound(c, s)
  PROVE  /\ \A l \in Kinds : Offset(c, l) \in Nat /\ Offset(c, l) = IF l = "kv" THEN c.kv.off ELSE Len(c.rec)
         /\ MinOffset(c) \in Nat /\ \A l \in Kinds : MinOffset(c) <= Offset(c, l)
         /\ \E l \in Kinds : Offset(c, l) = MinOffset(c)
         /\ c.rec \in Words /\ c.kv.off \in Nat /\ Len(c.rec) \in Nat
  <1>1. c.kv.off \in Nat /\ c.rec \in Words
    BY DEF Sound, Caches, KVs
  <1>2. Len(c.rec) \in Nat
    BY <1>1, LenProperties DEF Words
  <1>3. \A l \in Kinds : Offset(c, l) \in Nat /\ Offset(c, l) = IF l = "kv" THEN c.kv.off ELSE Len(c.rec)
    BY <1>1, <1>2 DEF Offset
  <1>4. PICK S : S = {Offset(c, l) : l \in Kinds}
    OBVIOUS
  <1>5. S \in SUBSET Nat /\ S # {}
    BY <1>3, <1>4, LayersAre
  <1>6. Min(S) \in S /\ \A y \in S : Min(S) <= y
    BY <1>5, MinOf
  <1>7. MinOffset(c) = Min(S)
    BY <1>4 DEF MinOffset
  <1> QED BY <1>1, <1>2, <1>3, <1>4, <1>5, <1>6, <1>7

\* There is no recurrent state without a cache for it.
Level(c) == "rec" \notin Kinds => c.rec = <<>>

\* The caches do not reach beyond these tokens, nor hold the state of others.
Inside(c, M) == ("kv" \in Kinds => c.kv.off <= Len(M)) /\ Agree(M, c.rec, Len(c.rec))

\* The empty sequence agrees with each.
LEMMA EmptyAgrees ==
  ASSUME NEW M \in Words
  PROVE  Agree(M, <<>>, Len(<<>>)) /\ Len(<<>>) = 0 /\ <<>> \in Words
  <1>1. Len(M) \in Nat /\ Len(<<>>) = 0
    BY LenProperties, EmptySeq DEF Words
  <1> QED BY <1>1, EmptySeq DEF Agree, Words

\* The least offset is within the tokens that the caches do not exceed.
LEMMA MinimumOffsetInside ==
  ASSUME NEW c, NEW s, Sound(c, s), NEW M \in Words, Inside(c, M)
  PROVE  MinOffset(c) <= Len(M)
  <1>1. PICK l \in Kinds : Offset(c, l) = MinOffset(c)
    BY OffsetType
  <1>2. CASE l = "kv"
    BY <1>1, <1>2, OffsetType DEF Inside
  <1>3. CASE l # "kv"
    <2>1. Len(c.rec) <= Len(M)
      BY DEF Inside, Agree
    <2> QED BY <1>1, <1>3, <2>1, OffsetType
  <1> QED BY <1>2, <1>3

\* The leaf that is left gets snapshots of the live caches.
LEMMA PageOutSound ==
  ASSUME NEW c, NEW s, Sound(c, s), NEW common, NEW matched,
         Agree(s[Last(c.path)], c.rec, Len(c.rec))
  PROVE  LET d == PageOut(c, common, matched)
         IN Sound(d, s) /\ Kept(c, d) /\ d.rec = c.rec /\ d.kv = c.kv
  <1>1. PICK n : n = Last(c.path)
    OBVIOUS
  <1>2. Tree(c.trie, s) /\ n \in DOMAIN c.trie /\ c \in Caches
    BY <1>1, WalkFacts DEF Sound
  <1>3. PICK x : x = [kv |-> SnapshotKV(c, Start(c.trie[n]), c.kv.off), rec |-> SnapshotRec(c)]
    OBVIOUS
  <1>4. CASE PageOut(c, common, matched) = c
    BY <1>4, KeptSelf
  <1>5. CASE PageOut(c, common, matched) = SetSnapshots(c, n, x)
    <2>1. x.kv \in KVSnaps /\ Fits(x.kv, Len(c.kv.buf))
      <3>1. x.kv = SnapshotKV(c, Start(c.trie[n]), c.kv.off)
        BY <1>3
      <3>2. c.kv.off \in Nat /\ c.kv.off <= Len(c.kv.buf)
        BY DEF Sound, Caches, KVs
      <3>3. Start(c.trie[n]) \in Nat
        <4>1. CASE n = Root
          BY <1>2, <4>1, TreeFacts DEF Start
        <4>2. CASE n # Root
          <5>1. PICK q : Edge(c.trie, s, n, q)
            BY <1>2, <4>2, EdgeFacts
          <5>2. q \in DOMAIN c.trie /\ Start(c.trie[n]) = c.trie[q].end
            BY <5>1 DEF Edge
          <5> QED BY <1>2, <5>2, TreeFacts
        <4> QED BY <4>1, <4>2
      <3>4. CASE x.kv = None
        BY <3>4 DEF KVSnaps, Fits
      <3>5. CASE x.kv # None
        <4>1. PICK a \in Nat, b \in Nat : a = Start(c.trie[n]) /\ b = c.kv.off
          BY <3>2, <3>3
        <4>2. a < b /\ x.kv = Lazy(a, b)
          BY <3>1, <3>5, <4>1 DEF SnapshotKV
        <4>3. x.kv = [from |-> a, to |-> b, lazy |-> TRUE, data |-> <<>>]
          BY <4>2 DEF Lazy
        <4>4. <<>> \in Seq(Words)
          BY EmptySeq
        <4>5. x.kv.from = a /\ x.kv.to = b
          BY <4>3
        <4>6. Fits(x.kv, Len(c.kv.buf))
          BY <3>2, <4>1, <4>2, <4>5 DEF Fits
        <4> QED BY <4>3, <4>4, <4>6 DEF KVSnaps
      <3> QED BY <3>4, <3>5
    <2>2. x.rec \in RecSnaps /\ RecOf(x.rec, s[n])
      <3>1. x.rec = SnapshotRec(c) /\ c.rec \in Words
        BY <1>2, <1>3 DEF Caches
      <3> QED BY <1>1, <3>1 DEF SnapshotRec, RecSnaps, RecOf
    <2>3. Sound(SetSnapshots(c, n, x), s)
      BY <1>2, <2>1, <2>2, SnapshotsSound
    <2>4. SnapshotsSet(c, n, x, SetSnapshots(c, n, x))
      BY <1>2, <2>1, <2>2, SnapshotsFields
    <2> QED BY <1>5, <2>3, <2>4 DEF SnapshotsSet, Kept, Apart
  <1> QED BY <1>1, <1>3, <1>4, <1>5 DEF PageOut

\* Rewind has brought the caches of the kinds K to the target, or freed them.
Rewinding(c, s, M, d, K) ==
    /\ Sound(d, s) /\ Kept(c, d) /\ Level(d)
    /\ "kv" \in K => d.kv.off <= Len(M)
    /\ d.rec = c.rec \/ Agree(M, d.rec, Len(d.rec))
    /\ "rec" \in K => Agree(M, d.rec, Len(d.rec))

\* When there is no recurrent state without a cache for it.
LEMMA LevelOf ==
  /\ \A c, d : Level(c) /\ d.rec = c.rec => Level(d)
  /\ \A d : d.rec = <<>> => Level(d)
  /\ \A d : "rec" \in Kinds => Level(d)
  BY DEF Level

\* Rewind of one cache,
LEMMA RewindLayerIs ==
  ASSUME NEW c, NEW s, NEW M \in Words, NEW target \in Nat, target <= Len(M),
         Len(c.rec) = target => Agree(M, c.rec, target),
         NEW d, NEW K, Rewinding(c, s, M, d, K), NEW l \in {"kv", "rec"}
  PROVE  Rewinding(c, s, M, RewindLayer(d, l, target), K \cup {l})
  <1>1. Sound(d, s) /\ Kept(c, d) /\ Level(d)
    BY DEF Rewinding
  <1>2. CASE l = "kv"
    <2>1. PICK r : r = RestoreKV(d, None, target)
      OBVIOUS
    <2>2. None \in KVSnaps /\ Fits(None, Len(d.kv.buf))
      BY DEF KVSnaps, Fits
    <2>3. /\ Restored(d, s, target, r)
          /\ r.ok => r.cache.kv.off = target
      BY <1>1, <2>1, <2>2, RestoreKVIs
    <2>4. RewindLayer(d, l, target) = IF r.ok THEN r.cache ELSE FreeKV(d)
      <3>1. RewindLayer(d, l, target) = IF r.ok THEN r.cache ELSE Free(d, l)
        <4>1. Restore(d, l, None, target) = r
          BY <1>2, <2>1 DEF Restore
        <4> QED BY <4>1 DEF RewindLayer
      <3> QED BY <1>2, <3>1 DEF Free
    <2>5. CASE r.ok
      <3>1. PICK e : e = r.cache
        OBVIOUS
      <3>2. Sound(e, s) /\ Kept(d, e) /\ e.rec = d.rec /\ e.kv.off = target
        BY <2>3, <2>5, <3>1 DEF Restored
      <3>3. Kept(c, e) /\ Level(e)
        BY <1>1, <3>2, KeptTwice, LevelOf
      <3>4. Rewinding(c, s, M, e, K \cup {l})
        BY <1>2, <3>2, <3>3 DEF Rewinding
      <3> QED BY <2>4, <2>5, <3>1, <3>4
    <2>6. CASE ~r.ok
      <3>1. PICK e : e = FreeKV(d)
        OBVIOUS
      <3>2. Sound(e, s) /\ Kept(d, e) /\ e.rec = d.rec /\ e.kv.off = 0
        BY <1>1, <3>1, FreeKVIs
      <3>3. Kept(c, e) /\ Level(e) /\ 0 <= Len(M)
        BY <1>1, <3>2, KeptTwice, LevelOf
      <3>4. Rewinding(c, s, M, e, K \cup {l})
        BY <1>2, <3>2, <3>3 DEF Rewinding
      <3> QED BY <2>4, <2>6, <3>1, <3>4
    <2> QED BY <2>5, <2>6
  <1>3. CASE l = "rec"
    <2>1. PICK r : r = RestoreRec(d, None, target)
      OBVIOUS
    <2>2. None \in RecSnaps
      BY DEF RecSnaps
    <2>3. /\ r.ok \in BOOLEAN /\ Sound(r.cache, s) /\ Kept(d, r.cache) /\ r.cache.kv = d.kv
          /\ r.ok => Len(r.cache.rec) = target /\ r.cache.rec = d.rec
      BY <1>1, <2>1, <2>2, RestoreRecIs
    <2>4. RewindLayer(d, l, target) = IF r.ok THEN r.cache ELSE Free(d, "rec")
      <3>1. Restore(d, l, None, target) = r
        BY <1>3, <2>1 DEF Restore
      <3> QED BY <1>3, <3>1 DEF RewindLayer
    <2>5. CASE r.ok
      <3>1. PICK e : e = r.cache
        OBVIOUS
      <3>2. Sound(e, s) /\ Kept(d, e) /\ e.rec = d.rec /\ e.kv = d.kv /\ Len(e.rec) = target
        BY <2>3, <2>5, <3>1
      <3>3. Kept(c, e) /\ Level(e)
        BY <1>1, <3>2, KeptTwice, LevelOf
      <3>4. Agree(M, e.rec, Len(e.rec))
        BY <3>2 DEF Rewinding
      <3>5. Rewinding(c, s, M, e, K \cup {l})
        BY <1>3, <3>2, <3>3, <3>4 DEF Rewinding
      <3> QED BY <2>4, <2>5, <3>1, <3>5
    <2>6. CASE ~r.ok
      <3>1. PICK e : e = Free(d, "rec")
        OBVIOUS
      <3>2. Sound(e, s) /\ Kept(d, e) /\ e.rec = <<>> /\ e.kv = d.kv
        BY <1>1, <3>1, FreeIs
      <3>3. Kept(c, e) /\ Level(e)
        BY <1>1, <3>2, KeptTwice, LevelOf
      <3>4. Agree(M, e.rec, Len(e.rec))
        BY <3>2, EmptyAgrees
      <3>5. Rewinding(c, s, M, e, K \cup {l})
        BY <1>3, <3>2, <3>3, <3>4 DEF Rewinding
      <3> QED BY <2>4, <2>6, <3>1, <3>5
    <2> QED BY <2>5, <2>6
  <1> QED BY <1>2, <1>3

\* What a stage of switchToPath makes of the caches.
Switched(c, s, M, d) == Sound(d, s) /\ Kept(c, d) /\ Level(d) /\ Inside(d, M)

\* and of all.
LEMMA RewindIs ==
  ASSUME NEW c, NEW s, Sound(c, s), Level(c), NEW M \in Words, NEW target \in Nat, target <= Len(M),
         Len(c.rec) = target => Agree(M, c.rec, target)
  PROVE  Switched(c, s, M, Rewind(c, target))
  <1>1. Rewinding(c, s, M, c, {})
    BY KeptSelf DEF Rewinding
  <1>2. PICK a : a = RewindLayer(c, Layers[1], target)
    OBVIOUS
  <1>3. Rewinding(c, s, M, a, {} \cup {Layers[1]})
    BY <1>1, <1>2, LayersAre, RewindLayerIs
  <1>4. PICK b : b = RewindLayer(a, Layers[2], target)
    OBVIOUS
  <1>5. Len(Layers) # 1 => Rewinding(c, s, M, b, ({} \cup {Layers[1]}) \cup {Layers[2]})
    BY <1>3, <1>4, LayersAre, RewindLayerIs
  <1>6. Rewind(c, target) = IF Len(Layers) = 1 THEN a ELSE b
    BY <1>2, <1>4 DEF Rewind, EachLayer
  <1>7. Rewinding(c, s, M, Rewind(c, target), Kinds)
    <2>1. {} \cup {Layers[1]} = {Layers[1]}
      OBVIOUS
    <2> QED BY <1>3, <1>5, <1>6, <2>1, LayersAre
  <1>8. ASSUME NEW d, Rewinding(c, s, M, d, Kinds) PROVE Switched(c, s, M, d)
    <2>1. "rec" \in Kinds => Agree(M, d.rec, Len(d.rec))
      BY <1>8 DEF Rewinding
    <2>2. "rec" \notin Kinds => Agree(M, d.rec, Len(d.rec))
      BY <1>8, EmptyAgrees DEF Rewinding, Level
    <2> QED BY <1>8, <2>1, <2>2 DEF Rewinding, Switched, Inside
  <1> QED BY <1>7, <1>8

----------------------------------------------------------------------------
(* Paging in.                                                              *)

\* The path to go to: it spells M.
Leading(t, s, M, path) == Walks(t, path) /\ path[1] = Root /\ Agree(s[Last(path)], M, Len(M))

\* A state of page-in.
Result(r) == r = [ok |-> r.ok, cache |-> r.cache]

PagingIn(c, s, M, r) == Result(r) /\ r.ok \in BOOLEAN /\ Switched(c, s, M, r.cache)

\* Results of Restore.
LEMMA ResultIs ==
  /\ \A c : /\ Result(Done(c)) /\ Done(c).ok = TRUE /\ Done(c).cache = c
           /\ Result(Failed(c)) /\ Failed(c).ok = FALSE /\ Failed(c).cache = c
  /\ \A c, l, k, target : Result(Restore(c, l, k, target))
  <1>1. \A c : /\ Result(Done(c)) /\ Done(c).ok = TRUE /\ Done(c).cache = c
              /\ Result(Failed(c)) /\ Failed(c).ok = FALSE /\ Failed(c).cache = c
    BY DEF Result, Done, Failed
  <1>2. ASSUME NEW c, NEW k, NEW target PROVE Result(RestoreKV(c, k, target)) /\ Result(RestoreRec(c, k, target))
    <2>1. \E d : RestoreKV(c, k, target) = Done(d) \/ RestoreKV(c, k, target) = Failed(d)
      BY Zenon DEF RestoreKV
    <2>2. \E d : RestoreRec(c, k, target) = Done(d) \/ RestoreRec(c, k, target) = Failed(d)
      BY Zenon DEF RestoreRec
    <2> QED BY <1>1, <2>1, <2>2
  <1> QED BY <1>1, <1>2 DEF Restore

\* Page-in of one snapshot: what is restored is of the tokens matched,
LEMMA PageInLayerIs ==
  ASSUME NEW c, NEW s, Tree(c.trie, s), NEW M \in Words, NEW r, PagingIn(c, s, M, r),
         NEW n \in DOMAIN c.trie, Agree(s[n], M, Min({c.trie[n].end, Len(M)})), NEW l \in Kinds
  PROVE  PagingIn(c, s, M, PageInLayer(r, n, l, Len(M)))
  <1>1. PICK d : d = r.cache
    OBVIOUS
  <1>0. \A k, target : Result(Restore(d, l, k, target))
    BY ResultIs
  <1>2. Sound(d, s) /\ Kept(c, d) /\ Level(d) /\ Inside(d, M) /\ r.ok \in BOOLEAN
    BY <1>1 DEF PagingIn, Switched
  <1>3. n \in DOMAIN d.trie /\ d.trie[n].end = c.trie[n].end
    BY <1>2 DEF Kept, SameNodes
  <1>4. PICK target \in Nat : target = Min({d.trie[n].end, Len(M)}) /\ target <= Len(M) /\ target <= d.trie[n].end
    <2>1. d.trie[n].end \in Nat /\ Len(M) \in Nat
      BY <1>3, TreeFacts, LenProperties DEF Words
    <2>2. Min({d.trie[n].end, Len(M)}) = IF d.trie[n].end <= Len(M) THEN d.trie[n].end ELSE Len(M)
      BY <2>1, MinTwo
    <2> QED BY <2>1, <2>2
  <1>5. PICK h : h = Held(d.trie[n], l)
    OBVIOUS
  <1>6. PICK f : f = PageInLayer(r, n, l, Len(M))
    OBVIOUS
  <1>7. f = r \/ f = Restore(d, l, h, target)
    BY <1>1, <1>4, <1>5, <1>6, Zenon DEF PageInLayer
  <1>8. /\ d.trie[n].kv \in KVSnaps /\ Fits(d.trie[n].kv, Len(d.kv.buf))
        /\ d.trie[n].rec \in RecSnaps /\ RecOf(d.trie[n].rec, s[n])
    <2>1. Tree(d.trie, s)
      BY <1>2 DEF Sound
    <2>2. d.trie[n] \in Node
      BY <1>3, <2>1, TreeFacts
    <2> QED BY <1>2, <1>3, <2>2 DEF Sound, Node
  <1>9. CASE l = "kv" /\ f = Restore(d, l, h, target)
    <2>1. f = RestoreKV(d, h, target) /\ h = d.trie[n].kv
      BY <1>5, <1>9 DEF Restore, Held
    <2>2. Restored(d, s, target, f)
      BY <1>2, <1>8, <2>1, RestoreKVIs
    <2>3. PICK e : e = f.cache
      OBVIOUS
    <2>4. f.ok \in BOOLEAN /\ Sound(e, s) /\ Kept(d, e)
      BY <2>2, <2>3 DEF Restored
    <2>5. CASE ~f.ok
      <3>1. e = d
        BY <2>2, <2>3, <2>5 DEF Restored
      <3> QED BY <1>0, <1>2, <1>6, <1>9, <2>3, <2>4, <3>1 DEF PagingIn, Switched
    <2>6. CASE f.ok
      <3>1. e.kv.off <= target /\ e.rec = d.rec
        BY <2>2, <2>3, <2>6 DEF Restored
      <3>2. Level(e) /\ Kept(c, e)
        BY <1>2, <2>4, <3>1, LevelOf, KeptTwice
      <3>3. e.kv.off \in Nat /\ Len(M) \in Nat
        BY <2>4, LenProperties DEF Sound, Caches, KVs, Words
      <3>4. e.kv.off <= Len(M)
        BY <1>4, <3>1, <3>3
      <3>5. Inside(e, M)
        BY <1>2, <3>1, <3>4 DEF Inside
      <3> QED BY <1>0, <1>6, <1>9, <2>3, <2>4, <3>2, <3>5 DEF PagingIn, Switched
    <2> QED BY <2>4, <2>5, <2>6
  <1>10. CASE l = "rec" /\ f = Restore(d, l, h, target)
    <2>1. f = RestoreRec(d, h, target) /\ h = d.trie[n].rec
      BY <1>5, <1>10 DEF Restore, Held
    <2>2. PICK e : e = f.cache
      OBVIOUS
    <2>3. /\ f.ok \in BOOLEAN /\ Sound(e, s) /\ Kept(d, e) /\ e.kv = d.kv
          /\ ~f.ok => e = d
          /\ f.ok => Len(e.rec) = target /\ e.rec = IF h = None THEN d.rec ELSE h
      BY <1>2, <1>8, <2>1, <2>2, RestoreRecIs
    <2>4. CASE ~f.ok
      BY <1>0, <1>2, <1>6, <1>10, <2>2, <2>3, <2>4 DEF PagingIn, Switched
    <2>5. CASE f.ok
      <3>1. Level(e) /\ Kept(c, e)
        BY <1>2, <1>10, <2>3, LevelOf, KeptTwice
      <3>2. Agree(M, e.rec, Len(e.rec))
        <4>1. CASE h = None
          BY <1>2, <2>3, <2>5, <4>1 DEF Inside
        <4>2. CASE h # None
          <5>1. e.rec = h /\ Len(h) = target /\ Agree(s[n], h, target) /\ h \in Words
            BY <1>8, <2>1, <2>3, <2>5, <4>2 DEF RecOf, RecSnaps
          <5>2. Agree(s[n], M, target)
            BY <1>3, <1>4
          <5>3. PICK x : x = s[n] /\ x \in Words
            BY TreeFacts
          <5>4. target <= target
            OBVIOUS
          <5>5. Agree(M, x, target)
            BY <5>2, <5>3, <5>4, AgreeLess DEF Words
          <5>6. Agree(M, h, target)
            BY <5>1, <5>3, <5>4, <5>5, AgreeTwice
          <5> QED BY <5>1, <5>6
        <4> QED BY <4>1, <4>2
      <3>3. Inside(e, M)
        BY <1>2, <2>3, <3>2 DEF Inside
      <3> QED BY <1>0, <1>6, <1>10, <2>2, <2>3, <3>1, <3>3 DEF PagingIn, Switched
    <2> QED BY <2>3, <2>4, <2>5
  <1> QED BY <1>6, <1>7, <1>9, <1>10, LayersAre

\* of those of a node,
LEMMA PageInNodeIs ==
  ASSUME NEW c, NEW s, Tree(c.trie, s), NEW M \in Words, NEW r, PagingIn(c, s, M, r),
         NEW n \in DOMAIN c.trie, Agree(s[n], M, Min({c.trie[n].end, Len(M)}))
  PROVE  PagingIn(c, s, M, PageInNode(r, n, Len(M)))
  <1>1. PICK a : a = PageInLayer(r, n, Layers[1], Len(M))
    OBVIOUS
  <1>2. PagingIn(c, s, M, a)
    BY <1>1, LayersAre, PageInLayerIs
  <1>3. PICK b : b = PageInLayer(a, n, Layers[2], Len(M))
    OBVIOUS
  <1>4. Len(Layers) # 1 => PagingIn(c, s, M, b)
    BY <1>2, <1>3, LayersAre, PageInLayerIs
  <1>5. PageInNode(r, n, Len(M)) = IF Len(Layers) = 1 THEN a ELSE b
    BY <1>1, <1>3 DEF PageInNode, EachLayer
  <1> QED BY <1>2, <1>4, <1>5

\* The nodes of a path that spells M agree with M.
LEMMA LeadingFacts ==
  ASSUME NEW t, NEW s, Tree(t, s), NEW M \in Words, NEW path, Leading(t, s, M, path)
  PROVE  \A i \in 1 .. Len(path) : path[i] \in DOMAIN t /\ Agree(s[path[i]], M, Min({t[path[i]].end, Len(M)}))
  <1>1. Walks(t, path) /\ Agree(s[Last(path)], M, Len(M))
    BY DEF Leading
  <1>2. Len(path) \in Nat /\ Last(path) = path[Len(path)] /\ \A i \in 1 .. Len(path) : path[i] \in DOMAIN t
    BY <1>1, WalkFacts
  <1>3. ASSUME NEW i \in 1 .. Len(path) PROVE Agree(s[path[i]], M, Min({t[path[i]].end, Len(M)}))
    <2>1. PICK a \in Words, b \in Words : a = s[path[i]] /\ b = s[Last(path)] /\ Len(a) = t[path[i]].end
      <3>1. Len(path) \in 1 .. Len(path)
        BY <1>2
      <3> QED BY <1>2, <3>1, TreeFacts
    <2>2. Agree(b, a, Len(a))
      <3>1. PICK j \in 1 .. Len(path) : j = Len(path) /\ i \in 1 .. j
        BY <1>2
      <3>2. Agree(s[path[j]], s[path[i]], t[path[i]].end)
        BY <1>1, <3>1, WalkAgrees
      <3> QED BY <1>2, <2>1, <3>1, <3>2
    <2>3. PICK k \in Nat : k = Min({t[path[i]].end, Len(M)}) /\ k <= Len(a) /\ k <= Len(M)
      <3>1. Len(a) \in Nat /\ Len(M) \in Nat
        BY LenProperties DEF Words
      <3> QED BY <2>1, <3>1, MinTwo
    <2>4. Len(a) \in Nat /\ Len(M) \in Nat
      BY LenProperties DEF Words
    <2>5. Agree(a, b, k)
      BY <2>2, <2>3, <2>4, AgreeLess DEF Words
    <2>6. Agree(b, M, k)
      BY <1>1, <2>1, <2>3, <2>4, AgreeLess DEF Words
    <2>7. Agree(a, M, k)
      BY <2>3, <2>5, <2>6, AgreeTwice
    <2> QED BY <2>1, <2>3, <2>7
  <1> QED BY <1>2, <1>3

\* What page-in of the nodes of a path does, one after the other.
Turns(along, c, path, matched) ==
    /\ along[0] = Done(c) /\ PageIn(c, path, matched) = along[Len(path)].cache
    /\ \A i \in 1 .. Len(path) : along[i] = PageInNode(along[i - 1], path[i], matched)

\* and of those along the path.
LEMMA PageInTurns ==
  ASSUME NEW c, NEW s, NEW M \in Words, Switched(c, s, M, c), NEW path, Leading(c.trie, s, M, path)
  PROVE  \E along : Turns(along, c, path, Len(M)) /\ PagingIn(c, s, M, along[Len(path)])
  <1> DEFINE N == Len(path)
             L == Len(M)
             a == Done(c)
             along == CHOOSE along : along = [i \in 0 .. N |-> IF i = 0 THEN a ELSE PageInNode(along[i - 1], path[i], L)]
             W == {r \in [ok : BOOLEAN, cache : Caches] : PagingIn(c, s, M, r)}
             S == [i \in 0 .. N |-> W]
             step == [p \in (1 .. N) \X W |-> PageInNode(p[2], path[p[1]], L)]
  <1>1. PageIn(c, path, L) = along[N].cache
    BY DEF PageIn
  <1>2. Tree(c.trie, s) /\ Sound(c, s) /\ c \in Caches
    BY DEF Switched, Sound
  <1>3. N \in Nat /\ \A i \in 1 .. N : path[i] \in DOMAIN c.trie /\ Agree(s[path[i]], M, Min({c.trie[path[i]].end, L}))
    <2>1. N \in Nat
      BY <1>2, WalkFacts DEF Leading
    <2> QED BY <1>2, <2>1, LeadingFacts
  <1>4. a \in W /\ a.cache = c
    <2>1. a = [ok |-> TRUE, cache |-> c]
      BY DEF Done
    <2>2. a.cache = c /\ a.ok = TRUE
      BY <2>1
    <2>3. PagingIn(c, s, M, a)
      BY <2>2, ResultIs DEF PagingIn
    <2> QED BY <1>2, <2>1, <2>3
  <1>5. ASSUME NEW i \in 1 .. N, NEW r \in W PROVE PageInNode(r, path[i], L) \in W
    <2>1. PICK n : n = path[i]
      OBVIOUS
    <2>2. PICK v : v = PageInNode(r, n, L)
      OBVIOUS
    <2>3. n \in DOMAIN c.trie /\ Agree(s[n], M, Min({c.trie[n].end, L}))
      BY <1>3, <2>1
    <2>4. PagingIn(c, s, M, r)
      OBVIOUS
    <2>5. PagingIn(c, s, M, v)
      BY <1>2, <2>2, <2>3, <2>4, PageInNodeIs
    <2>6. v.ok \in BOOLEAN /\ v.cache \in Caches
      BY <2>5 DEF PagingIn, Switched, Sound
    <2>7. v = [ok |-> v.ok, cache |-> v.cache]
      BY <2>5 DEF PagingIn, Result
    <2> QED BY <2>1, <2>2, <2>5, <2>6, <2>7
  <1> HIDE DEF a, W
  <1>6. \E f : f = [i \in 0 .. N |-> IF i = 0 THEN a ELSE PageInNode(f[i - 1], path[i], L)]
    <2>0. N \in Nat /\ \A i \in 0 .. N : S[i] = W
      BY <1>3
    <2>1. \A i \in 1 .. N : i - 1 \in 0 .. N /\ i \in 0 .. N
      BY <2>0
    <2>2. \A i \in 1 .. N : \A r \in W : step[<<i, r>>] = PageInNode(r, path[i], L)
      OBVIOUS
    <2>3. \A i \in 1 .. N : \A r \in S[i - 1] : step[<<i, r>>] \in S[i]
      BY <1>5, <2>0, <2>1, <2>2
    <2>4. a \in S[0]
      BY <1>4, <2>0
    <2> HIDE DEF S, step, N
    <2>5. PICK f : Iteration(f, N, a, step) /\ Stays(f, N, S)
      <3>1. Leads(S, N, step)
        BY <2>3 DEF Leads
      <3> QED BY <2>4, <2>0, <3>1, Iterates
    <2>6. ASSUME NEW i \in 0 .. N, i # 0 PROVE step[<<i, f[i - 1]>>] = PageInNode(f[i - 1], path[i], L)
      <3>1. i \in 1 .. N /\ i - 1 \in 0 .. N
        BY <2>0, <2>6
      <3>2. f[i - 1] \in W
        BY <2>0, <2>5, <3>1 DEF Stays
      <3> QED BY <2>2, <3>1, <3>2
    <2>7. [i \in 0 .. N |-> IF i = 0 THEN a ELSE step[<<i, f[i - 1]>>]]
            = [i \in 0 .. N |-> IF i = 0 THEN a ELSE PageInNode(f[i - 1], path[i], L)]
      BY <2>6, Zenon
    <2> QED BY <2>5, <2>7, Zenon DEF Iteration
  <1>7. along = [i \in 0 .. N |-> IF i = 0 THEN a ELSE PageInNode(along[i - 1], path[i], L)]
    BY <1>6, Zenon DEF a
  <1>8. along[0] = a /\ \A i \in 1 .. N : along[i] = PageInNode(along[i - 1], path[i], L)
    <2> HIDE DEF along
    <2>1. \A i \in 0 .. N : along[i] = IF i = 0 THEN a ELSE PageInNode(along[i - 1], path[i], L)
      BY <1>7
    <2>2. 0 \in 0 .. N /\ \A i \in 1 .. N : i \in 0 .. N /\ i # 0
      BY <1>3
    <2> QED BY <2>1, <2>2
  <1> HIDE DEF along
  <1>9. along[N] \in W
    <2>1. \A i \in 0 .. N : S[i] = W
      OBVIOUS
    <2>2. \A i \in 1 .. N : i - 1 \in 0 .. N /\ i \in 0 .. N
      BY <1>3
    <2>3. \A i \in 1 .. N : along[i - 1] \in S[i - 1] => along[i] \in S[i]
      BY <1>5, <1>8, <2>1, <2>2
    <2>4. along[0] \in S[0] /\ N \in 0 .. N
      BY <1>3, <1>4, <1>8, <2>1
    <2> HIDE DEF S
    <2>5. along[N] \in S[N]
      BY <1>3, <2>3, <2>4, Iterated
    <2> QED BY <2>1, <2>4, <2>5
  <1>10. PagingIn(c, s, M, along[N])
    BY <1>9 DEF W
  <1>11. Turns(along, c, path, L)
    BY <1>1, <1>8 DEF Turns, a
  <1> QED BY <1>10, <1>11

\* What page-in leaves.
LEMMA PageInIs ==
  ASSUME NEW c, NEW s, NEW M \in Words, Switched(c, s, M, c), NEW path, Leading(c.trie, s, M, path)
  PROVE  Switched(c, s, M, PageIn(c, path, Len(M)))
  <1>1. PICK along : Turns(along, c, path, Len(M)) /\ PagingIn(c, s, M, along[Len(path)])
    BY PageInTurns
  <1> QED BY <1>1 DEF Turns, PagingIn

\* A state of align: the caches of the kinds K are at the offset, or all were freed.
Aligning(c, s, off, r, K) ==
    /\ r.ok \in BOOLEAN /\ Sound(r.cache, s) /\ Kept(c, r.cache) /\ Level(r.cache)
    /\ r.cache.rec \in {c.rec, <<>>} /\ r.cache.kv.off <= c.kv.off
    /\ r.ok => /\ "kv" \in K => r.cache.kv.off = off
               /\ "rec" \in K => Len(r.cache.rec) = off
    /\ ~r.ok => r.cache.kv.off = 0 /\ r.cache.rec = <<>>

\* Alignment of one cache,
LEMMA AlignLayerIs ==
  ASSUME NEW c, NEW s, Sound(c, s), NEW off \in Nat, NEW r, NEW K, Aligning(c, s, off, r, K), NEW l \in Kinds
  PROVE  Aligning(c, s, off, AlignLayer(r, l, off), K \cup {l})
  <1>1. PICK d : d = r.cache
    OBVIOUS
  <1>2. /\ Sound(d, s) /\ Kept(c, d) /\ Level(d) /\ r.ok \in BOOLEAN
        /\ d.rec \in {c.rec, <<>>} /\ d.kv.off <= c.kv.off
    BY <1>1 DEF Aligning
  <1>0. c.kv.off \in Nat /\ d.kv.off \in Nat
    BY <1>2, OffsetType
  <1>3. PICK f : f = Restore(d, l, None, off)
    OBVIOUS
  <1>4. PICK g : g = Failed(FreeAll(d))
    OBVIOUS
  <1>5. AlignLayer(r, l, off) = IF ~r.ok \/ Offset(d, l) = off THEN r ELSE IF f.ok THEN f ELSE g
    BY <1>1, <1>3, <1>4, Zenon DEF AlignLayer
  <1>6. l = "kv" \/ l = "rec"
    BY LayersAre
  <1>7. CASE ~r.ok \/ Offset(d, l) = off
    <2>1. l = "kv" => Offset(d, l) = d.kv.off
      BY DEF Offset
    <2>2. l = "rec" => Offset(d, l) = Len(d.rec)
      BY DEF Offset
    <2>3. AlignLayer(r, l, off) = r
      BY <1>5, <1>7
    <2>4. r.ok => ("kv" \in K \cup {l} => d.kv.off = off)
      BY <1>1, <1>6, <1>7, <2>1 DEF Aligning
    <2>5. r.ok => ("rec" \in K \cup {l} => Len(d.rec) = off)
      BY <1>1, <1>6, <1>7, <2>2 DEF Aligning
    <2>6. ~r.ok => d.kv.off = 0 /\ d.rec = <<>>
      BY <1>1 DEF Aligning
    <2> QED BY <1>1, <1>2, <2>3, <2>4, <2>5, <2>6 DEF Aligning
  <1>8. CASE r.ok /\ Offset(d, l) # off /\ ~f.ok
    <2>1. AlignLayer(r, l, off) = g
      BY <1>5, <1>8
    <2>2. PICK e : e = FreeAll(d)
      OBVIOUS
    <2>3. g.ok = FALSE /\ g.cache = e
      BY <1>4, <2>2, ResultIs
    <2>4. Sound(e, s) /\ Kept(d, e) /\ e.rec = <<>> /\ e.kv.off = 0
      BY <1>2, <2>2, FreeAllIs
    <2>5. Kept(c, e) /\ Level(e)
      BY <1>2, <2>4, KeptTwice, LevelOf
    <2>6. e.kv.off <= c.kv.off /\ e.rec \in {c.rec, <<>>}
      BY <1>0, <2>4
    <2>7. Aligning(c, s, off, g, K \cup {l})
      BY <2>3, <2>4, <2>5, <2>6 DEF Aligning
    <2> QED BY <2>1, <2>7
  <1>9. CASE r.ok /\ Offset(d, l) # off /\ f.ok
    <2>1. AlignLayer(r, l, off) = f
      BY <1>5, <1>9
    <2>2. PICK e : e = f.cache
      OBVIOUS
    <2>3. CASE l = "kv"
      <3>1. f = RestoreKV(d, None, off)
        BY <1>3, <2>3 DEF Restore
      <3>2. None \in KVSnaps /\ Fits(None, Len(d.kv.buf))
        BY DEF KVSnaps, Fits
      <3>3. Restored(d, s, off, f) /\ f.cache.kv.off = off
        BY <1>2, <1>9, <3>1, <3>2, RestoreKVIs
      <3>4. Sound(e, s) /\ Kept(d, e) /\ e.rec = d.rec /\ e.kv.off = off
        BY <1>9, <2>2, <3>3 DEF Restored
      <3>5. off <= c.kv.off
        <4>1. ~(off > d.kv.off)
          <5>1. ASSUME off > d.kv.off PROVE FALSE
            <6>1. f = Failed(d)
              BY <3>1, <5>1 DEF RestoreKV
            <6> QED BY <1>9, <6>1, ResultIs
          <5> QED BY <5>1
        <4> QED BY <1>0, <1>2, <4>1
      <3>6. Kept(c, e) /\ Level(e)
        BY <1>2, <3>4, KeptTwice, LevelOf
      <3>7. "rec" \in K => Len(e.rec) = off
        BY <1>1, <1>9, <3>4 DEF Aligning
      <3>8. Aligning(c, s, off, f, K \cup {l})
        BY <1>2, <1>9, <2>2, <2>3, <3>4, <3>5, <3>6, <3>7 DEF Aligning
      <3> QED BY <2>1, <3>8
    <2>4. CASE l = "rec"
      <3>1. f = RestoreRec(d, None, off)
        BY <1>3, <2>4 DEF Restore
      <3>2. None \in RecSnaps
        BY DEF RecSnaps
      <3>3. Len(e.rec) = off /\ e.rec = d.rec
        BY <1>2, <1>9, <2>2, <3>1, <3>2, RestoreRecIs
      <3>4. Offset(d, l) = off
        BY <2>4, <3>3 DEF Offset
      <3> QED BY <1>9, <3>4
    <2> QED BY <1>6, <2>3, <2>4
  <1> QED BY <1>2, <1>7, <1>8, <1>9

\* All caches are at one offset.
AllAt(c, o) == \A l \in Kinds : Offset(c, l) = o

\* and of all: they end at one offset.
LEMMA AlignIs ==
  ASSUME NEW c, NEW s, NEW M \in Words, Switched(c, s, M, c)
  PROVE  /\ Switched(c, s, M, Align(c, MinOffset(c)))
         /\ \E o \in Nat : AllAt(Align(c, MinOffset(c)), o)
  <1>0. Sound(c, s) /\ Level(c) /\ Inside(c, M)
    BY DEF Switched
  <1>1. PICK off \in Nat : off = MinOffset(c)
    BY <1>0, OffsetType
  <1>2. PICK z : z = Done(c)
    OBVIOUS
  <1>3. Aligning(c, s, off, z, {})
    <2>1. z.ok = TRUE /\ z.cache = c
      BY <1>2, ResultIs
    <2>2. c.kv.off <= c.kv.off
      BY <1>0, OffsetType
    <2> QED BY <1>0, <2>1, <2>2, KeptSelf DEF Aligning
  <1>4. PICK a : a = AlignLayer(z, Layers[1], off)
    OBVIOUS
  <1>5. Aligning(c, s, off, a, {} \cup {Layers[1]})
    BY <1>0, <1>3, <1>4, LayersAre, AlignLayerIs
  <1>6. PICK b : b = AlignLayer(a, Layers[2], off)
    OBVIOUS
  <1>7. Len(Layers) # 1 => Aligning(c, s, off, b, ({} \cup {Layers[1]}) \cup {Layers[2]})
    BY <1>0, <1>5, <1>6, LayersAre, AlignLayerIs
  <1>8. Align(c, off) = IF Len(Layers) = 1 THEN a.cache ELSE b.cache
    BY <1>2, <1>4, <1>6 DEF Align, EachLayer
  <1>9. \E r : Aligning(c, s, off, r, Kinds) /\ Align(c, off) = r.cache
    <2>1. {} \cup {Layers[1]} = {Layers[1]}
      OBVIOUS
    <2> QED BY <1>5, <1>7, <1>8, <2>1, LayersAre
  <1>10. PICK r, d : Aligning(c, s, off, r, Kinds) /\ Align(c, off) = d /\ d = r.cache
    BY <1>9
  <1>11. Sound(d, s) /\ Kept(c, d) /\ Level(d) /\ d.rec \in {c.rec, <<>>} /\ d.kv.off <= c.kv.off
    BY <1>10 DEF Aligning
  <1>12. Inside(d, M)
    <2>1. Agree(M, d.rec, Len(d.rec))
      BY <1>0, <1>11, EmptyAgrees DEF Inside
    <2>2. ASSUME "kv" \in Kinds PROVE d.kv.off <= Len(M)
      <3>1. c.kv.off <= Len(M)
        BY <1>0, <2>2 DEF Inside
      <3>2. c.kv.off \in Nat /\ d.kv.off \in Nat /\ Len(M) \in Nat
        BY <1>0, <1>11, OffsetType, LenProperties DEF Words
      <3> QED BY <1>11, <3>1, <3>2
    <2> QED BY <2>1, <2>2 DEF Inside
  <1>13. \E o \in Nat : AllAt(d, o)
    <2>1. \A l \in Kinds : l \in {"kv", "rec"}
      BY LayersAre
    <2>2. CASE r.ok
      <3>1. AllAt(d, off)
        BY <1>10, <2>1, <2>2 DEF AllAt, Offset, Aligning
      <3> QED BY <3>1
    <2>3. CASE ~r.ok
      <3>1. d.kv.off = 0 /\ Len(d.rec) = 0
        BY <1>10, <2>3, EmptySeq DEF Aligning
      <3>2. AllAt(d, 0)
        BY <2>1, <3>1 DEF AllAt, Offset
      <3> QED BY <3>2
    <2> QED BY <1>10, <2>2, <2>3
  <1> QED BY <1>1, <1>10, <1>11, <1>12, <1>13 DEF Switched

\* The path down to its last node within an offset.
LEMMA TrimmedIs ==
  ASSUME NEW t, NEW s, Tree(t, s), NEW M \in Words, NEW path, Leading(t, s, M, path),
         NEW off \in Nat, off <= Len(M)
  PROVE  LET q == Trimmed(t, path, off)
         IN Walks(t, q) /\ q[1] = Root /\ Agree(M, s[Last(q)], Len(s[Last(q)]))
  <1>1. Walks(t, path) /\ path[1] = Root /\ Agree(s[Last(path)], M, Len(M))
    BY DEF Leading
  <1>2. /\ Len(path) \in Nat /\ Len(path) >= 1 /\ path \in Seq(DOMAIN t)
        /\ \A i \in 1 .. Len(path) : path[i] \in DOMAIN t
    BY <1>1, WalkFacts
  <1>3. PICK S : S = {i \in DOMAIN path : t[path[i]].end <= off}
    OBVIOUS
  <1>4. DOMAIN path = 1 .. Len(path)
    BY <1>2, LenProperties
  <1>5. 1 \in S
    <2>1. t[Root].end = 0
      BY TreeFacts DEF Tree
    <2> QED BY <1>1, <1>2, <1>3, <1>4, <2>1
  <1>6. PICK k : k = Max(S)
    OBVIOUS
  <1>7. k \in 1 .. Len(path) /\ t[path[k]].end <= off
    <2>1. S \in SUBSET (0 .. Len(path)) /\ S # {}
      BY <1>3, <1>4, <1>5
    <2>2. k \in S
      BY <1>2, <1>6, <2>1, MaxOf
    <2> QED BY <1>3, <1>4, <2>2
  <1>8. PICK q : q = SubSeq(path, 1, k)
    OBVIOUS
  <1>9. q \in Seq(DOMAIN t) /\ Len(q) = k /\ \A i \in 1 .. k : q[i] = path[i]
    <2>1. PICK D : D = DOMAIN t
      OBVIOUS
    <2>2. path \in Seq(D) /\ k \in 0 .. Len(path)
      BY <1>2, <1>7, <2>1
    <2> QED BY <1>8, <2>1, <2>2, FirstEntries
  <1>10. q # <<>> /\ q[1] = path[1] /\ Last(q) = path[k]
    <2>1. k # 0 /\ 1 \in 1 .. k /\ k \in 1 .. k
      BY <1>2, <1>7
    <2> QED BY <1>9, <2>1, EmptySeq DEF Last
  <1>11. Walks(t, q)
    <2>1. ASSUME NEW i \in 2 .. Len(q) PROVE t[q[i]].parent = q[i - 1]
      <3>1. i \in 1 .. k /\ i - 1 \in 1 .. k /\ i \in 2 .. Len(path)
        BY <1>2, <1>7, <1>9
      <3> QED BY <1>1, <1>9, <3>1 DEF Walks
    <2> QED BY <1>9, <1>10, <2>1 DEF Walks
  <1>12. Agree(M, s[path[k]], Len(s[path[k]]))
    <2>1. PICK x \in Words : x = s[path[k]] /\ Len(x) = t[path[k]].end
      BY <1>2, <1>7, TreeFacts
    <2>2. Len(x) \in Nat /\ Len(M) \in Nat
      BY LenProperties DEF Words
    <2>3. Min({t[path[k]].end, Len(M)}) = Len(x)
      BY <1>7, <2>1, <2>2, MinTwo
    <2>4. Agree(x, M, Len(x)) /\ Len(x) <= Len(x)
      BY <1>7, <2>1, <2>2, <2>3, LeadingFacts
    <2>5. Agree(M, x, Len(x))
      BY <2>2, <2>4, AgreeLess DEF Words
    <2> QED BY <2>1, <2>5
  <1>13. Trimmed(t, path, off) = q
    BY <1>3, <1>6, <1>8 DEF Trimmed
  <1> QED BY <1>1, <1>10, <1>11, <1>12, <1>13

\* What switchToPath leaves: caches at one offset, on a path that M starts with.
Settled(c, s, M, d) ==
    /\ Sound(d, s) /\ Level(d) /\ Inside(d, M) /\ d.rows = c.rows /\ d.base = c.base
    /\ \E o \in Nat : AllAt(d, o)
    /\ Agree(M, s[Last(d.path)], Len(s[Last(d.path)]))

\* The path ends where the caches do.
LEMMA SettleIs ==
  ASSUME NEW c, NEW s, NEW M \in Words, Switched(c, s, M, c), NEW path, Leading(c.trie, s, M, path)
  PROVE  Settled(c, s, M, Settle(c, path))
  <1>1. PICK a : a = Align(c, MinOffset(c))
    OBVIOUS
  <1>2. Switched(c, s, M, a) /\ \E o \in Nat : AllAt(a, o)
    BY <1>1, AlignIs
  <1>3. Sound(c, s) /\ Tree(c.trie, s) /\ Inside(c, M)
    BY DEF Switched, Sound
  <1>4. PICK q : q = Trimmed(c.trie, path, MinOffset(c))
    OBVIOUS
  <1>5. Walks(c.trie, q) /\ q[1] = Root /\ Agree(M, s[Last(q)], Len(s[Last(q)]))
    <2>1. MinOffset(c) \in Nat /\ MinOffset(c) <= Len(M)
      BY <1>3, OffsetType, MinimumOffsetInside
    <2> QED BY <1>3, <1>4, <2>1, TrimmedIs
  <1>6. Sound(a, s) /\ SameNodes(c.trie, a.trie) /\ Level(a) /\ Inside(a, M) /\ a.rows = c.rows /\ a.base = c.base
    BY <1>2 DEF Switched, Kept
  <1>7. Walks(a.trie, q)
    BY <1>3, <1>5, <1>6, SameWalks
  <1>8. PICK d : d = [a EXCEPT !.path = q]
    OBVIOUS
  <1>9. Sound(d, s) /\ Apart(a, d) /\ d.path = q
    BY <1>5, <1>6, <1>7, <1>8, PathSet
  <1>10. d.kv = a.kv /\ d.rec = a.rec /\ d.rows = a.rows /\ d.base = a.base
    BY <1>9 DEF Apart
  <1>11. \E o \in Nat : AllAt(d, o)
    BY <1>2, <1>10 DEF AllAt, Offset
  <1>12. Level(d) /\ Inside(d, M)
    BY <1>6, <1>10 DEF Level, Inside
  <1>13. Settle(c, path) = d
    BY <1>1, <1>4, <1>8 DEF Settle
  <1> QED BY <1>5, <1>6, <1>9, <1>10, <1>11, <1>12, <1>13 DEF Settled

\* The last node that two paths from the root have in common.
Shared(p, q) == Max({i \in 1 .. Min({Len(p), Len(q)}) : SubSeq(p, 1, i) = SubSeq(q, 1, i)})

\* Two paths from the root have it in common at least.
LEMMA CommonNode ==
  ASSUME NEW t, NEW p, NEW q, Walks(t, p), Walks(t, q), p[1] = Root, q[1] = Root, NEW k, k = Shared(p, q)
  PROVE  k \in 1 .. Len(p) /\ k \in 1 .. Len(q) /\ p[k] = q[k]
  <1>0. PICK D : D = DOMAIN t
    OBVIOUS
  <1>1. /\ Len(p) \in Nat /\ Len(q) \in Nat /\ p \in Seq(D) /\ q \in Seq(D)
        /\ Len(p) >= 1 /\ Len(q) >= 1
    <2>1. p \in Seq(D) /\ q \in Seq(D) /\ p # <<>> /\ q # <<>>
      BY <1>0 DEF Walks
    <2> QED BY <2>1, EmptySeq, LenProperties
  <1>2. PICK m \in Nat : m = Min({Len(p), Len(q)}) /\ m <= Len(p) /\ m <= Len(q) /\ m >= 1
    BY <1>1, MinTwo
  <1>3. PICK S : S = {i \in 1 .. m : SubSeq(p, 1, i) = SubSeq(q, 1, i)}
    OBVIOUS
  <1>4. ASSUME NEW i \in 1 .. m
        PROVE  /\ Len(SubSeq(p, 1, i)) = i /\ \A j \in 1 .. i : SubSeq(p, 1, i)[j] = p[j]
               /\ Len(SubSeq(q, 1, i)) = i /\ \A j \in 1 .. i : SubSeq(q, 1, i)[j] = q[j]
               /\ SubSeq(p, 1, i) \in Seq(D) /\ SubSeq(q, 1, i) \in Seq(D)
    <2>1. i \in 0 .. Len(p) /\ i \in 0 .. Len(q)
      BY <1>1, <1>2
    <2> QED BY <1>1, <2>1, FirstEntries
  <1>5. 1 \in S
    <2>1. 1 \in 1 .. m /\ \A j \in 1 .. 1 : j = 1
      BY <1>2
    <2>2. SubSeq(p, 1, 1) = SubSeq(q, 1, 1)
      <3>1. PICK a, b : a = SubSeq(p, 1, 1) /\ b = SubSeq(q, 1, 1)
        OBVIOUS
      <3>2. a \in Seq(D) /\ b \in Seq(D) /\ Len(a) = 1 /\ Len(b) = 1 /\ a[1] = p[1] /\ b[1] = q[1]
        BY <1>4, <2>1, <3>1
      <3>3. Len(a) = Len(b) /\ \A i \in 1 .. Len(a) : a[i] = b[i]
        BY <2>1, <3>2
      <3> QED BY <3>1, <3>2, <3>3, SeqEqual
    <2> QED BY <1>3, <2>1, <2>2
  <1>6. k \in S
    <2>0. \A i \in S : i \in 1 .. m
      BY <1>3
    <2>1. S \in SUBSET (0 .. m) /\ S # {}
      <3>1. 1 .. m \subseteq 0 .. m
        BY <1>2
      <3> QED BY <1>5, <2>0, <3>1, Zenon
    <2>2. k = Max(S)
      BY <1>2, <1>3, Zenon DEF Shared
    <2> QED BY <1>2, <2>1, <2>2, MaxOf
  <1>7. k \in 1 .. m /\ SubSeq(p, 1, k) = SubSeq(q, 1, k)
    BY <1>3, <1>6
  <1>8. k \in 1 .. k
    BY <1>2, <1>7
  <1>9. p[k] = q[k]
    <2>1. SubSeq(p, 1, k)[k] = p[k] /\ SubSeq(q, 1, k)[k] = q[k]
      BY <1>4, <1>7, <1>8
    <2> QED BY <1>7, <2>1
  <1>10. k \in 1 .. Len(p) /\ k \in 1 .. Len(q)
    BY <1>1, <1>2, <1>7, SMTT(60)
  <1> QED BY <1>9, <1>10

\* switchToPath.
LEMMA SwitchToPathIs ==
  ASSUME NEW c, NEW s, Sound(c, s), Level(c), NEW M \in Words, NEW path, Leading(c.trie, s, M, path),
         Agree(s[Last(c.path)], c.rec, Len(c.rec))
  PROVE  Settled(c, s, M, SwitchToPath(c, path, Len(M)))
  <1>1. PICK k : k = Shared(c.path, path)
    OBVIOUS
  <1>2. Tree(c.trie, s) /\ Walks(c.trie, c.path) /\ c.path[1] = Root
    BY DEF Sound
  <1>3. k \in 1 .. Len(c.path) /\ k \in 1 .. Len(path) /\ c.path[k] = path[k]
    <2>1. Walks(c.trie, path) /\ path[1] = Root
      BY DEF Leading
    <2> QED BY <1>1, <1>2, <2>1, CommonNode
  <1>4. PICK n : n = c.path[k]
    OBVIOUS
  <1>5. /\ n \in DOMAIN c.trie /\ Agree(s[n], M, Min({c.trie[n].end, Len(M)}))
    BY <1>2, <1>3, <1>4, LeadingFacts
  <1>6. PICK target : target = RewindTarget(c.trie[n].end, Len(M))
    OBVIOUS
  <1>7. target \in Nat /\ target <= Len(M) /\ target <= c.trie[n].end /\ Agree(s[n], M, target)
    <2>1. c.trie[n].end \in Nat /\ Len(M) \in Nat
      BY <1>2, <1>5, TreeFacts, LenProperties DEF Words
    <2>2. target = Min({c.trie[n].end, Len(M)})
      BY <1>6 DEF RewindTarget
    <2>3. target = IF c.trie[n].end <= Len(M) THEN c.trie[n].end ELSE Len(M)
      <3>1. c.trie[n].end \in Int /\ Len(M) \in Int
        BY <2>1
      <3> QED BY <2>2, <3>1, MinTwo
    <2>4. target \in Nat /\ target <= Len(M) /\ target <= c.trie[n].end
      BY <2>1, <2>3
    <2> QED BY <1>5, <2>2, <2>4
  <1>8. ASSUME Len(c.rec) = target PROVE Agree(M, c.rec, target)
    <2>1. PICK a \in Words, b \in Words : a = s[n] /\ b = s[Last(c.path)]
      <3>1. Last(c.path) \in DOMAIN c.trie
        BY <1>2, WalkFacts
      <3> QED BY <1>2, <1>5, <3>1, TreeFacts
    <2>2. Agree(b, a, c.trie[n].end)
      <3>1. PICK j \in 1 .. Len(c.path) : j = Len(c.path) /\ k \in 1 .. j
        BY <1>2, <1>3, WalkFacts
      <3>2. Agree(s[c.path[j]], s[c.path[k]], c.trie[c.path[k]].end)
        BY <1>2, <3>1, WalkAgrees
      <3>3. Last(c.path) = c.path[Len(c.path)]
        BY <1>2, WalkFacts
      <3> QED BY <1>4, <2>1, <3>1, <3>2, <3>3
    <2>3. c.trie[n].end \in Nat /\ target <= target
      BY <1>2, <1>5, <1>7, TreeFacts
    <2>4. Agree(a, b, target) /\ Agree(M, a, target)
      BY <1>7, <2>1, <2>2, <2>3, AgreeLess DEF Words
    <2>5. Agree(b, c.rec, target)
      BY <1>8, <2>1
    <2>6. Agree(a, c.rec, target)
      BY <1>7, <2>3, <2>4, <2>5, AgreeTwice
    <2> QED BY <1>7, <2>3, <2>4, <2>6, AgreeTwice
  <1>9. PICK d : d = PageOut(c, k, Len(M))
    OBVIOUS
  <1>10. Sound(d, s) /\ Kept(c, d) /\ d.rec = c.rec
    BY <1>9, PageOutSound
  <1>11. Level(d)
    BY <1>10, LevelOf
  <1>12. PICK e : e = Rewind(d, target)
    OBVIOUS
  <1>13. Switched(d, s, M, e)
    BY <1>7, <1>8, <1>10, <1>11, <1>12, RewindIs
  <1>14. Sound(e, s) /\ Kept(d, e) /\ Level(e) /\ Inside(e, M)
    BY <1>13 DEF Switched
  <1>15. Kept(c, e)
    BY <1>10, <1>14, KeptTwice
  <1>16. Leading(e.trie, s, M, path)
    BY <1>2, <1>15, SameWalks DEF Leading, Kept
  <1>17. PICK f : f = PageIn(e, path, Len(M))
    OBVIOUS
  <1>18. Switched(e, s, M, f)
    <2>1. Switched(e, s, M, e)
      BY <1>14, KeptSelf DEF Switched
    <2> QED BY <1>16, <1>17, <2>1, PageInIs
  <1>19. Sound(f, s) /\ Kept(e, f) /\ Level(f) /\ Inside(f, M)
    BY <1>18 DEF Switched
  <1>20. Kept(c, f) /\ Switched(f, s, M, f)
    BY <1>15, <1>19, KeptSelf, KeptTwice DEF Switched
  <1>21. Leading(f.trie, s, M, path)
    BY <1>2, <1>20, SameWalks DEF Leading, Kept
  <1>22. PICK g : g = Settle(f, path)
    OBVIOUS
  <1>23. Settled(f, s, M, g)
    BY <1>20, <1>21, <1>22, SettleIs
  <1>24. Settled(c, s, M, g)
    BY <1>20, <1>23 DEF Settled, Kept
  <1>25. SwitchToPath(c, path, Len(M)) = g
    <2>1. SwitchToPath(c, path, Len(M)) =
            Settle(PageIn(Rewind(PageOut(c, k, Len(M)), RewindTarget(c.trie[c.path[k]].end, Len(M))), path, Len(M)), path)
      BY <1>1, Zenon DEF SwitchToPath, Shared
    <2> QED BY <1>4, <1>6, <1>9, <1>12, <1>17, <1>22, <2>1
  <1> QED BY <1>24, <1>25

----------------------------------------------------------------------------
(* The session.                                                            *)

\* Offsets are sorted, each of them once.
LEMMA AscendingIn ==
  ASSUME NEW n \in Nat, NEW S \in SUBSET (1 .. n)
  PROVE  Ascending(S) \in Seq(S) /\ Len(Ascending(S)) = Cardinality(S)
  <1>1. IsFiniteSet(S) /\ Cardinality(S) \in Nat
    <2>1. IsFiniteSet(1 .. n)
      BY FS_Interval
    <2>2. IsFiniteSet(S)
      BY <2>1, FS_Subset
    <2> QED BY <2>2, FS_CardinalityType
  <1>2. PICK N \in Nat : N = Cardinality(S)
    BY <1>1
  <1>3. ASSUME NEW i \in 1 .. N
        PROVE  \E x \in S : Cardinality({y \in S : y < x}) = i - 1
    <2>1. PICK k \in 1 .. N : k = N - i + 1 /\ N - k = i - 1
      <3>1. N - i + 1 \in 1 .. N /\ N - (N - i + 1) = i - 1
        BY <1>2
      <3> QED BY <3>1
    <2>2. PICK x \in S : Cardinality(Onwards(S, x)) = k
      BY <1>2, <2>1, KthLast
    <2>3. {y \in S : y < x} = S \ Onwards(S, x) /\ Onwards(S, x) \subseteq S
      <3>1. \A y \in S : y < x <=> ~(y >= x)
        OBVIOUS
      <3> QED BY <3>1 DEF Onwards
    <2>4. Cardinality(S \ Onwards(S, x)) = N - k
      <3>1. Cardinality(S \ Onwards(S, x)) = Cardinality(S) - Cardinality(S \cap Onwards(S, x))
        BY <1>1, FS_Difference, FS_Subset, <2>3
      <3>2. S \cap Onwards(S, x) = Onwards(S, x)
        BY <2>3
      <3> QED BY <1>2, <2>2, <3>1, <3>2
    <2> QED BY <2>1, <2>2, <2>3, <2>4
  <1>4. \A i \in 1 .. N : (CHOOSE x \in S : Cardinality({y \in S : y < x}) = i - 1) \in S
    BY <1>3
  <1>5. Ascending(S) \in [1 .. N -> S]
    BY <1>2, <1>4 DEF Ascending
  <1>6. PICK a : a = Ascending(S)
    OBVIOUS
  <1>7. a \in Seq(S) /\ Len(a) = N
    BY <1>2, <1>5, <1>6, SeqDef, LenProperties
  <1> QED BY <1>2, <1>6, <1>7

\* Snapshots scheduled: at these offsets, of these tokens.
Marks == [offset : Nat, user : BOOLEAN]

\* The snapshots taken at the pending offsets so far are of this word.
RowsOK(rows, pending, word, len) ==
    /\ Len(rows) = Len(pending)
    /\ \A i \in 1 .. Len(rows) : /\ Fits(rows[i].kv, len) /\ RecOf(rows[i].rec, word)
                                 /\ rows[i].rec # None => Len(rows[i].rec) <= pending[i].offset

\* The tokens evaluated or to be evaluated first.
Given(e) == e.inputs \o e.outputs

\* Between two requests; w is what the active path spells.
Resting(c, w) == c.rows = <<>> /\ MinOffset(c) <= Len(w) /\ Agree(w, c.rec, Len(c.rec))

\* While a prompt is computed, of which one token at least is left to decode.
Filling(c, e, w) ==
    /\ e.inputs \in Words /\ e.inputs # <<>> /\ e.outputs = <<>> /\ e.sample = None
    /\ MinOffset(c) <= Len(e.inputs) - 1
    /\ Agree(e.inputs, c.rec, Len(c.rec)) /\ Agree(e.inputs, w, Len(w))
    /\ e.pending \in Seq(Marks) /\ RowsOK(c.rows, e.pending, e.inputs, Len(c.kv.buf))

\* While tokens are generated, one of which the caches do not have yet.
Decoding(c, e, w) ==
    /\ e.inputs \in Words /\ e.outputs \in Words /\ e.sample \in Tokens
    /\ e.pending = <<>> /\ c.rows = <<>> /\ MinOffset(c) = Len(Given(e))
    /\ Agree(Given(e), c.rec, Len(c.rec)) /\ Agree(Given(e), w, Len(w))

\* What the phase of the request asks of the caches.
Serving(c, e, w) ==
    /\ Level(c) /\ \E o \in Nat : AllAt(c, o)
    /\ \/ e.phase = "idle" /\ Resting(c, w)
       \/ e.phase \in {"prefill", "attach"} /\ Filling(c, e, w)
       \/ e.phase = "decode" /\ Decoding(c, e, w)

\* The offset of all caches is the least.
LEMMA AllAtMin ==
  ASSUME NEW c, NEW s, Sound(c, s), NEW o \in Nat, AllAt(c, o)
  PROVE  MinOffset(c) = o
  <1>1. PICK l \in Kinds : Offset(c, l) = MinOffset(c)
    BY OffsetType
  <1> QED BY <1>1 DEF AllAt

\* What findBestMatch finds for begin: less than all of the prompt.
Matched(t, s, inputs, w) ==
    /\ Walks(t, w.path) /\ w.path[1] = Root /\ w.matched \in Nat /\ w.matched <= Len(inputs) - 1
    /\ Agree(s[Last(w.path)], inputs, w.matched)

BestMatch(t, inputs) ==
    LET all == FindBestMatch(t, Root, inputs)
    IN IF all.matched = Len(inputs) THEN FindBestMatch(t, Root, SubSeq(inputs, 1, all.matched - 1)) ELSE all

\* Whatever a prompt is, it goes on from the root.
LEMMA GoesOnFromRoot ==
  ASSUME NEW t, NEW s, Tree(t, s), NEW keys \in Words
  PROVE  GoesOn(t, s, Root, keys, keys) /\ t[Root].end = 0
  <1>1. Root \in DOMAIN t /\ t[Root].end = 0 /\ s[Root] = <<>>
    BY TreeFacts DEF Tree
  <1>2. Len(keys) \in Nat /\ Len(<<>>) = 0
    BY LenProperties, EmptySeq DEF Words
  <1>3. Agree(s[Root], keys, 0)
    BY <1>1, <1>2 DEF Agree
  <1>4. Len(keys) = 0 + Len(keys) /\ \A i \in 1 .. Len(keys) : 0 + i = i
    BY <1>2
  <1> QED BY <1>1, <1>3, <1>4 DEF GoesOn

\* begin never takes a match of the whole prompt.
LEMMA BestMatchIs ==
  ASSUME NEW t, NEW s, Tree(t, s), NEW inputs \in Words, inputs # <<>>
  PROVE  Matched(t, s, inputs, BestMatch(t, inputs))
  <1>1. ASSUME NEW keys \in Words
        PROVE  LET w == FindBestMatch(t, Root, keys)
               IN /\ Walks(t, w.path) /\ w.path[1] = Root /\ w.matched \in Nat
                  /\ w.matched <= Len(keys) /\ Agree(s[Last(w.path)], keys, w.matched)
    <2>1. PICK w : w = FindBestMatch(t, Root, keys)
      OBVIOUS
    <2>2. Match(t, s, Root, keys, w)
      BY <2>1, GoesOnFromRoot, FindBestMatchIs
    <2>3. t[Root].end = 0 /\ w.matched \in Nat
      BY <2>2, GoesOnFromRoot DEF Match
    <2>4. t[Root].end + w.matched = w.matched
      BY <2>3
    <2> QED BY <2>1, <2>2, <2>4 DEF Match
  <1>2. PICK N \in Nat : N = Len(inputs) /\ N >= 1
    BY LenProperties, EmptySeq DEF Words
  <1>3. PICK w : w = FindBestMatch(t, Root, inputs)
    OBVIOUS
  <1>4. /\ Walks(t, w.path) /\ w.path[1] = Root /\ w.matched \in Nat
        /\ w.matched <= N /\ Agree(s[Last(w.path)], inputs, w.matched)
    BY <1>1, <1>2, <1>3
  <1>5. CASE w.matched # N
    <2>1. BestMatch(t, inputs) = w
      BY <1>2, <1>3, <1>5 DEF BestMatch
    <2>2. w.matched <= N - 1
      BY <1>2, <1>4, <1>5
    <2> QED BY <1>2, <1>4, <2>1, <2>2 DEF Matched
  <1>6. CASE w.matched = N
    <2>1. PICK k \in 0 .. N : k = N - 1 /\ k \in Nat
      <3>1. N - 1 \in 0 .. N /\ N - 1 \in Nat
        BY <1>2
      <3> QED BY <3>1
    <2>2. PICK keys : keys = SubSeq(inputs, 1, k)
      OBVIOUS
    <2>3. keys \in Words /\ Len(keys) = k /\ Agree(keys, inputs, k)
      BY <1>2, <2>1, <2>2, FirstEntries DEF Words
    <2>4. PICK v : v = FindBestMatch(t, Root, keys)
      OBVIOUS
    <2>5. BestMatch(t, inputs) = v
      BY <1>2, <1>3, <1>6, <2>1, <2>2, <2>4 DEF BestMatch
    <2>6. /\ Walks(t, v.path) /\ v.path[1] = Root /\ v.matched \in Nat
          /\ v.matched <= k /\ Agree(s[Last(v.path)], keys, v.matched)
      BY <1>1, <2>3, <2>4
    <2>7. Agree(keys, inputs, v.matched)
      BY <2>1, <2>3, <2>6, AgreeLess DEF Words
    <2>8. Agree(s[Last(v.path)], inputs, v.matched)
      <3>1. v.matched <= v.matched
        BY <2>6
      <3> QED BY <2>6, <2>7, <3>1, AgreeTwice
    <2> QED BY <1>2, <2>1, <2>5, <2>6, <2>8 DEF Matched
  <1> QED BY <1>5, <1>6

\* Only what is scheduled differs.
Rescheduled(c, rows, base) == [c EXCEPT !.rows = rows, !.base = base]

\* Captures are scheduled apart from all else.
LEMMA RowsSet ==
  ASSUME NEW c, NEW s, Sound(c, s), NEW rows \in Seq(Snaps), NEW base \in Nat,
         NEW d, d = Rescheduled(c, rows, base)
  PROVE  /\ Sound(d, s) /\ d.trie = c.trie /\ d.path = c.path /\ d.kv = c.kv /\ d.rec = c.rec
         /\ d.rows = rows /\ d.base = base /\ d.paged = c.paged
  <1>1. c \in Caches
    BY DEF Sound
  <1>2. /\ d \in Caches /\ d.trie = c.trie /\ d.path = c.path /\ d.kv = c.kv /\ d.rec = c.rec
        /\ d.rows = rows /\ d.base = base /\ d.paged = c.paged
    BY <1>1 DEF Caches, Rescheduled
  <1> QED BY <1>2 DEF Sound

\* Offsets are those of the caches alone.
LEMMA SameOffsets ==
  ASSUME NEW c, NEW d, d.kv = c.kv, d.rec = c.rec
  PROVE  /\ MinOffset(d) = MinOffset(c) /\ \A o : AllAt(c, o) <=> AllAt(d, o)
         /\ \A l : Offset(d, l) = Offset(c, l)
         /\ Level(c) <=> Level(d)
  <1>1. \A l : Offset(d, l) = Offset(c, l)
    BY DEF Offset
  <1>2. MinOffset(d) = MinOffset(c)
    BY <1>1 DEF MinOffset
  <1> QED BY <1>1, <1>2 DEF AllAt, Level

\* The offsets at which snapshots are scheduled.
Offsets(inputs, prefix, matched) ==
    Ahead(SnapshotOffsets(inputs), prefix) \cup (IF prefix < matched THEN {matched} ELSE {})

\* Captures are scheduled within the prompt and ahead of the caches.
LEMMA OffsetsIn ==
  ASSUME NEW inputs \in Words, NEW prefix \in Nat, NEW matched \in Nat, matched <= Len(inputs)
  PROVE  Offsets(inputs, prefix, matched) \in SUBSET (1 .. Len(inputs)) /\
         \A o \in Offsets(inputs, prefix, matched) : o > prefix
  <1>1. PICK N \in Nat : N = Len(inputs)
    BY LenProperties DEF Words
  <1>2. PICK P \in Nat : P = PreThinking /\ P # 0
    BY PrefixCacheAssumption
  <1>3. ASSUME NEW o \in SnapshotOffsets(inputs) PROVE o \in 1 .. N
    <2>1. o \in 1 .. N - 1 \/ (N > P /\ o = N - P)
      BY <1>1, <1>2, <1>3 DEF SnapshotOffsets
    <2> QED BY <1>1, <1>2, <2>1
  <1>4. ASSUME NEW o \in Offsets(inputs, prefix, matched) PROVE o \in 1 .. N /\ o > prefix
    <2>1. o \in Ahead(SnapshotOffsets(inputs), prefix) \/ (prefix < matched /\ o = matched)
      BY DEF Offsets
    <2>2. CASE o \in Ahead(SnapshotOffsets(inputs), prefix)
      BY <1>3, <2>2 DEF Ahead
    <2>3. CASE prefix < matched /\ o = matched
      BY <1>1, <2>3
    <2> QED BY <2>1, <2>2, <2>3
  <1> QED BY <1>1, <1>4

\* The rows and marks of schedulePrefillSnapshots.
RowsFor(order) == [i \in DOMAIN order |-> NoSnapshots]
MarksFor(order, asked) == [i \in DOMAIN order |-> [offset |-> order[i], user |-> order[i] \in asked]]

\* Captures not yet taken are sound.
LEMMA ScheduledRows ==
  ASSUME NEW order \in Seq(Nat), NEW asked, NEW word, NEW len
  PROVE  /\ RowsFor(order) \in Seq(Snaps) /\ MarksFor(order, asked) \in Seq(Marks)
         /\ RowsOK(RowsFor(order), MarksFor(order, asked), word, len)
  <1>1. PICK N \in Nat : N = Len(order) /\ DOMAIN order = 1 .. N /\ \A i \in 1 .. N : order[i] \in Nat
    BY LenProperties
  <1>2. NoSnapshots \in Snaps /\ NoSnapshots.kv = None /\ NoSnapshots.rec = None
    BY DEF NoSnapshots, Snaps, KVSnaps, RecSnaps
  <1>3. PICK rows : rows = RowsFor(order)
    OBVIOUS
  <1>4. rows \in [1 .. N -> Snaps] /\ \A i \in 1 .. N : rows[i] = NoSnapshots
    BY <1>1, <1>2, <1>3 DEF RowsFor
  <1>5. rows \in Seq(Snaps) /\ Len(rows) = N
    BY <1>1, <1>4, SeqDef, LenProperties
  <1>6. PICK marks : marks = MarksFor(order, asked)
    OBVIOUS
  <1>7. marks \in [1 .. N -> Marks]
    <2>1. \A i \in 1 .. N : [offset |-> order[i], user |-> order[i] \in asked] \in Marks
      <3>1. \A x : (x \in asked) \in BOOLEAN
        OBVIOUS
      <3> QED BY <1>1, <3>1 DEF Marks
    <2> QED BY <1>1, <1>6, <2>1 DEF MarksFor
  <1>8. marks \in Seq(Marks) /\ Len(marks) = N
    BY <1>1, <1>7, SeqDef, LenProperties
  <1>9. RowsOK(rows, marks, word, len)
    <2>1. Len(rows) = Len(marks)
      BY <1>5, <1>8
    <2>2. ASSUME NEW i \in 1 .. Len(rows)
          PROVE  /\ Fits(rows[i].kv, len) /\ RecOf(rows[i].rec, word)
                 /\ rows[i].rec # None => Len(rows[i].rec) <= marks[i].offset
      <3>1. rows[i].kv = None /\ rows[i].rec = None
        BY <1>2, <1>4, <1>5
      <3> QED BY <3>1 DEF Fits, RecOf
    <2> QED BY <2>1, <2>2 DEF RowsOK
  <1> QED BY <1>3, <1>5, <1>6, <1>8, <1>9

Phases   == {"idle", "prefill", "attach", "decode", "panicked"}
Sessions == [phase : Phases, inputs : Words, outputs : Words, pending : Seq(Marks), sample : Tokens \cup {None}]

\* The invariant, of a cache, a session and what the nodes spell.
Good(c, e, s) == e \in Sessions /\ Sound(c, s) /\ Serving(c, e, s[Last(c.path)])

\* schedulePrefillSnapshots does not panic.
LEMMA ScheduleIs ==
  ASSUME NEW c, NEW s, NEW inputs \in Words, inputs # <<>>, NEW matched \in Nat, matched <= Len(inputs) - 1,
         NEW M, M = SubSeq(inputs, 1, matched), NEW b, Settled(b, s, M, c), b.rows = <<>>,
         Schedule(c, matched, inputs)
  PROVE  Good(cache', session', s) /\ enforcing' \in BOOLEAN
  <1>1. /\ Sound(c, s) /\ Level(c) /\ Inside(c, M) /\ c.rows = <<>>
        /\ Agree(M, s[Last(c.path)], Len(s[Last(c.path)]))
    BY DEF Settled
  <1>2. PICK o \in Nat : AllAt(c, o) /\ MinOffset(c) = o
    BY <1>1, AllAtMin DEF Settled
  <1>3. PICK N \in Nat : N = Len(inputs) /\ matched \in 0 .. N /\ matched <= N - 1
    <2>1. Len(inputs) \in Nat
      BY LenProperties DEF Words
    <2> QED BY <2>1
  <1>4. M \in Words /\ Len(M) = matched /\ Agree(M, inputs, matched) /\ Agree(inputs, M, matched)
    <2>1. M \in Words /\ Len(M) = matched /\ Agree(M, inputs, matched)
      BY <1>3, FirstEntries DEF Words
    <2>2. matched <= matched
      OBVIOUS
    <2> QED BY <2>1, <2>2, AgreeLess DEF Words
  <1>5. PICK order, asked : /\ asked = Ahead(SnapshotOffsets(inputs), o)
                            /\ order = Ascending(Offsets(inputs, o, matched))
    OBVIOUS
  <1>6. /\ order \in Seq(Nat) /\ \A i \in 1 .. Len(order) : order[i] > o
        /\ order # <<>> => 1 \in 1 .. Len(order)
    <2>1. PICK S : S = Offsets(inputs, o, matched)
      OBVIOUS
    <2>2. S \in SUBSET (1 .. N) /\ \A x \in S : x > o
      BY <1>3, <2>1, OffsetsIn
    <2>3. order \in Seq(S)
      BY <1>5, <2>1, <2>2, AscendingIn
    <2>4. \A i \in 1 .. Len(order) : order[i] \in S
      BY <2>3, LenProperties
    <2>5. Len(order) \in Nat /\ (order # <<>> => Len(order) # 0)
      BY <2>3, LenProperties, EmptySeq
    <2>6. order \in Seq(Nat)
      <3>1. S \subseteq Nat
        BY <2>2
      <3>2. order \in [1 .. Len(order) -> Nat]
        BY <2>3, <2>4, <3>1, LenProperties
      <3> QED BY <2>5, <3>2, SeqDef
    <2> QED BY <2>2, <2>4, <2>5, <2>6
  <1>7. ~(order # <<>> /\ (c.rows # <<>> \/ \E l \in Kinds : order[1] < Offset(c, l)))
    <2>1. ASSUME order # <<>>, NEW l \in Kinds, order[1] < Offset(c, l) PROVE FALSE
      <3>1. PICK x \in Nat : x = order[1] /\ x > o
        BY <1>6, <2>1
      <3>2. Offset(c, l) = o
        BY <1>2 DEF AllAt
      <3> QED BY <2>1, <3>1, <3>2
    <2> QED BY <1>1, <2>1
  <1>8. /\ cache' = [c EXCEPT !.rows = RowsFor(order), !.base = o]
        /\ session' = [phase |-> "prefill", inputs |-> inputs, outputs |-> <<>>,
                       pending |-> MarksFor(order, asked), sample |-> None]
        /\ enforcing' = OverLimit(cache')
    <2>1. /\ MinOffset(c) = o
          /\ order = Ascending(asked \cup (IF o < matched THEN {matched} ELSE {}))
      BY <1>2, <1>5 DEF Offsets
    <2> QED BY <1>5, <1>7, <2>1, Zenon DEF Schedule, RowsFor, MarksFor
  <1>9. PICK d, e : d = cache' /\ e = session'
    OBVIOUS
  <1>10. PICK rows, marks : rows = RowsFor(order) /\ marks = MarksFor(order, asked)
    OBVIOUS
  <1>11. rows \in Seq(Snaps) /\ marks \in Seq(Marks) /\ RowsOK(rows, marks, inputs, Len(d.kv.buf))
    BY <1>6, <1>10, ScheduledRows
  <1>12. /\ Sound(d, s) /\ d.path = c.path /\ d.kv = c.kv /\ d.rec = c.rec /\ d.rows = rows
    <2>1. d = Rescheduled(c, rows, o)
      BY <1>8, <1>9, <1>10 DEF Rescheduled
    <2>2. rows \in Seq(Snaps) /\ Sound(c, s)
      BY <1>1, <1>11
    <2>3. /\ Sound(d, s) /\ d.path = c.path /\ d.kv = c.kv /\ d.rec = c.rec /\ d.rows = rows
      BY <2>1, <2>2, RowsSet, SMTT(60)
    <2> QED BY <2>3
  <1>13. /\ MinOffset(d) = o /\ AllAt(d, o) /\ Level(d)
    BY <1>1, <1>2, <1>12, SameOffsets
  <1>14. /\ e.phase = "prefill" /\ e.inputs = inputs /\ e.outputs = <<>> /\ e.pending = marks /\ e.sample = None
    BY <1>8, <1>9, <1>10
  <1>15. Filling(d, e, s[Last(d.path)])
    <2>1. MinOffset(c) <= Len(M)
      BY <1>1, <1>4, MinimumOffsetInside
    <2>2. o <= N - 1
      BY <1>2, <1>3, <1>4, <2>1
    <2>3. ASSUME NEW x \in Words, Agree(M, x, Len(x)) PROVE Agree(inputs, x, Len(x))
      <3>1. Len(x) \in Nat /\ Len(x) <= matched
        BY <1>4, <2>3, LenProperties DEF Words, Agree
      <3> QED BY <1>4, <2>3, <3>1, AgreeTwice
    <2>4. c.rec \in Words /\ s[Last(c.path)] \in Words
      <3>1. Last(c.path) \in DOMAIN c.trie /\ Tree(c.trie, s)
        BY <1>1, WalkFacts DEF Sound
      <3> QED BY <1>1, <3>1, OffsetType, TreeFacts
    <2>5. Agree(inputs, d.rec, Len(d.rec)) /\ Agree(inputs, s[Last(d.path)], Len(s[Last(d.path)]))
      BY <1>1, <1>12, <2>3, <2>4 DEF Inside
    <2> QED BY <1>3, <1>11, <1>12, <1>13, <1>14, <2>2, <2>5 DEF Filling
  <1>16. Serving(d, e, s[Last(d.path)])
    BY <1>13, <1>14, <1>15 DEF Serving
  <1>17. enforcing' \in BOOLEAN
    BY <1>8 DEF OverLimit
  <1>18. e \in Sessions
    <2>1. <<>> \in Words /\ "prefill" \in Phases
      BY EmptySeq DEF Words, Phases
    <2>2. e = [phase |-> "prefill", inputs |-> inputs, outputs |-> <<>>, pending |-> marks, sample |-> None]
      BY <1>8, <1>9, <1>10
    <2> QED BY <1>11, <2>1, <2>2 DEF Sessions
  <1> QED BY <1>9, <1>12, <1>16, <1>17, <1>18 DEF Good

\* begin keeps the invariant.
LEMMA BeginIs ==
  ASSUME NEW s, Good(cache, session, s), NEW inputs \in Inputs, Begin(inputs)
  PROVE  Good(cache', session', s) /\ enforcing' \in BOOLEAN
  <1>1. inputs \in Words /\ inputs # <<>>
    <2>1. PICK n \in 1 .. MaxInput : inputs \in [1 .. n -> Tokens]
      BY DEF Inputs
    <2>2. n \in Nat /\ n # 0
      BY PrefixCacheAssumption
    <2>3. inputs \in Seq(Tokens) /\ Len(inputs) = n
      BY <2>1, <2>2, SeqDef, LenProperties
    <2> QED BY <2>2, <2>3, EmptySeq DEF Words
  <1>2. /\ session.phase = "idle"
        /\ LET best == BestMatch(cache.trie, inputs)
           IN Schedule(SwitchToPath(cache, best.path, best.matched), best.matched, inputs)
    BY Zenon DEF Begin, BestMatch
  <1>3. PICK w : w = BestMatch(cache.trie, inputs)
    OBVIOUS
  <1>4. /\ Sound(cache, s) /\ Tree(cache.trie, s) /\ Level(cache)
        /\ Resting(cache, s[Last(cache.path)])
    <2>1. Sound(cache, s) /\ Serving(cache, session, s[Last(cache.path)])
      BY DEF Good
    <2> QED BY <1>2, <2>1 DEF Serving, Sound
  <1>5. Matched(cache.trie, s, inputs, w)
    BY <1>1, <1>3, <1>4, BestMatchIs
  <1>6. PICK m \in Nat : m = w.matched /\ m <= Len(inputs) - 1 /\ m \in 0 .. Len(inputs)
    <2>1. w.matched \in Nat /\ w.matched <= Len(inputs) - 1
      BY <1>5 DEF Matched
    <2>2. Len(inputs) \in Nat
      BY <1>1, LenProperties DEF Words
    <2> QED BY <2>1, <2>2
  <1>7. PICK M : M = SubSeq(inputs, 1, m)
    OBVIOUS
  <1>8. M \in Words /\ Len(M) = m /\ Agree(M, inputs, m) /\ Agree(inputs, M, m)
    <2>1. M \in Words /\ Len(M) = m /\ Agree(M, inputs, m)
      BY <1>1, <1>6, <1>7, FirstEntries DEF Words
    <2>2. m <= m
      BY <1>6
    <2> QED BY <1>1, <1>6, <2>1, <2>2, AgreeLess DEF Words
  <1>9. Leading(cache.trie, s, M, w.path)
    <2>1. m <= m
      BY <1>6
    <2>2. Agree(s[Last(w.path)], inputs, m)
      BY <1>5, <1>6 DEF Matched
    <2>3. Agree(s[Last(w.path)], M, m)
      BY <1>6, <1>8, <2>1, <2>2, AgreeTwice
    <2> QED BY <1>5, <1>8, <2>3 DEF Leading, Matched
  <1>10. PICK d : d = SwitchToPath(cache, w.path, m)
    OBVIOUS
  <1>11. Settled(cache, s, M, d)
    <2>1. Agree(s[Last(cache.path)], cache.rec, Len(cache.rec))
      BY <1>4 DEF Resting
    <2> QED BY <1>4, <1>8, <1>9, <1>10, <2>1, SwitchToPathIs
  <1>12. Schedule(d, m, inputs)
    BY <1>2, <1>3, <1>6, <1>10
  <1>13. cache.rows = <<>>
    BY <1>4 DEF Resting
  <1> QED BY <1>1, <1>6, <1>7, <1>11, <1>12, <1>13, ScheduleIs

\* The tokens are those of T from the offset o on.
Follows(T, o, tokens) ==
    /\ tokens \in Words /\ T \in Words /\ o + Len(tokens) <= Len(T)
    /\ \A i \in 1 .. Len(tokens) : tokens[i] = T[o + i]

\* What forward writes to the KV cache has the type of slots.
LEMMA SlotsWritten ==
  ASSUME NEW c, NEW s, Sound(c, s), NEW tokens \in Words
  PROVE  LET known == IF c.kv.off = 0 THEN <<>> ELSE c.kv.buf[c.kv.off]
             data  == [i \in DOMAIN tokens |-> known \o SubSeq(tokens, 1, i)]
         IN data \in Seq(Words) /\ Len(data) = Len(tokens)
  <1>1. PICK known : known = IF c.kv.off = 0 THEN <<>> ELSE c.kv.buf[c.kv.off]
    OBVIOUS
  <1>2. known \in Words
    <2>1. c.kv.off \in Nat /\ c.kv.buf \in Seq(Words) /\ c.kv.off <= Len(c.kv.buf)
      BY DEF Sound, Caches, KVs
    <2>2. CASE c.kv.off = 0
      BY <1>1, <2>2, EmptySeq DEF Words
    <2>3. CASE c.kv.off # 0
      <3>1. PICK b \in Seq(Words), k \in Nat : b = c.kv.buf /\ k = c.kv.off
        BY <2>1
      <3>2. k \in 1 .. Len(b)
        BY <2>1, <2>3, <3>1, LenProperties
      <3>3. b[k] \in Words
        BY <3>2, LenProperties
      <3> QED BY <1>1, <2>3, <3>1, <3>3
    <2> QED BY <2>2, <2>3
  <1>3. PICK N \in Nat : N = Len(tokens) /\ DOMAIN tokens = 1 .. N
    BY LenProperties DEF Words
  <1>4. PICK data : data = [i \in DOMAIN tokens |-> known \o SubSeq(tokens, 1, i)]
    OBVIOUS
  <1>5. ASSUME NEW i \in 1 .. N PROVE known \o SubSeq(tokens, 1, i) \in Words
    <2>1. i \in 0 .. Len(tokens)
      BY <1>3
    <2>2. SubSeq(tokens, 1, i) \in Words
      BY <2>1, FirstEntries DEF Words
    <2> QED BY <1>2, <2>2, JoinedFacts
  <1>6. data \in [1 .. N -> Words]
    BY <1>3, <1>4, <1>5
  <1>7. data \in Seq(Words) /\ Len(data) = N
    BY <1>3, <1>6, SeqDef, LenProperties
  <1> QED BY <1>1, <1>3, <1>4, <1>7

\* The KV cache has taken the tokens, or there is none.
Fed(c, s, o, k, d) ==
    /\ Sound(d, s) /\ Kept(c, d) /\ d.rec = c.rec /\ Len(d.kv.buf) \in Nat /\ Len(d.kv.buf) >= Len(c.kv.buf)
    /\ "kv" \in Kinds => d.kv.off = o + k /\ d.kv.off <= Len(d.kv.buf)

\* The KV cache has taken the tokens.
LEMMA FedIs ==
  ASSUME NEW c, NEW s, Sound(c, s), NEW o \in Nat, AllAt(c, o), NEW tokens \in Words
  PROVE  LET known == IF c.kv.off = 0 THEN <<>> ELSE c.kv.buf[c.kv.off]
             data  == [i \in DOMAIN tokens |-> known \o SubSeq(tokens, 1, i)]
         IN Fed(c, s, o, Len(tokens), IF "kv" \in Kinds THEN AppendKV(c, data) ELSE c)
  <1>1. PICK data : data = [i \in DOMAIN tokens |-> (IF c.kv.off = 0 THEN <<>> ELSE c.kv.buf[c.kv.off])
                                                      \o SubSeq(tokens, 1, i)]
    OBVIOUS
  <1>2. data \in Seq(Words) /\ Len(data) = Len(tokens)
    BY <1>1, SlotsWritten
  <1>3. PICK d : d = IF "kv" \in Kinds THEN AppendKV(c, data) ELSE c
    OBVIOUS
  <1>4. CASE "kv" \in Kinds
    <2>1. Sound(d, s) /\ Appended(c, data, d)
      BY <1>2, <1>3, <1>4, AppendKVSound
    <2>2. c.kv.off = o
      BY <1>4 DEF AllAt, Offset
    <2>3. Len(d.kv.buf) \in Nat
      BY <2>1, LenProperties DEF Sound, Caches, KVs
    <2>4. Fed(c, s, o, Len(tokens), d)
      BY <1>2, <2>1, <2>2, <2>3 DEF Fed, Appended
    <2> QED BY <1>1, <1>3, <2>4
  <1>5. CASE "kv" \notin Kinds
    <2>1. d = c
      BY <1>3, <1>5
    <2>2. Len(c.kv.buf) \in Nat
      BY LenProperties DEF Sound, Caches, KVs
    <2>3. Fed(c, s, o, Len(tokens), d)
      BY <1>5, <2>1, <2>2, KeptSelf DEF Fed
    <2> QED BY <1>1, <1>3, <2>3
  <1> QED BY <1>4, <1>5

\* The recurrent cache has taken the tokens, or there is none.
RecAfter(c, tokens) == IF "rec" \in Kinds THEN c.rec \o tokens ELSE c.rec
RecGrown(T, end, rec) ==
    /\ rec \in Words /\ Agree(T, rec, Len(rec))
    /\ "rec" \in Kinds => Len(rec) = end
    /\ "rec" \notin Kinds => rec = <<>>

\* So has the recurrent cache, and its state is of the tokens that it was given.
LEMMA RecFed ==
  ASSUME NEW c, NEW s, Sound(c, s), Level(c), NEW o \in Nat, AllAt(c, o), NEW T, NEW tokens,
         Follows(T, o, tokens), Agree(T, c.rec, Len(c.rec))
  PROVE  RecGrown(T, o + Len(tokens), RecAfter(c, tokens))
  <1>0. PICK rec : rec = RecAfter(c, tokens) /\ rec = IF "rec" \in Kinds THEN c.rec \o tokens ELSE c.rec
    BY DEF RecAfter
  <1>1. tokens \in Words /\ T \in Words /\ o + Len(tokens) <= Len(T) /\ \A i \in 1 .. Len(tokens) : tokens[i] = T[o + i]
    BY DEF Follows
  <1>2. c.rec \in Words
    BY OffsetType
  <1>3. CASE "rec" \notin Kinds
    BY <1>0, <1>2, <1>3, LenProperties, EmptySeq DEF Level, RecGrown, Agree
  <1>4. CASE "rec" \in Kinds
    <2>1. Len(c.rec) = o
      <3>1. Offset(c, "rec") = o
        BY <1>4 DEF AllAt
      <3> QED BY <3>1 DEF Offset
    <2>2. /\ rec \in Words /\ Len(rec) = o + Len(tokens) /\ Len(tokens) \in Nat
          /\ \A i \in 1 .. o : rec[i] = c.rec[i]
          /\ \A i \in 1 .. Len(tokens) : rec[o + i] = tokens[i]
      <3>1. PICK a \in Seq(Tokens), b \in Seq(Tokens) : a = c.rec /\ b = tokens /\ Len(a) = o /\ rec = a \o b
        BY <1>0, <1>1, <1>2, <1>4, <2>1 DEF Words
      <3>2. /\ a \o b \in Seq(Tokens) /\ Len(a \o b) = Len(a) + Len(b) /\ Agree(a \o b, a, Len(a))
            /\ \A i \in 1 .. Len(b) : (a \o b)[Len(a) + i] = b[i]
        BY AgreeConcat
      <3>3. Len(b) \in Nat
        BY LenProperties
      <3> QED BY <3>1, <3>2, <3>3 DEF Agree, Words
    <2>3. \A i \in 1 .. o : c.rec[i] = T[i]
      BY <2>1 DEF Agree
    <2>4. ASSUME NEW i \in 1 .. Len(rec) PROVE T[i] = rec[i]
      <3>1. CASE i <= o
        <4>1. i \in 1 .. o
          BY <2>2, <3>1
        <4> QED BY <2>2, <2>3, <4>1
      <3>2. CASE i > o
        <4>1. PICK j \in 1 .. Len(tokens) : i = o + j
          <5>1. PICK N \in Nat : N = Len(tokens) /\ Len(rec) = o + N
            BY <2>2
          <5>2. i \in 1 .. o + N
            BY <5>1
          <5>3. i - o \in 1 .. N /\ i = o + (i - o)
            BY <3>2, <5>2
          <5> QED BY <5>1, <5>3
        <4>2. rec[o + j] = tokens[j] /\ tokens[j] = T[o + j]
          BY <1>1, <2>2, <4>1
        <4> QED BY <4>1, <4>2
      <3> QED BY <2>2, <3>1, <3>2
    <2>5. Len(rec) <= Len(T)
      BY <1>1, <2>2
    <2>6. Agree(T, rec, Len(rec))
      BY <2>2, <2>4, <2>5 DEF Agree
    <2> QED BY <1>0, <1>4, <2>2, <2>6 DEF RecGrown
  <1> QED BY <1>3, <1>4

\* What forward captures at an offset.
Captured(d, rec, from, at) ==
    [kv  |-> IF "kv" \in Kinds THEN SnapshotKV(d, from, at) ELSE None,
     rec |-> IF "rec" \in Kinds THEN SubSeq(rec, 1, at) ELSE None]

RowFits(row, len, word, at) ==
    Fits(row.kv, len) /\ RecOf(row.rec, word) /\ (row.rec # None => Len(row.rec) <= at)

\* What is captured at an offset that forward reached is sound.
LEMMA CapturedIs ==
  ASSUME NEW d, NEW rec \in Words, NEW T \in Words, Agree(T, rec, Len(rec)), NEW len \in Nat,
         NEW from \in Nat, NEW at \in Nat, "kv" \in Kinds => at <= len, "rec" \in Kinds => at <= Len(rec)
  PROVE  Captured(d, rec, from, at) \in Snaps /\ RowFits(Captured(d, rec, from, at), len, T, at)
  <1>1. PICK k, r : /\ k = IF "kv" \in Kinds THEN SnapshotKV(d, from, at) ELSE None
                    /\ r = IF "rec" \in Kinds THEN SubSeq(rec, 1, at) ELSE None
    OBVIOUS
  <1>2. k \in KVSnaps /\ Fits(k, len)
    <2>1. CASE k = None
      BY <2>1 DEF KVSnaps, Fits
    <2>2. CASE k # None
      <3>1. "kv" \in Kinds /\ from < at /\ k = Lazy(from, at)
        BY <1>1, <2>2 DEF SnapshotKV
      <3>2. k = [from |-> from, to |-> at, lazy |-> TRUE, data |-> <<>>] /\ <<>> \in Seq(Words)
        BY <3>1, EmptySeq DEF Lazy
      <3>3. k.from = from /\ k.to = at
        BY <3>2
      <3>4. Fits(k, len)
        BY <3>1, <3>3 DEF Fits
      <3> QED BY <3>2, <3>4 DEF KVSnaps
    <2> QED BY <2>1, <2>2
  <1>3. r \in RecSnaps /\ RecOf(r, T) /\ (r # None => Len(r) <= at)
    <2>1. CASE "rec" \notin Kinds
      BY <1>1, <2>1 DEF RecSnaps, RecOf
    <2>2. CASE "rec" \in Kinds
      <3>1. at \in 0 .. Len(rec) /\ Len(rec) \in Nat
        BY <2>2, LenProperties DEF Words
      <3>2. r = SubSeq(rec, 1, at)
        BY <1>1, <2>2
      <3>3. r \in Words /\ Len(r) = at /\ Agree(r, rec, at)
        BY <3>1, <3>2, FirstEntries DEF Words
      <3>4. Agree(rec, r, at) /\ at <= Len(rec) /\ at <= at
        BY <3>1, <3>3, AgreeLess DEF Words
      <3>5. Agree(T, r, at)
        BY <3>1, <3>4, AgreeTwice
      <3> QED BY <3>3, <3>4, <3>5 DEF RecSnaps, RecOf
    <2> QED BY <2>1, <2>2
  <1>4. PICK row : row = Captured(d, rec, from, at)
    OBVIOUS
  <1>5. row = [kv |-> k, rec |-> r]
    BY <1>1, <1>4 DEF Captured
  <1>6. row \in Snaps /\ row.kv = k /\ row.rec = r
    BY <1>2, <1>3, <1>5 DEF Snaps
  <1> QED BY <1>2, <1>3, <1>4, <1>6 DEF RowFits

\* The rows after forward: those of the offsets crossed are captured.
Crossed(d, c, rec, pending, start, end) ==
    [i \in DOMAIN c.rows |->
       IF pending[i].offset > start /\ pending[i].offset <= end
       THEN Captured(d, rec, IF i = 1 THEN c.base ELSE pending[i - 1].offset, pending[i].offset)
       ELSE c.rows[i]]

\* So are all the captures after forward.
LEMMA CrossedIs ==
  ASSUME NEW c, NEW s, Sound(c, s), NEW d, NEW rec \in Words, NEW T \in Words, Agree(T, rec, Len(rec)),
         NEW pending \in Seq(Marks), RowsOK(c.rows, pending, T, Len(c.kv.buf)),
         NEW start \in Nat, NEW end \in Nat, NEW len \in Nat, Len(c.kv.buf) <= len,
         "kv" \in Kinds => end <= len, "rec" \in Kinds => end <= Len(rec),
         NEW rows, rows = Crossed(d, c, rec, pending, start, end)
  PROVE  rows \in Seq(Snaps) /\ RowsOK(rows, pending, T, len) /\ (c.rows = <<>> => rows = <<>>)
  <1>1. c.rows \in Seq(Snaps) /\ c.base \in Nat /\ Len(c.kv.buf) \in Nat
    BY LenProperties DEF Sound, Caches, KVs
  <1>2. PICK N \in Nat : N = Len(c.rows) /\ DOMAIN c.rows = 1 .. N /\ \A i \in 1 .. N : c.rows[i] \in Snaps
    BY <1>1, LenProperties
  <1>3. N = Len(pending) /\ \A i \in 1 .. N : RowFits(c.rows[i], Len(c.kv.buf), T, pending[i].offset)
    BY <1>2 DEF RowsOK, RowFits
  <1>4. \A i \in 1 .. N : pending[i].offset \in Nat
    <2>1. \A i \in 1 .. N : pending[i] \in Marks
      BY <1>3, LenProperties
    <2> QED BY <2>1 DEF Marks
  <1>5. ASSUME NEW i \in 1 .. N PROVE rows[i] \in Snaps /\ RowFits(rows[i], len, T, pending[i].offset)
    <2>1. PICK at \in Nat : at = pending[i].offset
      BY <1>4
    <2>2. PICK from : from = IF i = 1 THEN c.base ELSE pending[i - 1].offset
      OBVIOUS
    <2>3. from \in Nat
      <3>1. CASE i = 1
        BY <1>1, <2>2, <3>1
      <3>2. CASE i # 1
        <4>1. i - 1 \in 1 .. N
          BY <3>2
        <4> QED BY <1>4, <2>2, <3>2, <4>1
      <3> QED BY <3>1, <3>2
    <2>4. rows[i] = IF at > start /\ at <= end THEN Captured(d, rec, from, at) ELSE c.rows[i]
      BY <1>2, <2>1, <2>2 DEF Crossed
    <2>5. CASE at > start /\ at <= end
      <3>1. ("kv" \in Kinds => at <= len) /\ ("rec" \in Kinds => at <= Len(rec))
        <4>1. Len(rec) \in Nat
          BY LenProperties DEF Words
        <4> QED BY <2>5, <4>1
      <3>2. Captured(d, rec, from, at) \in Snaps /\ RowFits(Captured(d, rec, from, at), len, T, at)
        BY <2>3, <3>1, CapturedIs
      <3> QED BY <2>1, <2>4, <2>5, <3>2
    <2>6. CASE ~(at > start /\ at <= end)
      <3>1. rows[i] = c.rows[i]
        BY <2>4, <2>6
      <3>2. RowFits(c.rows[i], Len(c.kv.buf), T, at) /\ c.rows[i] \in Snaps
        BY <1>2, <1>3, <2>1
      <3>3. ASSUME NEW k \in KVSnaps, Fits(k, Len(c.kv.buf)) PROVE Fits(k, len)
        <4>1. k # None => k.to \in Nat
          BY DEF KVSnaps
        <4> QED BY <1>1, <3>3, <4>1 DEF Fits
      <3>4. c.rows[i].kv \in KVSnaps
        BY <3>2 DEF Snaps
      <3>5. RowFits(c.rows[i], len, T, at)
        BY <3>2, <3>3, <3>4 DEF RowFits
      <3> QED BY <2>1, <3>1, <3>2, <3>5
    <2> QED BY <2>5, <2>6
  <1>6. DOMAIN rows = 1 .. N /\ rows = [i \in 1 .. N |-> rows[i]]
    BY <1>2 DEF Crossed
  <1>7. rows \in [1 .. N -> Snaps]
    BY <1>5, <1>6
  <1>8. rows \in Seq(Snaps) /\ Len(rows) = N
    BY <1>7, SeqDef, LenProperties
  <1>9. RowsOK(rows, pending, T, len)
    BY <1>3, <1>5, <1>8 DEF RowsOK, RowFits
  <1>10. ASSUME c.rows = <<>> PROVE rows = <<>>
    <2>1. N = 0
      BY <1>1, <1>2, <1>10, EmptySeq
    <2> QED BY <1>8, <2>1, EmptySeq
  <1> QED BY <1>8, <1>9, <1>10

\* What forward leaves.
Forwarded(c, s, T, o, pending, f) ==
    /\ Sound(f, s) /\ f.path = c.path /\ Level(f) /\ AllAt(f, o) /\ MinOffset(f) = o
    /\ Agree(T, f.rec, Len(f.rec))
    /\ RowsOK(f.rows, pending, T, Len(f.kv.buf)) /\ (c.rows = <<>> => f.rows = <<>>)

\* The caches are at o, and take the tokens of T that follow.
Takes(c, s, T, o, tokens, pending) ==
    /\ Sound(c, s) /\ Level(c) /\ AllAt(c, o) /\ Follows(T, o, tokens) /\ Agree(T, c.rec, Len(c.rec))
    /\ pending \in Seq(Marks) /\ RowsOK(c.rows, pending, T, Len(c.kv.buf))

\* forward brings all caches to one offset, with the state of the tokens given.
LEMMA ForwardIs ==
  ASSUME NEW c, NEW s, NEW o \in Nat, NEW T, NEW tokens, Takes(c, s, T, o, tokens, session.pending)
  PROVE  Forwarded(c, s, T, o + Len(tokens), session.pending, Forward(c, tokens))
  <1>0. /\ Sound(c, s) /\ Level(c) /\ AllAt(c, o) /\ Follows(T, o, tokens) /\ Agree(T, c.rec, Len(c.rec))
        /\ session.pending \in Seq(Marks) /\ RowsOK(c.rows, session.pending, T, Len(c.kv.buf))
    BY DEF Takes
  <1>1. tokens \in Words /\ T \in Words /\ Len(tokens) \in Nat
    BY <1>0, LenProperties DEF Follows, Words
  <1>2. PICK end \in Nat : end = o + Len(tokens)
    BY <1>1
  <1>3. PICK data : data = [i \in DOMAIN tokens |-> (IF c.kv.off = 0 THEN <<>> ELSE c.kv.buf[c.kv.off])
                                                      \o SubSeq(tokens, 1, i)]
    OBVIOUS
  <1>4. PICK d : d = IF "kv" \in Kinds THEN AppendKV(c, data) ELSE c
    OBVIOUS
  <1>5. Fed(c, s, o, Len(tokens), d)
    BY <1>0, <1>1, <1>3, <1>4, FedIs
  <1>6. PICK rec : rec = IF "rec" \in Kinds THEN c.rec \o tokens ELSE c.rec
    OBVIOUS
  <1>7. /\ rec \in Words /\ Agree(T, rec, Len(rec))
        /\ "rec" \in Kinds => Len(rec) = end
        /\ "rec" \notin Kinds => rec = <<>>
    <2>1. rec = RecAfter(c, tokens)
      BY <1>6 DEF RecAfter
    <2>2. RecGrown(T, o + Len(tokens), RecAfter(c, tokens))
      BY <1>0, RecFed
    <2> QED BY <1>2, <2>1, <2>2 DEF RecGrown
  <1>8. /\ Sound(d, s) /\ Kept(c, d) /\ Len(d.kv.buf) \in Nat /\ Len(d.kv.buf) >= Len(c.kv.buf)
        /\ "kv" \in Kinds => d.kv.off = end /\ end <= Len(d.kv.buf)
    BY <1>2, <1>5 DEF Fed
  <1>9. PICK rows : rows = Crossed(d, c, rec, session.pending, o, end)
    OBVIOUS
  <1>10. rows \in Seq(Snaps) /\ RowsOK(rows, session.pending, T, Len(d.kv.buf)) /\ (c.rows = <<>> => rows = <<>>)
    <2>1. Len(c.kv.buf) \in Nat
      BY <1>0, LenProperties DEF Sound, Caches, KVs
    <2>2. Len(c.kv.buf) <= Len(d.kv.buf)
      BY <1>8, <2>1
    <2>3. "rec" \in Kinds => end <= Len(rec)
      BY <1>7
    <2>4. PICK len \in Nat : len = Len(d.kv.buf)
      BY <1>8
    <2>5. Len(c.kv.buf) <= len /\ ("kv" \in Kinds => end <= len)
      BY <1>8, <2>2, <2>4
    <2>6. T \in Words /\ rec \in Words /\ Agree(T, rec, Len(rec))
      BY <1>1, <1>7
    <2>7. rows \in Seq(Snaps) /\ RowsOK(rows, session.pending, T, len) /\ (c.rows = <<>> => rows = <<>>)
      BY <1>0, <1>9, <2>3, <2>5, <2>6, CrossedIs
    <2> QED BY <2>4, <2>7
  <1>11. PICK g : g = SetRec(d, rec)
    OBVIOUS
  <1>12. Sound(g, s) /\ Kept(d, g) /\ g.rec = rec /\ g.kv = d.kv
    BY <1>7, <1>8, <1>11, SetRecSound
  <1>13. PICK f : f = Rescheduled(g, rows, g.base)
    OBVIOUS
  <1>14. Sound(f, s) /\ f.path = g.path /\ f.kv = g.kv /\ f.rec = g.rec /\ f.rows = rows
    <2>1. g.base \in Nat
      BY <1>12 DEF Sound, Caches
    <2>2. PICK b \in Nat : b = g.base
      BY <2>1
    <2>3. rows \in Seq(Snaps) /\ Sound(g, s) /\ f = Rescheduled(g, rows, b)
      BY <1>10, <1>12, <1>13, <2>2
    <2> QED BY <2>3, RowsSet
  <1>15. f.path = c.path
    BY <1>8, <1>12, <1>14 DEF Kept
  <1>16. AllAt(f, end)
    <2>1. \A l \in Kinds : l = "kv" \/ l = "rec"
      BY LayersAre
    <2>2. ASSUME "kv" \in Kinds PROVE Offset(f, "kv") = end
      BY <1>8, <1>12, <1>14, <2>2 DEF Offset
    <2>3. ASSUME "rec" \in Kinds PROVE Offset(f, "rec") = end
      BY <1>7, <1>12, <1>14, <2>3 DEF Offset
    <2> QED BY <2>1, <2>2, <2>3 DEF AllAt
  <1>17. MinOffset(f) = end
    BY <1>14, <1>16, AllAtMin
  <1>18. Level(f)
    BY <1>7, <1>12, <1>14 DEF Level
  <1>19. Forwarded(c, s, T, end, session.pending, f)
    BY <1>7, <1>10, <1>12, <1>14, <1>15, <1>16, <1>17, <1>18 DEF Forwarded
  <1>20. Forward(c, tokens) = f
    <2>1. MinOffset(c) = o
      BY <1>0, AllAtMin
    <2>2. Forward(c, tokens) = [d EXCEPT !.rec = rec, !.rows = Crossed(d, c, rec, session.pending, o, end)]
      BY <1>2, <1>3, <1>4, <1>6, <2>1, Zenon DEF Forward, Crossed, Captured
    <2>3. d \in Caches
      BY <1>8 DEF Sound
    <2>4. f = [d EXCEPT !.rec = rec, !.rows = rows]
      BY <1>11, <1>13, <2>3 DEF Caches, SetRec, Rescheduled
    <2> QED BY <1>9, <2>2, <2>4
  <1> QED BY <1>2, <1>19, <1>20

\* What serving says is not of the trie.
LEMMA ServingApart ==
  ASSUME NEW c, NEW d, NEW e, NEW w, Apart(c, d), Serving(c, e, w)
  PROVE  Serving(d, e, w)
  <1>1. d.kv = c.kv /\ d.rec = c.rec /\ d.rows = c.rows
    BY DEF Apart
  <1>2. MinOffset(d) = MinOffset(c) /\ \A o : AllAt(c, o) <=> AllAt(d, o)
    BY <1>1, SameOffsets
  <1>3. Level(c) => Level(d)
    BY <1>1, SameOffsets
  <1>4. Resting(c, w) => Resting(d, w)
    BY <1>1, <1>2 DEF Resting
  <1>5. Filling(c, e, w) => Filling(d, e, w)
    BY <1>1, <1>2 DEF Filling
  <1>6. Decoding(c, e, w) => Decoding(d, e, w)
    BY <1>1, <1>2 DEF Decoding
  <1> QED BY <1>2, <1>3, <1>4, <1>5, <1>6 DEF Serving

\* Evict keeps the invariant.
LEMMA EvictIs ==
  ASSUME NEW s, Good(cache, session, s), Evict
  PROVE  (\E r : Good(cache', session', r)) /\ enforcing' \in BOOLEAN
  <1>1. Sound(cache, s) /\ Serving(cache, session, s[Last(cache.path)])
    BY DEF Good
  <1>2. PICK n \in Evictable(cache) :
          cache' = IF Children(cache.trie, n) = {} THEN RemoveNode(cache, n) ELSE MergeWithChild(cache, n)
    BY DEF Evict
  <1>3. PICK d : d = cache'
    OBVIOUS
  <1>4. PICK r : Pruned(cache, s, d, r)
    BY <1>1, <1>2, <1>3, EvictSound
  <1>5. Sound(d, r) /\ Apart(cache, d) /\ r[Last(d.path)] = s[Last(cache.path)]
    BY <1>4 DEF Pruned
  <1>6. Serving(d, session, r[Last(d.path)])
    BY <1>1, <1>5, ServingApart
  <1>7. session' = session /\ enforcing' \in BOOLEAN
    BY DEF Evict, OverLimit
  <1>8. session \in Sessions
    BY DEF Good
  <1> QED BY <1>3, <1>5, <1>6, <1>7, <1>8 DEF Good

\* A word that has what the last node spells goes on in the trie.
Remains(c, s, T, end, to) ==
    /\ end = c.trie[Last(c.path)].end /\ Agree(T, s[Last(c.path)], Len(s[Last(c.path)]))
    /\ end < to /\ to <= Len(T)

\* advancePath with stored tokens makes the path spell all of them.
LEMMA StoredOnward ==
  ASSUME NEW c, NEW s, Sound(c, s), NEW T \in Words, NEW end, NEW to \in Nat, Remains(c, s, T, end, to)
  PROVE  \E r : Grown(c, s, AdvancePath(c, SubSeq(T, end + 1, to), to), r, SubSeq(T, 1, to))
  <1>1. Tree(c.trie, s) /\ Last(c.path) \in DOMAIN c.trie
    BY WalkFacts DEF Sound
  <1>2. PICK w \in Words : w = s[Last(c.path)] /\ Len(w) = end /\ end \in Nat
    BY <1>1, TreeFacts DEF Remains
  <1>3. PICK N \in Nat : N = Len(T) /\ to \in 0 .. N /\ end \in 0 .. N /\ to \in end .. N
    <2>1. Len(T) \in Nat
      BY LenProperties DEF Words
    <2> QED BY <1>2, <2>1 DEF Remains
  <1>4. PICK tokens : tokens = SubSeq(T, end + 1, to)
    OBVIOUS
  <1>5. tokens \in Words /\ Len(tokens) = to - end /\ \A i \in 1 .. to - end : tokens[i] = T[end + i]
    <2>1. T \in Seq(Tokens) /\ end \in 0 .. Len(T) /\ to \in end .. Len(T)
      BY <1>3 DEF Words
    <2> QED BY <1>4, <2>1, LastEntries DEF Words
  <1>6. to = end + Len(tokens)
    BY <1>2, <1>5
  <1>7. PICK U : U = SubSeq(T, 1, to)
    OBVIOUS
  <1>8. U \in Words /\ Len(U) = to /\ (\A i \in 1 .. to : U[i] = T[i]) /\ Agree(U, T, to)
    BY <1>3, <1>7, FirstEntries DEF Words
  <1>9. w \o tokens = U
    <2>1. Agree(w, U, end)
      <3>1. Agree(T, w, end) /\ end <= to
        BY <1>2, <1>3 DEF Remains
      <3>2. Agree(U, w, end)
        BY <1>2, <1>8, <3>1, AgreeTwice
      <3>3. end <= end
        BY <1>2
      <3> QED BY <1>2, <1>8, <3>2, <3>3, AgreeLess DEF Words
    <2>2. ASSUME NEW i \in 1 .. Len(tokens) PROVE tokens[i] = U[end + i]
      <3>1. PICK j \in 1 .. to : j = end + i
        <4>1. PICK k \in Nat : k = to - end /\ Len(tokens) = k
          BY <1>2, <1>3, <1>5
        <4>2. end + i \in 1 .. to
          <5>1. i \in 1 .. k
            BY <4>1
          <5> QED BY <1>2, <1>3, <4>1, <5>1
        <4> QED BY <4>2
      <3>2. i \in 1 .. to - end
        BY <1>5
      <3> QED BY <1>5, <1>8, <3>1, <3>2
    <2>3. tokens \in Words /\ Len(U) = end + Len(tokens)
      BY <1>5, <1>6, <1>8
    <2> QED BY <1>2, <1>8, <2>1, <2>2, <2>3, WholeIs
  <1>10. \E r : Grown(c, s, AdvancePath(c, tokens, to), r, w \o tokens)
    <2>1. to = c.trie[Last(c.path)].end + Len(tokens)
      BY <1>6 DEF Remains
    <2> QED BY <1>2, <1>5, <2>1, AdvanceSound
  <1> QED BY <1>4, <1>7, <1>9, <1>10

\* What serving says of the offsets.
LEMMA ServedAt ==
  ASSUME NEW c, NEW e, NEW s, Good(c, e, s)
  PROVE  /\ Sound(c, s) /\ Level(c) /\ \E o \in Nat : AllAt(c, o) /\ MinOffset(c) = o
         /\ s[Last(c.path)] \in Words /\ Len(s[Last(c.path)]) = c.trie[Last(c.path)].end
         /\ c.trie[Last(c.path)].end \in Nat
         /\ c.rec \in Words /\ Len(c.rec) <= MinOffset(c)
  <1>1. Sound(c, s) /\ Level(c) /\ \E o \in Nat : AllAt(c, o)
    BY DEF Good, Serving
  <1>2. PICK o \in Nat : AllAt(c, o) /\ MinOffset(c) = o
    BY <1>1, AllAtMin
  <1>3. Tree(c.trie, s) /\ Last(c.path) \in DOMAIN c.trie
    BY <1>1, WalkFacts DEF Sound
  <1>4. c.rec \in Words
    BY <1>1, OffsetType
  <1>5. Len(c.rec) <= o
    <2>1. CASE "rec" \in Kinds
      <3>1. Offset(c, "rec") = o
        BY <1>2, <2>1 DEF AllAt
      <3>2. Len(c.rec) = o
        BY <3>1 DEF Offset
      <3> QED BY <3>2
    <2>2. CASE "rec" \notin Kinds
      <3>1. Len(c.rec) = 0
        BY <1>1, <2>2, EmptySeq DEF Level
      <3> QED BY <3>1
    <2> QED BY <2>1, <2>2
  <1> QED BY <1>1, <1>2, <1>3, <1>4, <1>5, TreeFacts

\* What filling says.
LEMMA FillingIs ==
  ASSUME NEW c, NEW e, NEW w, Filling(c, e, w)
  PROVE  /\ e.inputs \in Words /\ e.inputs # <<>> /\ e.outputs = <<>> /\ e.sample = None
         /\ Agree(e.inputs, c.rec, Len(c.rec)) /\ Agree(e.inputs, w, Len(w))
         /\ e.pending \in Seq(Marks) /\ RowsOK(c.rows, e.pending, e.inputs, Len(c.kv.buf))
         /\ Len(e.inputs) \in Nat /\ Len(e.inputs) >= 1
  <1>1. e.inputs \in Words /\ e.inputs # <<>>
    BY DEF Filling
  <1>2. Len(e.inputs) \in Nat /\ Len(e.inputs) # 0
    BY <1>1, LenProperties, EmptySeq DEF Words
  <1> QED BY <1>1, <1>2 DEF Filling

\* Prefill keeps the invariant.
LEMMA PrefillIs ==
  ASSUME NEW s, Good(cache, session, s), Prefill
  PROVE  Good(cache', session', s)
  <1>1. PICK o \in Nat : AllAt(cache, o) /\ MinOffset(cache) = o
    BY ServedAt
  <1>2. PICK c, e, T : c = cache /\ e = session /\ T = session.inputs
    OBVIOUS
  <1>3. Filling(c, e, s[Last(c.path)]) /\ e.phase = "prefill" /\ Sound(c, s) /\ Level(c)
    <2>1. session.phase = "prefill"
      BY DEF Prefill
    <2> QED BY <1>2, <2>1 DEF Good, Serving
  <1>4. /\ T \in Words /\ T # <<>> /\ e.outputs = <<>> /\ e.sample = None
        /\ Agree(T, c.rec, Len(c.rec)) /\ Agree(T, s[Last(c.path)], Len(s[Last(c.path)]))
        /\ e.pending \in Seq(Marks) /\ RowsOK(c.rows, e.pending, T, Len(c.kv.buf)) /\ Len(T) \in Nat
    BY <1>2, <1>3, FillingIs
  <1>5. PICK N \in Nat : N = Len(T) /\ N - o > 1
    BY <1>1, <1>2, <1>4 DEF Prefill, Left
  <1>6. PICK k \in Nat : k = Min({ChunkSize, Left - 1}) /\ o + k <= N - 1
    <2>1. PICK a \in Nat, b \in Nat : a = ChunkSize /\ b = Left - 1 /\ b = N - o - 1
      <3>1. ChunkSize \in Nat
        BY PrefixCacheAssumption
      <3>2. Left - 1 = N - o - 1
        BY <1>1, <1>2, <1>5 DEF Left
      <3>3. N - o - 1 \in Nat
        BY <1>5
      <3> QED BY <3>1, <3>2, <3>3
    <2>2. Min({a, b}) = IF a <= b THEN a ELSE b
      BY MinTwo
    <2>3. Min({a, b}) \in Nat /\ o + Min({a, b}) <= N - 1
      BY <1>5, <2>1, <2>2
    <2> QED BY <2>1, <2>3
  <1>7. PICK tokens : tokens = SubSeq(T, o + 1, o + k)
    OBVIOUS
  <1>8. Follows(T, o, tokens) /\ Len(tokens) = k
    <2>1. o \in 0 .. Len(T) /\ o + k \in o .. Len(T) /\ T \in Seq(Tokens)
      BY <1>4, <1>5, <1>6 DEF Words
    <2>2. tokens \in Seq(Tokens) /\ Len(tokens) = (o + k) - o /\ \A i \in 1 .. (o + k) - o : tokens[i] = T[o + i]
      BY <1>7, <2>1, LastEntries
    <2>3. (o + k) - o = k /\ o + k <= Len(T)
      BY <1>5, <1>6
    <2> QED BY <1>4, <2>2, <2>3 DEF Follows, Words
  <1>9. PICK f : f = Forward(c, tokens)
    OBVIOUS
  <1>10. Forwarded(c, s, T, o + k, session.pending, f)
    <2>1. Takes(c, s, T, o, tokens, session.pending)
      BY <1>1, <1>2, <1>3, <1>4, <1>8 DEF Takes
    <2> QED BY <1>8, <1>9, <2>1, ForwardIs
  <1>11. f = cache' /\ session' = session /\ enforcing' = enforcing
    BY <1>1, <1>2, <1>6, <1>7, <1>9 DEF Prefill
  <1>12. /\ Sound(f, s) /\ f.path = c.path /\ Level(f) /\ AllAt(f, o + k) /\ MinOffset(f) = o + k
         /\ Agree(T, f.rec, Len(f.rec)) /\ RowsOK(f.rows, e.pending, T, Len(f.kv.buf))
    BY <1>2, <1>10 DEF Forwarded
  <1>13. Filling(f, e, s[Last(f.path)])
    <2>1. MinOffset(f) <= Len(e.inputs) - 1
      BY <1>2, <1>5, <1>6, <1>12
    <2> QED BY <1>2, <1>4, <1>12, <2>1 DEF Filling
  <1>14. Serving(f, e, s[Last(f.path)])
    <2>1. o + k \in Nat
      OBVIOUS
    <2> QED BY <1>3, <1>12, <1>13, <2>1 DEF Serving
  <1>15. e \in Sessions
    BY <1>2 DEF Good
  <1> QED BY <1>2, <1>11, <1>12, <1>14, <1>15 DEF Good

\* A token more.
LEMMA OneToken ==
  ASSUME NEW T \in Words, NEW x \in Tokens, NEW o \in Nat, Len(T) = o + 1, T[o + 1] = x
  PROVE  Follows(T, o, <<x>>) /\ Len(<<x>>) = 1
  <1>1. PICK q : q = <<x>>
    OBVIOUS
  <1>2. q \in Words /\ Len(q) = 1 /\ q[1] = x
    BY <1>1 DEF Words
  <1>3. \A i \in 1 .. 1 : q[i] = T[o + i]
    <2>1. \A i \in 1 .. 1 : i = 1
      OBVIOUS
    <2> QED BY <1>2, <2>1
  <1> QED BY <1>1, <1>2, <1>3 DEF Follows

\* Seed keeps the invariant.
LEMMA SeedIs ==
  ASSUME NEW s, Good(cache, session, s), NEW sample \in Tokens, Seed(sample)
  PROVE  Good(cache', session', s)
  <1>1. PICK o \in Nat : AllAt(cache, o) /\ MinOffset(cache) = o
    BY ServedAt
  <1>2. PICK c, e, T : c = cache /\ e = session /\ T = session.inputs
    OBVIOUS
  <1>3. Filling(c, e, s[Last(c.path)]) /\ Sound(c, s) /\ Level(c) /\ e.pending = <<>>
    <2>1. session.phase \in {"prefill", "attach"} /\ session.pending = <<>>
      BY DEF Seed
    <2> QED BY <1>2, <2>1 DEF Good, Serving
  <1>4. /\ T \in Words /\ T # <<>> /\ e.outputs = <<>>
        /\ Agree(T, c.rec, Len(c.rec)) /\ Agree(T, s[Last(c.path)], Len(s[Last(c.path)]))
        /\ e.pending \in Seq(Marks) /\ RowsOK(c.rows, e.pending, T, Len(c.kv.buf)) /\ Len(T) \in Nat
    BY <1>2, <1>3, FillingIs
  <1>5. c.rows = <<>>
    <2>1. c.rows \in Seq(Snaps)
      BY <1>3 DEF Sound, Caches
    <2>2. Len(c.rows) = Len(<<>>)
      BY <1>3, <1>4 DEF RowsOK
    <2> QED BY <2>1, <2>2, EmptySeq, LenProperties
  <1>6. Len(T) = o + 1
    BY <1>1, <1>2, <1>4 DEF Seed, Left
  <1>7. PICK x \in Tokens : x = Last(T) /\ x = T[o + 1]
    <2>1. o + 1 \in 1 .. Len(T)
      BY <1>6
    <2>2. T[o + 1] \in Tokens
      BY <1>4, <2>1, LenProperties DEF Words
    <2> QED BY <1>6, <2>2 DEF Last
  <1>8. Follows(T, o, <<x>>) /\ Len(<<x>>) = 1
    BY <1>4, <1>6, <1>7, OneToken
  <1>9. PICK f : f = Forward(c, <<x>>)
    OBVIOUS
  <1>10. Forwarded(c, s, T, o + 1, session.pending, f)
    <2>1. Takes(c, s, T, o, <<x>>, session.pending)
      BY <1>1, <1>2, <1>3, <1>4, <1>8 DEF Takes
    <2> QED BY <1>8, <1>9, <2>1, ForwardIs
  <1>11. f = cache' /\ session' = [session EXCEPT !.phase = "decode", !.sample = sample]
    BY <1>2, <1>7, <1>9 DEF Seed
  <1>12. /\ Sound(f, s) /\ f.path = c.path /\ Level(f) /\ AllAt(f, o + 1) /\ MinOffset(f) = o + 1
         /\ Agree(T, f.rec, Len(f.rec)) /\ f.rows = <<>>
    BY <1>5, <1>10 DEF Forwarded
  <1>13. PICK g : g = session'
    OBVIOUS
  <1>14. /\ g \in Sessions /\ g.phase = "decode" /\ g.inputs = T /\ g.outputs = <<>> /\ g.sample = sample
         /\ g.pending = <<>>
    <2>1. e \in Sessions
      BY <1>2 DEF Good
    <2>2. g = [e EXCEPT !.phase = "decode", !.sample = sample]
      BY <1>2, <1>11, <1>13
    <2>3. "decode" \in Phases
      BY DEF Phases
    <2> QED BY <1>2, <1>3, <1>4, <2>1, <2>2, <2>3 DEF Sessions
  <1>15. Given(g) = T
    BY <1>4, <1>14, EmptySeq, JoinedFacts DEF Given, Words
  <1>16. Decoding(f, g, s[Last(f.path)])
    <2>1. MinOffset(f) = Len(Given(g)) /\ <<>> \in Words
      BY <1>6, <1>12, <1>15, EmptySeq DEF Words
    <2> QED BY <1>4, <1>12, <1>14, <1>15, <2>1 DEF Decoding
  <1>17. Serving(f, g, s[Last(f.path)])
    <2>1. o + 1 \in Nat
      OBVIOUS
    <2> QED BY <1>12, <1>14, <1>16, <2>1 DEF Serving
  <1> QED BY <1>11, <1>12, <1>13, <1>14, <1>17 DEF Good

\* The tokens given, and the one in flight.
LEMMA GivenMore ==
  ASSUME NEW inputs \in Words, NEW outputs \in Words, NEW x \in Tokens
  PROVE  LET a == inputs \o outputs
             T == inputs \o Append(outputs, x)
         IN /\ a \in Words /\ Append(outputs, x) \in Words /\ Append(outputs, x) # <<>>
            /\ T = Append(a, x) /\ T \in Words /\ Len(a) \in Nat /\ Len(T) = Len(a) + 1
            /\ T[Len(a) + 1] = x /\ Agree(T, a, Len(a))
  <1>1. PICK a, b, T : a = inputs \o outputs /\ b = Append(outputs, x) /\ T = inputs \o b
    OBVIOUS
  <1>2. PICK m \in Nat, n \in Nat : m = Len(inputs) /\ n = Len(outputs)
    BY LenProperties DEF Words
  <1>3. a \in Words /\ Len(a) = m + n /\ \A i \in 1 .. m + n : a[i] = IF i <= m THEN inputs[i] ELSE outputs[i - m]
    BY <1>1, <1>2, ConcatProperties DEF Words
  <1>4. b \in Words /\ Len(b) = n + 1 /\ b # <<>> /\ b[n + 1] = x /\ \A i \in 1 .. n : b[i] = outputs[i]
    BY <1>1, <1>2, AppendFacts DEF Words
  <1>5. /\ T \in Words /\ Len(T) = m + (n + 1)
        /\ \A i \in 1 .. m + (n + 1) : T[i] = IF i <= m THEN inputs[i] ELSE b[i - m]
    BY <1>1, <1>2, <1>4, ConcatProperties DEF Words
  <1>6. PICK q : q = Append(a, x)
    OBVIOUS
  <1>7. q \in Words /\ Len(q) = m + n + 1 /\ q[m + n + 1] = x /\ \A i \in 1 .. m + n : q[i] = a[i]
    BY <1>3, <1>6, AppendFacts DEF Words
  <1>8. ASSUME NEW i \in 1 .. m + n PROVE T[i] = a[i]
    <2>1. i \in 1 .. m + (n + 1)
      OBVIOUS
    <2>2. CASE i <= m
      BY <1>3, <1>5, <2>1, <2>2
    <2>3. CASE i > m
      <3>1. PICK j \in 1 .. n : j = i - m
        <4>1. i - m \in 1 .. n
          BY <2>3
        <4> QED BY <4>1
      <3>2. T[i] = b[j] /\ a[i] = outputs[j] /\ b[j] = outputs[j]
        BY <1>3, <1>4, <1>5, <2>1, <2>3, <3>1
      <3> QED BY <3>2
    <2> QED BY <2>2, <2>3
  <1>9. T[m + n + 1] = x
    <2>1. m + n + 1 \in 1 .. m + (n + 1) /\ ~(m + n + 1 <= m) /\ m + n + 1 - m = n + 1
      OBVIOUS
    <2> QED BY <1>4, <1>5, <2>1
  <1>10. T = q
    <2>1. Len(T) = Len(q)
      BY <1>5, <1>7
    <2>2. ASSUME NEW i \in 1 .. Len(T) PROVE T[i] = q[i]
      <3>1. i \in 1 .. m + n \/ i = m + n + 1
        BY <1>5
      <3> QED BY <1>7, <1>8, <1>9, <3>1
    <2> QED BY <1>5, <1>7, <2>1, <2>2, SeqEqual DEF Words
  <1>11. Agree(T, a, Len(a))
    BY <1>3, <1>5, <1>8 DEF Agree
  <1> QED BY <1>1, <1>3, <1>4, <1>5, <1>6, <1>9, <1>10, <1>11

\* Decode keeps the invariant.
LEMMA DecodeIs ==
  ASSUME NEW s, Good(cache, session, s), NEW sample \in Tokens, Decode(sample)
  PROVE  Good(cache', session', s)
  <1>1. PICK o \in Nat : AllAt(cache, o) /\ MinOffset(cache) = o
    BY ServedAt
  <1>2. PICK c, e : c = cache /\ e = session
    OBVIOUS
  <1>3. /\ Sound(c, s) /\ Level(c) /\ e \in Sessions /\ e.phase = "decode"
        /\ Decoding(c, e, s[Last(c.path)])
    <2>1. session.phase = "decode"
      BY DEF Decode
    <2> QED BY <1>2, <2>1 DEF Good, Serving
  <1>4. PICK a, x : a = Given(e) /\ x = e.sample
    OBVIOUS
  <1>5. /\ e.inputs \in Words /\ e.outputs \in Words /\ x \in Tokens /\ e.pending = <<>> /\ c.rows = <<>>
        /\ o = Len(a) /\ Agree(a, c.rec, Len(c.rec)) /\ Agree(a, s[Last(c.path)], Len(s[Last(c.path)]))
    BY <1>1, <1>2, <1>3, <1>4 DEF Decoding
  <1>6. PICK T, b : b = Append(e.outputs, x) /\ T = e.inputs \o b
    OBVIOUS
  <1>7. /\ b \in Words /\ T \in Words /\ Len(T) = o + 1 /\ T[o + 1] = x /\ Agree(T, a, o)
    BY <1>4, <1>5, <1>6, GivenMore, ZenonT(60) DEF Given
  <1>8. ASSUME NEW y \in Words, Agree(a, y, Len(y)) PROVE Agree(T, y, Len(y))
    <2>1. Len(y) \in Nat /\ Len(y) <= o
      BY <1>5, <1>8, LenProperties DEF Words, Agree
    <2> QED BY <1>7, <1>8, <2>1, AgreeTwice
  <1>9. Agree(T, c.rec, Len(c.rec)) /\ Agree(T, s[Last(c.path)], Len(s[Last(c.path)]))
    <2>1. c.rec \in Words /\ s[Last(c.path)] \in Words
      BY <1>2, ServedAt
    <2> QED BY <1>5, <1>8, <2>1
  <1>10. PICK f : f = Forward(c, <<x>>)
    OBVIOUS
  <1>11. Forwarded(c, s, T, o + 1, session.pending, f)
    <2>1. Follows(T, o, <<x>>) /\ Len(<<x>>) = 1
      BY <1>5, <1>7, OneToken
    <2>2. session.pending \in Seq(Marks) /\ RowsOK(c.rows, session.pending, T, Len(c.kv.buf))
      <3>1. RowsOK(<<>>, <<>>, T, Len(c.kv.buf))
        BY EmptySeq DEF RowsOK
      <3> QED BY <1>2, <1>5, <3>1, EmptySeq
    <2>3. Takes(c, s, T, o, <<x>>, session.pending)
      BY <1>1, <1>2, <1>3, <1>9, <2>1, <2>2 DEF Takes
    <2> QED BY <1>10, <2>1, <2>3, ForwardIs
  <1>12. PICK g : g = session'
    OBVIOUS
  <1>13. f = cache' /\ g = [e EXCEPT !.outputs = b, !.sample = sample]
    BY <1>2, <1>4, <1>6, <1>10, <1>12 DEF Decode
  <1>14. /\ g \in Sessions /\ g.phase = "decode" /\ g.inputs = e.inputs /\ g.outputs = b /\ g.sample = sample
         /\ g.pending = <<>>
    BY <1>3, <1>5, <1>7, <1>13 DEF Sessions
  <1>15. /\ Sound(f, s) /\ f.path = c.path /\ Level(f) /\ AllAt(f, o + 1) /\ MinOffset(f) = o + 1
         /\ Agree(T, f.rec, Len(f.rec)) /\ f.rows = <<>>
    BY <1>5, <1>11 DEF Forwarded
  <1>16. Given(g) = T
    BY <1>6, <1>14 DEF Given
  <1>17. Decoding(f, g, s[Last(f.path)])
    BY <1>5, <1>7, <1>9, <1>14, <1>15, <1>16 DEF Decoding
  <1>18. Serving(f, g, s[Last(f.path)])
    <2>1. o + 1 \in Nat
      OBVIOUS
    <2> QED BY <1>14, <1>15, <1>17, <2>1 DEF Serving
  <1> QED BY <1>12, <1>13, <1>14, <1>15, <1>18 DEF Good

\* The stored tokens, of which the caches have the first.
Has(c, w, T) == /\ T \in Words /\ Agree(T, c.rec, Len(c.rec)) /\ Agree(T, w, Len(w))
                /\ MinOffset(c) <= Len(T)

\* The stored tokens have what the caches and the path stand for.
LEMMA StoredIs ==
  ASSUME NEW s, Good(cache, session, s), Close
  PROVE  Has(cache, s[Last(cache.path)],
             IF session.phase = "decode" THEN Append(Stored, session.sample) ELSE Stored)
  <1>1. PICK c, e, w : c = cache /\ e = session /\ w = s[Last(cache.path)]
    OBVIOUS
  <1>2. /\ w \in Words /\ c.rec \in Words /\ MinOffset(c) \in Nat
    <2>1. \E o \in Nat : MinOffset(cache) = o
      BY ServedAt
    <2> QED BY <1>1, <2>1, ServedAt
  <1>3. Stored = Given(e)
    BY <1>1 DEF Stored, Given
  <1>4. CASE e.phase = "decode"
    <2>1. Decoding(c, e, w)
      BY <1>1, <1>4 DEF Good, Serving
    <2>2. PICK a, x : a = Given(e) /\ x = e.sample
      OBVIOUS
    <2>3. /\ e.inputs \in Words /\ e.outputs \in Words /\ x \in Tokens
          /\ MinOffset(c) = Len(a) /\ Agree(a, c.rec, Len(c.rec)) /\ Agree(a, w, Len(w))
      BY <2>1, <2>2 DEF Decoding
    <2>4. PICK T : T = Append(a, x)
      OBVIOUS
    <2>5. a \in Words /\ T \in Words /\ Len(a) \in Nat /\ Len(T) = Len(a) + 1 /\ Agree(T, a, Len(a))
      <3>1. PICK p \in Words, q \in Words : p = e.inputs /\ q = e.outputs /\ a = p \o q
        BY <2>2, <2>3 DEF Given
      <3>2. a \in Words
        BY <3>1, JoinedFacts
      <3>3. PICK n \in Nat : n = Len(a)
        BY <3>2, LenProperties DEF Words
      <3>4. T \in Words /\ Len(T) = n + 1 /\ \A i \in 1 .. n : T[i] = a[i]
        BY <2>3, <2>4, <3>2, <3>3, AppendFacts DEF Words
      <3>5. Agree(T, a, Len(a))
        BY <3>3, <3>4 DEF Agree
      <3> QED BY <3>2, <3>3, <3>4, <3>5
    <2>6. ASSUME NEW y \in Words, Agree(a, y, Len(y)) PROVE Agree(T, y, Len(y))
      <3>1. Len(y) \in Nat /\ Len(y) <= Len(a)
        BY <2>6, LenProperties DEF Words, Agree
      <3> QED BY <2>5, <2>6, <3>1, AgreeTwice
    <2>7. Has(c, w, T)
      <3>1. MinOffset(c) <= Len(T)
        BY <2>3, <2>5
      <3> QED BY <1>2, <2>3, <2>5, <2>6, <3>1 DEF Has
    <2> QED BY <1>1, <1>3, <1>4, <2>2, <2>4, <2>7
  <1>5. CASE e.phase # "decode"
    <2>1. Filling(c, e, w)
      <3>1. e.phase = "prefill"
        BY <1>1, <1>5 DEF Close
      <3> QED BY <1>1, <3>1 DEF Good, Serving
    <2>2. /\ e.inputs \in Words /\ e.outputs = <<>> /\ Agree(e.inputs, c.rec, Len(c.rec))
          /\ Agree(e.inputs, w, Len(w)) /\ Len(e.inputs) \in Nat
      BY <2>1, FillingIs
    <2>3. Given(e) = e.inputs
      BY <2>2, EmptySeq, JoinedFacts DEF Given, Words
    <2>4. MinOffset(c) <= Len(e.inputs)
      <3>1. MinOffset(c) <= Len(e.inputs) - 1
        BY <2>1 DEF Filling
      <3> QED BY <1>2, <2>2, <3>1
    <2>5. Has(c, w, e.inputs)
      BY <2>2, <2>4 DEF Has
    <2> QED BY <1>1, <1>3, <1>5, <2>3, <2>5
  <1> QED BY <1>4, <1>5

\* The caches come to rest, on a path that stands for at least what they hold.
Rests(d, r) == Sound(d, r) /\ Level(d) /\ (\E o \in Nat : AllAt(d, o)) /\ Resting(d, r[Last(d.path)])

\* After close the path reaches to where the caches end.
LEMMA CloseRests ==
  ASSUME NEW c, NEW s, Sound(c, s), Level(c), NEW o \in Nat, AllAt(c, o), MinOffset(c) = o, c.rows = <<>>,
         Len(c.rec) <= o, NEW stored, Has(c, s[Last(c.path)], stored),
         NEW end, end = c.trie[Last(c.path)].end
  PROVE  \E r : Rests(IF o > end THEN AdvancePath(c, SubSeq(stored, end + 1, o), o) ELSE c, r)
  <1>1. PICK w \in Words : w = s[Last(c.path)] /\ Len(w) = end /\ end \in Nat
    <2>1. Tree(c.trie, s) /\ Last(c.path) \in DOMAIN c.trie
      BY WalkFacts DEF Sound
    <2> QED BY <2>1, TreeFacts
  <1>2. /\ stored \in Words /\ Agree(stored, c.rec, Len(c.rec)) /\ Agree(stored, w, Len(w))
        /\ o <= Len(stored)
    BY <1>1 DEF Has
  <1>3. PICK k \in Nat : k = Len(c.rec) /\ k <= o
    BY OffsetType
  <1>4. CASE o > end
    <2>1. Remains(c, s, stored, end, o)
      <3>1. end < o
        BY <1>1, <1>4
      <3> QED BY <1>1, <1>2, <3>1 DEF Remains
    <2>2. PICK d, U : d = AdvancePath(c, SubSeq(stored, end + 1, o), o) /\ U = SubSeq(stored, 1, o)
      OBVIOUS
    <2>3. PICK r : Grown(c, s, d, r, U)
      BY <1>2, <2>1, <2>2, StoredOnward
    <2>4. /\ Sound(d, r) /\ d.kv = c.kv /\ d.rec = c.rec /\ d.rows = <<>> /\ r[Last(d.path)] = U
      BY <2>3 DEF Grown, Apart
    <2>5. U \in Words /\ Len(U) = o /\ Agree(U, stored, o)
      <3>1. o \in 0 .. Len(stored)
        BY <1>2, LenProperties DEF Words
      <3> QED BY <1>2, <2>2, <3>1, FirstEntries DEF Words
    <2>6. Agree(U, c.rec, k)
      BY <1>2, <1>3, <2>5, AgreeTwice
    <2>7. MinOffset(d) = o /\ Level(d) /\ AllAt(d, o)
      BY <2>4, SameOffsets
    <2>8. Rests(d, r)
      BY <1>3, <2>4, <2>5, <2>6, <2>7 DEF Rests, Resting
    <2> QED BY <1>4, <2>2, <2>8
  <1>5. CASE ~(o > end)
    <2>1. k <= end /\ end <= end
      BY <1>1, <1>3, <1>5
    <2>2. Agree(w, stored, end)
      BY <1>1, <1>2, <2>1, AgreeLess DEF Words
    <2>3. Agree(w, c.rec, k)
      BY <1>1, <1>2, <1>3, <2>1, <2>2, AgreeTwice
    <2>4. o <= Len(w)
      BY <1>1, <1>5
    <2>5. Rests(c, s)
      BY <1>1, <1>3, <2>3, <2>4 DEF Rests, Resting
    <2> QED BY <1>5, <2>5
  <1> QED BY <1>4, <1>5

\* Close keeps the invariant; it does not panic.
LEMMA CloseIs ==
  ASSUME NEW s, Good(cache, session, s), Close
  PROVE  (\E r : Good(cache', session', r)) /\ enforcing' = enforcing
  <1>1. PICK o \in Nat : AllAt(cache, o) /\ MinOffset(cache) = o
    BY ServedAt
  <1>2. PICK c : c = Rescheduled(cache, <<>>, 0)
    OBVIOUS
  <1>3. PICK stored : stored = IF session.phase = "decode" THEN Append(Stored, session.sample) ELSE Stored
    OBVIOUS
  <1>4. /\ Sound(cache, s) /\ Level(cache) /\ Len(cache.rec) <= o
        /\ Has(cache, s[Last(cache.path)], stored)
    BY <1>1, <1>3, ServedAt, StoredIs
  <1>5. /\ Sound(c, s) /\ c.path = cache.path /\ c.kv = cache.kv /\ c.rec = cache.rec
        /\ c.rows = <<>> /\ c.trie = cache.trie
    <2>1. <<>> \in Seq(Snaps) /\ 0 \in Nat
      BY EmptySeq
    <2>2. PICK rows \in Seq(Snaps), base \in Nat : rows = <<>> /\ base = 0
      BY <2>1
    <2>3. Sound(cache, s) /\ c = Rescheduled(cache, rows, base)
      BY <1>2, <1>4, <2>2
    <2>4. /\ Sound(c, s) /\ c.path = cache.path /\ c.kv = cache.kv /\ c.rec = cache.rec
          /\ c.rows = rows /\ c.trie = cache.trie
      BY <2>3, RowsSet
    <2> QED BY <2>2, <2>4
  <1>6. AllAt(c, o) /\ MinOffset(c) = o /\ Level(c)
    BY <1>1, <1>4, <1>5, SameOffsets
  <1>7. Has(c, s[Last(c.path)], stored) /\ Len(c.rec) <= o
    BY <1>1, <1>4, <1>5, <1>6 DEF Has
  <1>8. PICK end : end = c.trie[Last(c.path)].end
    OBVIOUS
  <1>9. PICK d : d = IF o > end THEN AdvancePath(c, SubSeq(stored, end + 1, o), o) ELSE c
    OBVIOUS
  <1>10. PICK r : Rests(d, r)
    BY <1>5, <1>6, <1>7, <1>8, <1>9, CloseRests
  <1>11. ~(o > Len(stored))
    BY <1>1, <1>4 DEF Has
  <1>12. /\ cache' = d /\ enforcing' = enforcing
         /\ session' = [phase |-> "idle", inputs |-> <<>>, outputs |-> <<>>, pending |-> <<>>, sample |-> None]
    <2>1. c = [cache EXCEPT !.rows = <<>>, !.base = 0]
      BY <1>2 DEF Rescheduled
    <2> QED BY <1>3, <1>6, <1>8, <1>9, <1>11, <2>1, Zenon DEF Close
  <1>13. PICK g : g = session'
    OBVIOUS
  <1>14. g \in Sessions /\ g.phase = "idle"
    <2>1. <<>> \in Words /\ "idle" \in Phases /\ <<>> \in Seq(Marks)
      BY EmptySeq DEF Words, Phases
    <2> QED BY <1>12, <1>13, <2>1 DEF Sessions
  <1>15. Good(d, g, r)
    BY <1>10, <1>14 DEF Good, Serving, Rests
  <1> QED BY <1>12, <1>13, <1>15

\* Nodes of which only the mark of the user is another.
Marked(t, u) ==
    /\ DOMAIN u = DOMAIN t /\ u \in [DOMAIN t -> Node]
    /\ \A n \in DOMAIN t : /\ Alike(u[n], t[n]) /\ u[n].kv = t[n].kv /\ u[n].rec = t[n].rec

\* The marks of the user make no other trie,
LEMMA MarkedTree ==
  ASSUME NEW t, NEW s, Tree(t, s), NEW u, Marked(t, u)
  PROVE  Tree(u, s)
  <1>1. DOMAIN u = DOMAIN t /\ Root \in DOMAIN t
    BY DEF Tree, Marked
  <1>2. \A n \in DOMAIN t : u[n].tokens = t[n].tokens /\ u[n].end = t[n].end /\ u[n].parent = t[n].parent
    BY DEF Marked, Alike
  <1>3. /\ IsFiniteSet(DOMAIN u) /\ DOMAIN u \subseteq Nat /\ Root \in DOMAIN u
        /\ u \in [DOMAIN u -> Node] /\ s \in [DOMAIN u -> Words]
        /\ u[Root].tokens = <<>> /\ u[Root].parent = None /\ s[Root] = <<>>
    BY <1>1, <1>2 DEF Tree, Marked
  <1>4. \A n \in DOMAIN u \ {Root} : /\ u[n].parent \in DOMAIN u /\ u[n].tokens # <<>>
                                     /\ s[n] = s[u[n].parent] \o u[n].tokens
    BY <1>1, <1>2, Zenon DEF Tree
  <1>5. \A n \in DOMAIN u : u[n].end = Len(s[n])
    BY <1>1, <1>2 DEF Tree
  <1>6. \A n, m \in DOMAIN u \ {Root} :
           n # m /\ u[n].parent = u[m].parent => u[n].tokens[1] # u[m].tokens[1]
    BY <1>1, <1>2 DEF Tree
  <1> QED BY <1>3, <1>4, <1>5, <1>6 DEF Tree

\* and nothing paid.
LEMMA MarkedPaid ==
  ASSUME NEW t, NEW s, Tree(t, s), NEW u, Marked(t, u)
  PROVE  Paid(u) = Paid(t)
  <1>1. DOMAIN u = DOMAIN t
    BY DEF Marked
  <1>2. \A n \in DOMAIN t : Bytes(u[n]) = Bytes(t[n])
    BY DEF Marked, Bytes
  <1>3. BytesOf(u) = BytesOf(t)
    BY <1>1, <1>2 DEF BytesOf
  <1> QED BY <1>1, <1>3 DEF Paid

\* The mark of the user on a node.
WithUser(c, n, user) == [c EXCEPT !.trie[n].user = @ \/ user]

\* A node may be marked.
LEMMA WithUserSound ==
  ASSUME NEW c, NEW s, Sound(c, s), NEW n \in DOMAIN c.trie, NEW user \in BOOLEAN
  PROVE  LET d == WithUser(c, n, user) IN Sound(d, s) /\ Apart(c, d) /\ d.path = c.path /\ DOMAIN d.trie = DOMAIN c.trie
  <1>1. c \in Caches /\ Tree(c.trie, s) /\ Walks(c.trie, c.path) /\ c.path[1] = Root
    BY DEF Sound
  <1>2. PICK d : d = WithUser(c, n, user)
    OBVIOUS
  <1>3. PICK t, u : t = c.trie /\ u = [c.trie EXCEPT ![n].user = @ \/ user]
    OBVIOUS
  <1>4. /\ d.trie = u /\ d.path = c.path /\ Reshapes(c, d)
    BY <1>1, <1>2, <1>3 DEF Caches, Reshapes, WithUser
  <1>5. t \in [DOMAIN t -> Node] /\ n \in DOMAIN t
    BY <1>1, <1>3 DEF Tree
  <1>6. PICK x : x = [t[n] EXCEPT !.user = @ \/ user]
    OBVIOUS
  <1>7. x \in Node /\ Alike(x, t[n]) /\ x.kv = t[n].kv /\ x.rec = t[n].rec
    <2>1. PICK y \in Node : y = t[n]
      BY <1>5
    <2>2. PICK b \in BOOLEAN : b = (y.user \/ user)
      OBVIOUS
    <2>3. x = [y EXCEPT !.user = b]
      BY <1>6, <2>1, <2>2
    <2> QED BY <2>1, <2>3 DEF Node, Alike
  <1>8. u = [t EXCEPT ![n] = x]
    BY <1>3, <1>6
  <1>9. DOMAIN u = DOMAIN t /\ u[n] = x /\ \A m \in DOMAIN t \ {n} : u[m] = t[m]
    BY <1>5, <1>8
  <1>10. u \in [DOMAIN t -> Node]
    BY <1>5, <1>7, <1>8
  <1>11. Marked(t, u)
    <2>1. \A m \in DOMAIN t : Alike(u[m], t[m]) /\ u[m].kv = t[m].kv /\ u[m].rec = t[m].rec
      BY <1>7, <1>9 DEF Alike
    <2> QED BY <1>9, <1>10, <2>1 DEF Marked
  <1>12. Tree(d.trie, s) /\ Paid(d.trie) = Paid(c.trie)
    BY <1>1, <1>3, <1>4, <1>11, MarkedTree, MarkedPaid
  <1>13. Walks(d.trie, d.path) /\ d.path[1] = Root
    <2>1. \A i \in 1 .. Len(c.path) : c.path[i] \in DOMAIN t
      BY <1>1, <1>3, WalkFacts
    <2>2. \A m \in DOMAIN t : u[m].parent = t[m].parent
      BY <1>11 DEF Marked, Alike
    <2>3. \A i \in 2 .. Len(c.path) : i \in 1 .. Len(c.path)
      BY <1>1, WalkFacts
    <2>4. Walks(u, c.path)
      <3>1. Walks(t, c.path) /\ \A i \in 1 .. Len(c.path) : c.path[i] \in DOMAIN u
        BY <1>1, <1>3, <1>9, <2>1
      <3>2. \A i \in 2 .. Len(c.path) : u[c.path[i]].parent = t[c.path[i]].parent
        BY <2>1, <2>2, <2>3
      <3> QED BY <3>1, <3>2, WalksOn
    <2> QED BY <1>1, <1>4, <2>4
  <1>14. HeldWell(c, d, s)
    <2>1. \A m \in DOMAIN t : u[m].kv = t[m].kv /\ u[m].rec = t[m].rec
      BY <1>11 DEF Marked
    <2> QED BY <1>3, <1>4, <1>9, <2>1 DEF Sound, HeldWell
  <1>15. Sound(d, s) /\ Apart(c, d)
    BY <1>4, <1>12, <1>13, <1>14, Reshape
  <1> QED BY <1>2, <1>3, <1>4, <1>9, <1>15

\* The first of the rows, and the others.
LEMMA FirstRow ==
  ASSUME NEW rows \in Seq(Snaps), NEW pending \in Seq(Marks), pending # <<>>,
         NEW word, NEW len, RowsOK(rows, pending, word, len)
  PROVE  /\ Tail(rows) \in Seq(Snaps) /\ Tail(pending) \in Seq(Marks)
         /\ RowsOK(Tail(rows), Tail(pending), word, len)
         /\ Head(rows) \in Snaps /\ Head(pending) \in Marks
         /\ RowFits(Head(rows), len, word, Head(pending).offset)
  <1>1. PICK N \in Nat : N = Len(pending) /\ N = Len(rows) /\ N >= 1
    <2>1. Len(pending) \in Nat /\ Len(pending) # 0
      BY LenProperties, EmptySeq
    <2> QED BY <2>1 DEF RowsOK
  <1>2. rows # <<>>
    BY <1>1, EmptySeq
  <1>3. PICK q, m : q = Tail(rows) /\ m = Tail(pending)
    OBVIOUS
  <1>4. /\ q \in Seq(Snaps) /\ Len(q) = N - 1 /\ \A i \in 1 .. N - 1 : q[i] = rows[i + 1]
        /\ m \in Seq(Marks) /\ Len(m) = N - 1 /\ \A i \in 1 .. N - 1 : m[i] = pending[i + 1]
    BY <1>1, <1>2, <1>3, HeadTailProperties
  <1>5. \A i \in 1 .. N : RowFits(rows[i], len, word, pending[i].offset)
    BY <1>1 DEF RowsOK, RowFits
  <1>6. RowsOK(q, m, word, len)
    <2>1. ASSUME NEW i \in 1 .. Len(q) PROVE RowFits(q[i], len, word, m[i].offset)
      <3>1. PICK j \in 1 .. N : j = i + 1 /\ i \in 1 .. N - 1
        <4>1. i + 1 \in 1 .. N /\ i \in 1 .. N - 1
          BY <1>4
        <4> QED BY <4>1
      <3>2. q[i] = rows[j] /\ m[i] = pending[j]
        BY <1>4, <3>1
      <3> QED BY <1>5, <3>2
    <2> QED BY <1>4, <2>1 DEF RowsOK, RowFits
  <1>7. Head(rows) = rows[1] /\ Head(pending) = pending[1] /\ 1 \in 1 .. N
    BY <1>1, <1>2, HeadTailProperties
  <1>8. rows[1] \in Snaps /\ pending[1] \in Marks
    BY <1>1, <1>7, LenProperties
  <1> QED BY <1>3, <1>4, <1>5, <1>6, <1>7, <1>8

\* The path is led on to the offset of a capture.
LedTo(b, s, T, at, c, r) ==
    /\ Sound(c, r) /\ Apart(b, c)
    /\ \E w \in Words : w = r[Last(c.path)] /\ at <= Len(w) /\ Agree(T, w, Len(w))

\* attach leads the path to the offset of a capture, if it is not there yet.
LEMMA LedToIs ==
  ASSUME NEW b, NEW s, Sound(b, s), NEW T \in Words, Agree(T, s[Last(b.path)], Len(s[Last(b.path)])),
         NEW at \in Nat, at <= Len(T), NEW end, end = b.trie[Last(b.path)].end
  PROVE  \E r : LedTo(b, s, T, at, IF end < at THEN AdvancePath(b, SubSeq(T, end + 1, at), at) ELSE b, r)
  <1>1. PICK w \in Words : w = s[Last(b.path)] /\ Len(w) = end /\ end \in Nat
    <2>1. Tree(b.trie, s) /\ Last(b.path) \in DOMAIN b.trie
      BY WalkFacts DEF Sound
    <2> QED BY <2>1, TreeFacts
  <1>2. CASE end < at
    <2>1. Remains(b, s, T, end, at)
      BY <1>2 DEF Remains
    <2>2. PICK c, U : c = AdvancePath(b, SubSeq(T, end + 1, at), at) /\ U = SubSeq(T, 1, at)
      OBVIOUS
    <2>3. PICK r : Grown(b, s, c, r, U)
      BY <2>1, <2>2, StoredOnward
    <2>4. U \in Words /\ Len(U) = at /\ Agree(U, T, at)
      <3>1. at \in 0 .. Len(T)
        BY LenProperties DEF Words
      <3> QED BY <2>2, <3>1, FirstEntries DEF Words
    <2>5. Agree(T, U, at) /\ at <= at
      BY <2>4, AgreeLess DEF Words
    <2>6. LedTo(b, s, T, at, c, r)
      BY <2>3, <2>4, <2>5 DEF Grown, LedTo
    <2> QED BY <1>2, <2>2, <2>6
  <1>3. CASE ~(end < at)
    <2>1. at <= Len(w)
      BY <1>1, <1>3
    <2>2. Apart(b, b)
      BY DEF Apart
    <2>3. LedTo(b, s, T, at, b, s)
      BY <1>1, <2>1, <2>2 DEF LedTo
    <2> QED BY <1>3, <2>3
  <1> QED BY <1>2, <1>3

\* A capture is attached there.
AttachedTo(b, T, d, r) ==
    /\ Sound(d, r) /\ Apart(b, d) /\ Agree(T, r[Last(d.path)], Len(r[Last(d.path)]))

\* The capture is of tokens that the node spells.
LEMMA AttachedIs ==
  ASSUME NEW b, NEW s, NEW T \in Words, NEW at \in Nat, NEW c, NEW r, LedTo(b, s, T, at, c, r),
         NEW row \in Snaps, RowFits(row, Len(b.kv.buf), T, at), NEW user \in BOOLEAN,
         NEW to, to = Last(c.path)
  PROVE  AttachedTo(b, T, SetSnapshots(WithUser(c, to, user), to, row), r)
  <1>1. Sound(c, r) /\ Apart(b, c)
    BY DEF LedTo
  <1>2. PICK w \in Words : w = r[to] /\ at <= Len(w) /\ Agree(T, w, Len(w))
    BY DEF LedTo
  <1>3. to \in DOMAIN c.trie
    BY <1>1, WalkFacts DEF Sound
  <1>4. PICK g : g = WithUser(c, to, user)
    OBVIOUS
  <1>5. Sound(g, r) /\ Apart(c, g) /\ g.path = c.path /\ to \in DOMAIN g.trie
    BY <1>1, <1>3, <1>4, WithUserSound
  <1>6. row.kv \in KVSnaps /\ row.rec \in RecSnaps
    BY DEF Snaps
  <1>7. Fits(row.kv, Len(g.kv.buf))
    BY <1>1, <1>5 DEF Apart, RowFits
  <1>8. RecOf(row.rec, w)
    <2>1. ASSUME row.rec # None PROVE Agree(w, row.rec, Len(row.rec))
      <3>1. PICK q \in Words : q = row.rec /\ Agree(T, q, Len(q)) /\ Len(q) <= at
        BY <1>6, <2>1 DEF RecSnaps, RowFits, RecOf
      <3>2. PICK k \in Nat, m \in Nat : k = Len(q) /\ m = Len(w) /\ k <= m /\ m <= m
        <4>1. Len(q) \in Nat /\ Len(w) \in Nat
          BY LenProperties DEF Words
        <4> QED BY <1>2, <3>1, <4>1
      <3>3. Agree(w, T, m)
        BY <1>2, <3>2, AgreeLess DEF Words
      <3>4. Agree(w, q, k)
        BY <3>1, <3>2, <3>3, AgreeTwice
      <3> QED BY <3>1, <3>2, <3>4
    <2> QED BY <2>1 DEF RecOf
  <1>9. PICK d : d = SetSnapshots(g, to, row)
    OBVIOUS
  <1>10. Sound(d, r) /\ SnapshotsSet(g, to, row, d)
    <2>1. RecOf(row.rec, r[to])
      BY <1>2, <1>8
    <2>2. Sound(d, r)
      BY <1>5, <1>6, <1>7, <1>9, <2>1, SnapshotsSound
    <2>3. g \in Caches /\ Tree(g.trie, r)
      BY <1>5 DEF Sound
    <2>4. SnapshotsSet(g, to, row, d)
      BY <1>5, <1>6, <1>9, <2>3, SnapshotsFields
    <2> QED BY <2>2, <2>4
  <1>11. d.path = c.path /\ Apart(b, d)
    BY <1>1, <1>5, <1>10 DEF SnapshotsSet, Apart
  <1>12. AttachedTo(b, T, d, r)
    BY <1>2, <1>10, <1>11 DEF AttachedTo
  <1> QED BY <1>4, <1>9, <1>12

\* The caches and the session after an offset was dealt with.
LEMMA StillFilling ==
  ASSUME NEW c, NEW s, Good(c, session, s), session.phase \in {"prefill", "attach"}, session.pending # <<>>,
         NEW rest, rest = Rescheduled(c, Tail(c.rows), c.base), NEW d, Apart(rest, d), NEW r, Sound(d, r),
         Agree(session.inputs, r[Last(d.path)], Len(r[Last(d.path)])),
         NEW e, e = [session EXCEPT !.pending = Tail(session.pending), !.phase = "attach"]
  PROVE  Good(d, e, r)
  <1>1. Sound(c, s) /\ Filling(c, session, s[Last(c.path)]) /\ session \in Sessions
    BY DEF Good, Serving
  <1>2. PICK o \in Nat : AllAt(c, o) /\ MinOffset(c) = o /\ Level(c)
    BY ServedAt
  <1>3. PICK T, m, q : T = session.inputs /\ m = session.pending /\ q = c.rows
    OBVIOUS
  <1>4. /\ T \in Words /\ T # <<>> /\ session.outputs = <<>> /\ session.sample = None
        /\ Agree(T, c.rec, Len(c.rec)) /\ m \in Seq(Marks) /\ RowsOK(q, m, T, Len(c.kv.buf))
    BY <1>1, <1>3, FillingIs
  <1>5. q \in Seq(Snaps) /\ c.base \in Nat
    BY <1>1, <1>3 DEF Sound, Caches
  <1>6. Tail(q) \in Seq(Snaps) /\ Tail(m) \in Seq(Marks) /\ RowsOK(Tail(q), Tail(m), T, Len(c.kv.buf))
    BY <1>3, <1>4, <1>5, FirstRow
  <1>7. d.kv = c.kv /\ d.rec = c.rec /\ d.rows = Tail(q)
    <2>1. PICK t \in Seq(Snaps), base \in Nat : t = Tail(q) /\ base = c.base
      BY <1>5, <1>6
    <2>2. Sound(c, s) /\ rest = Rescheduled(c, t, base)
      BY <1>1, <1>3, <2>1
    <2>3. rest.kv = c.kv /\ rest.rec = c.rec /\ rest.rows = t
      BY <2>2, RowsSet
    <2> QED BY <2>1, <2>3 DEF Apart
  <1>8. AllAt(d, o) /\ MinOffset(d) = o /\ Level(d)
    BY <1>2, <1>7, SameOffsets
  <1>9. /\ e \in Sessions /\ e.phase = "attach" /\ e.inputs = T /\ e.outputs = <<>> /\ e.sample = None
        /\ e.pending = Tail(m)
    <2>1. "attach" \in Phases
      BY DEF Phases
    <2> QED BY <1>1, <1>3, <1>4, <1>6, <2>1 DEF Sessions
  <1>10. Filling(d, e, r[Last(d.path)])
    <2>1. MinOffset(d) <= Len(e.inputs) - 1
      BY <1>1, <1>2, <1>3, <1>8, <1>9 DEF Filling
    <2> QED BY <1>3, <1>4, <1>6, <1>7, <1>9, <2>1 DEF Filling
  <1> QED BY <1>8, <1>9, <1>10 DEF Good, Serving

\* Attach keeps the invariant.
LEMMA AttachIs ==
  ASSUME NEW s, Good(cache, session, s), Attach, enforcing \in BOOLEAN
  PROVE  (\E r : Good(cache', session', r)) /\ enforcing' \in BOOLEAN
  <1>1. /\ session.phase \in {"prefill", "attach"} /\ Left = 1 /\ session.pending # <<>>
        /\ session' = [session EXCEPT !.pending = Tail(session.pending), !.phase = "attach"]
    BY DEF Attach
  <1>2. PICK o \in Nat : AllAt(cache, o) /\ MinOffset(cache) = o
    BY ServedAt
  <1>3. Sound(cache, s) /\ Filling(cache, session, s[Last(cache.path)])
    BY <1>1 DEF Good, Serving
  <1>4. PICK T, m, q : T = session.inputs /\ m = session.pending /\ q = cache.rows
    OBVIOUS
  <1>5. /\ T \in Words /\ session.outputs = <<>> /\ Len(T) \in Nat /\ m \in Seq(Marks)
        /\ RowsOK(q, m, T, Len(cache.kv.buf)) /\ Agree(T, s[Last(cache.path)], Len(s[Last(cache.path)]))
    BY <1>3, <1>4, FillingIs
  <1>6. q \in Seq(Snaps) /\ cache.base \in Nat
    BY <1>3, <1>4 DEF Sound, Caches
  <1>7. /\ Tail(q) \in Seq(Snaps) /\ Head(q) \in Snaps /\ Head(m) \in Marks
        /\ RowFits(Head(q), Len(cache.kv.buf), T, Head(m).offset)
    BY <1>1, <1>4, <1>5, <1>6, FirstRow
  <1>8. PICK rest : rest = Rescheduled(cache, Tail(q), cache.base)
    OBVIOUS
  <1>9. Sound(rest, s) /\ rest.path = cache.path /\ rest.kv = cache.kv /\ rest.trie = cache.trie
    <2>1. PICK t \in Seq(Snaps), base \in Nat : t = Tail(q) /\ base = cache.base
      BY <1>6, <1>7
    <2>2. Sound(cache, s) /\ rest = Rescheduled(cache, t, base)
      BY <1>3, <1>8, <2>1
    <2> QED BY <2>2, RowsSet
  <1>10. rest = [cache EXCEPT !.rows = Tail(cache.rows)]
    <2>1. cache \in Caches
      BY <1>3 DEF Sound
    <2> QED BY <1>4, <1>8, <2>1 DEF Rescheduled, Caches
  <1>11. Stored = T
    BY <1>4, <1>5, EmptySeq, JoinedFacts DEF Stored, Words
  <1>12. PICK p, row, end : p = Head(m) /\ row = Head(q) /\ end = cache.trie[Last(cache.path)].end
    OBVIOUS
  <1>13. p.offset \in Nat /\ p.user \in BOOLEAN
    BY <1>7, <1>12 DEF Marks
  <1>14. ASSUME NEW d, NEW r, cache' = d, Sound(d, r), Apart(rest, d),
                Agree(T, r[Last(d.path)], Len(r[Last(d.path)]))
         PROVE  Good(cache', session', r)
    BY <1>1, <1>4, <1>8, <1>14, StillFilling
  <1>15. CASE p.offset > MinOffset(cache)
    <2>1. cache' = rest /\ enforcing' = FALSE
      BY <1>4, <1>10, <1>12, <1>15 DEF Attach
    <2>2. Apart(rest, rest)
      BY DEF Apart
    <2>3. Agree(T, s[Last(rest.path)], Len(s[Last(rest.path)]))
      BY <1>5, <1>9
    <2> QED BY <1>9, <1>14, <2>1, <2>2, <2>3
  <1>16. CASE ~(p.offset > MinOffset(cache))
    <2>1. PICK at \in Nat, user \in BOOLEAN : at = p.offset /\ user = p.user
      BY <1>13
    <2>2. PICK c : c = IF end < at THEN AdvancePath(rest, SubSeq(T, end + 1, at), at) ELSE rest
      OBVIOUS
    <2>3. PICK to : to = Last(c.path)
      OBVIOUS
    <2>4. PICK d : d = SetSnapshots(WithUser(c, to, user), to, row)
      OBVIOUS
    <2>5. cache' = d /\ enforcing' = OverLimit(cache')
      <3>1. c = IF end < p.offset THEN AdvancePath(rest, SubSeq(Stored, end + 1, p.offset), p.offset) ELSE rest
        BY <1>11, <2>1, <2>2
      <3>2. d = SetSnapshots([c EXCEPT !.trie[to].user = @ \/ p.user], to, row)
        BY <2>1, <2>4 DEF WithUser
      <3> QED BY <1>4, <1>10, <1>12, <1>16, <2>3, <3>1, <3>2, Zenon DEF Attach
    <2>6. at <= Len(T)
      <3>1. Len(T) - o = 1
        BY <1>1, <1>2, <1>4 DEF Left
      <3>2. at <= o
        BY <1>2, <1>16, <2>1
      <3> QED BY <1>5, <3>1, <3>2
    <2>7. PICK r : LedTo(rest, s, T, at, c, r)
      <3>1. Sound(rest, s) /\ end = rest.trie[Last(rest.path)].end
            /\ Agree(T, s[Last(rest.path)], Len(s[Last(rest.path)])) /\ T \in Words
        BY <1>5, <1>9, <1>12
      <3> QED BY <2>2, <2>6, <3>1, LedToIs
    <2>8. AttachedTo(rest, T, d, r)
      <3>1. row \in Snaps /\ RowFits(row, Len(rest.kv.buf), T, at)
        BY <1>7, <1>9, <1>12, <2>1
      <3> QED BY <1>5, <2>3, <2>4, <2>7, <3>1, AttachedIs
    <2>9. Good(cache', session', r)
      BY <1>14, <2>5, <2>8 DEF AttachedTo
    <2> QED BY <2>5, <2>9 DEF OverLimit
  <1> QED BY <1>15, <1>16

\* A sum of natural numbers is one.
LEMMA TotalNat ==
  ASSUME NEW S, IsFiniteSet(S), NEW f, \A x \in S : f[x] \in Nat
  PROVE  Total(f, S) \in Nat
  <1> DEFINE P == {T \in SUBSET S : Total(f, T) \in Nat}
  <1>1. {} \in P
    BY TotalEmpty
  <1>2. ASSUME NEW T \in SUBSET S, T # {}, \A x \in T : T \ {x} \in P PROVE T \in P
    <2>1. PICK x \in T : TRUE
      BY <1>2
    <2>2. IsFiniteSet(T) /\ \A y \in T : f[y] \in Int
      BY FS_Subset
    <2>3. Total(f, T) = f[x] + Total(f, T \ {x})
      BY <2>2, TotalRemove
    <2>4. Total(f, T \ {x}) \in Nat /\ f[x] \in Nat
      BY <1>2
    <2> QED BY <2>3, <2>4
  <1>3. P = SUBSET S
    <2> HIDE DEF P
    <2>1. P \in SUBSET SUBSET S
      BY DEF P
    <2> QED BY <1>1, <1>2, <2>1, SubsetInduction
  <1> QED BY <1>3

\* The inductive invariant: the nodes spell something, and of that the snapshots, the
\* live caches and the session speak.
IInv ==
    /\ \E s : Good(cache, session, s)
    /\ enforcing \in BOOLEAN /\ requests \in 0 .. MaxRequests

\* A trie of the root alone.
LEMMA RootAlone ==
  ASSUME NEW t, t = [n \in {Root} |-> NewNode(<<>>, 0, None)]
  PROVE  Tree(t, [n \in {Root} |-> <<>>]) /\ Paid(t) = 0 /\ t[Root].kv = None /\ t[Root].rec = None
  <1>1. PICK x, s : x = NewNode(<<>>, 0, None) /\ s = [n \in {Root} |-> <<>>]
    OBVIOUS
  <1>2. /\ x = [tokens |-> <<>>, end |-> 0, parent |-> None, user |-> FALSE, kv |-> None, rec |-> None]
        /\ <<>> \in Words /\ Len(<<>>) = 0
    BY <1>1, EmptySeq DEF NewNode, Words
  <1>3. x \in Node /\ x.tokens = <<>> /\ x.end = 0 /\ x.parent = None /\ x.kv = None /\ x.rec = None
    BY <1>2 DEF Node, KVSnaps, RecSnaps
  <1>4. DOMAIN t = {Root} /\ t[Root] = x /\ s[Root] = <<>>
    BY <1>1
  <1>5. IsFiniteSet({Root}) /\ {Root} \subseteq Nat
    BY FS_Singleton DEF Root
  <1>6. t \in [{Root} -> Node] /\ s \in [{Root} -> Words]
    BY <1>1, <1>2, <1>3
  <1>7. Tree(t, s)
    BY <1>2, <1>3, <1>4, <1>5, <1>6 DEF Tree
  <1>8. Paid(t) = 0
    <2>1. Bytes(x) = 0
      BY <1>3 DEF Bytes, KVBytes
    <2>2. \A n \in {Root} : BytesOf(t)[n] = 0
      BY <1>4, <2>1 DEF BytesOf
    <2> QED BY <1>4, <1>5, <2>2, TotalZero DEF Paid
  <1> QED BY <1>1, <1>3, <1>4, <1>7, <1>8

\* The invariant holds at first,
LEMMA InitIs ==
  Init => IInv
  <1> SUFFICES ASSUME Init PROVE IInv
    OBVIOUS
  <1>1. PICK c, e, t, s : /\ c = cache /\ e = session /\ s = [n \in {Root} |-> <<>>]
                          /\ t = [n \in {Root} |-> NewNode(<<>>, 0, None)]
    OBVIOUS
  <1>2. /\ c = [trie |-> t, path |-> <<Root>>, kv |-> [buf |-> <<>>, off |-> 0, rewound |-> FALSE],
                rec |-> <<>>, paged |-> 0, rows |-> <<>>, base |-> 0]
        /\ e = [phase |-> "idle", inputs |-> <<>>, outputs |-> <<>>, pending |-> <<>>, sample |-> None]
    BY <1>1 DEF Init
  <1>3. Tree(t, s) /\ Paid(t) = 0 /\ t[Root].kv = None /\ t[Root].rec = None
    BY <1>1, RootAlone
  <1>4. DOMAIN t = {Root} /\ s[Root] = <<>>
    BY <1>1
  <1>5. /\ <<>> \in Words /\ Len(<<>>) = 0 /\ <<>> \in Seq(Words) /\ <<>> \in Seq(Snaps) /\ <<>> \in Seq(Marks)
    BY EmptySeq DEF Words
  <1>6. PICK p, k : p = <<Root>> /\ k = [buf |-> <<>>, off |-> 0, rewound |-> FALSE]
    OBVIOUS
  <1>7. p \in Seq(Nat) /\ p \in Seq(DOMAIN t) /\ Len(p) = 1 /\ p[1] = Root /\ p # <<>> /\ Last(p) = Root
    <2>1. p \in Seq(Nat) /\ Len(p) = 1 /\ p[1] = Root
      BY <1>6 DEF Root
    <2>2. p \in Seq(DOMAIN t)
      BY <1>4, <1>6
    <2>3. p # <<>>
      BY <1>5, <2>1
    <2> QED BY <2>1, <2>2, <2>3 DEF Last
  <1>8. k \in KVs /\ k.off = 0 /\ Len(k.buf) = 0
    BY <1>5, <1>6 DEF KVs
  <1>9. /\ c.trie = t /\ c.path = p /\ c.kv = k /\ c.rec = <<>> /\ c.paged = 0 /\ c.rows = <<>>
    BY <1>2, <1>6
  <1>10. t \in Tries
    BY <1>3, TrieIn
  <1>11. c \in Caches
    BY <1>2, <1>5, <1>6, <1>7, <1>8, <1>10 DEF Caches
  <1>12. Walks(t, p)
    <2>1. \A i \in 2 .. Len(p) : FALSE
      BY <1>7
    <2> QED BY <1>7, <2>1 DEF Walks
  <1>13. Sound(c, s)
    <2>1. \A n \in DOMAIN t : Fits(t[n].kv, Len(k.buf)) /\ RecOf(t[n].rec, s[n])
      BY <1>3, <1>4 DEF Fits, RecOf
    <2>2. k.off <= Len(k.buf)
      BY <1>8
    <2> QED BY <1>3, <1>7, <1>9, <1>11, <1>12, <2>1, <2>2 DEF Sound
  <1>14. AllAt(c, 0)
    <2>1. \A l \in Kinds : Offset(c, l) = 0
      BY <1>5, <1>8, <1>9 DEF Offset
    <2> QED BY <2>1 DEF AllAt
  <1>15. MinOffset(c) = 0 /\ Level(c)
    <2>1. MinOffset(c) = 0
      BY <1>13, <1>14, AllAtMin
    <2> QED BY <1>9, <2>1 DEF Level
  <1>16. Resting(c, s[Last(c.path)])
    <2>1. s[Last(c.path)] = <<>>
      BY <1>4, <1>7, <1>9
    <2>2. Agree(<<>>, <<>>, Len(<<>>)) /\ 0 <= Len(<<>>)
      BY <1>5 DEF Agree
    <2> QED BY <1>9, <1>15, <2>1, <2>2 DEF Resting
  <1>17. e \in Sessions /\ e.phase = "idle"
    <2>1. "idle" \in Phases
      BY DEF Phases
    <2> QED BY <1>2, <1>5, <2>1 DEF Sessions
  <1>18. Good(c, e, s)
    BY <1>13, <1>14, <1>15, <1>16, <1>17 DEF Good, Serving
  <1>19. enforcing \in BOOLEAN /\ requests \in 0 .. MaxRequests
    <2>1. MaxRequests \in Nat
      BY PrefixCacheAssumption
    <2>2. enforcing = FALSE /\ requests = 0
      BY DEF Init
    <2>3. requests \in 0 .. MaxRequests
      BY <2>1, <2>2
    <2> QED BY <2>2, <2>3
  <1> QED BY <1>1, <1>18, <1>19 DEF IInv

\* each step keeps it,
LEMMA StepIs ==
  IInv /\ [Next]_vars => IInv'
  <1> SUFFICES ASSUME IInv, [Next]_vars PROVE IInv'
    OBVIOUS
  <1>1. PICK s : Good(cache, session, s)
    BY DEF IInv
  <1>2. enforcing \in BOOLEAN /\ requests \in 0 .. MaxRequests
    BY DEF IInv
  <1>3. CASE UNCHANGED vars
    BY <1>1, <1>2, <1>3 DEF IInv, vars
  <1>4. ASSUME NEW inputs \in Inputs, Begin(inputs) PROVE IInv'
    <2>1. Good(cache', session', s) /\ enforcing' \in BOOLEAN
      BY <1>1, <1>4, BeginIs
    <2>2. requests' \in 0 .. MaxRequests
      <3>1. requests' = requests + 1 /\ requests < MaxRequests
        BY <1>4 DEF Begin
      <3>2. MaxRequests \in Nat
        BY PrefixCacheAssumption
      <3> QED BY <1>2, <3>1, <3>2
    <2> QED BY <2>1, <2>2 DEF IInv
  <1>5. CASE Evict
    <2>1. (\E r : Good(cache', session', r)) /\ enforcing' \in BOOLEAN
      BY <1>1, <1>5, EvictIs
    <2> QED BY <1>2, <1>5, <2>1 DEF IInv, Evict
  <1>6. CASE Prefill
    <2>1. Good(cache', session', s)
      BY <1>1, <1>6, PrefillIs
    <2> QED BY <1>2, <1>6, <2>1 DEF IInv, Prefill
  <1>7. CASE Attach
    <2>1. (\E r : Good(cache', session', r)) /\ enforcing' \in BOOLEAN
      BY <1>1, <1>2, <1>7, AttachIs
    <2> QED BY <1>2, <1>7, <2>1 DEF IInv, Attach
  <1>8. ASSUME NEW sample \in Tokens, Seed(sample) PROVE IInv'
    <2>1. Good(cache', session', s)
      BY <1>1, <1>8, SeedIs
    <2> QED BY <1>2, <1>8, <2>1 DEF IInv, Seed
  <1>9. ASSUME NEW sample \in Tokens, Decode(sample) PROVE IInv'
    <2>1. Good(cache', session', s)
      BY <1>1, <1>9, DecodeIs
    <2> QED BY <1>2, <1>9, <2>1 DEF IInv, Decode
  <1>10. CASE Close
    <2>1. (\E r : Good(cache', session', r)) /\ enforcing' = enforcing
      BY <1>1, <1>10, CloseIs
    <2> QED BY <1>2, <1>10, <2>1 DEF IInv, Close
  <1>11. CASE Finished
    BY <1>1, <1>2, <1>11 DEF IInv, Finished, vars
  <1> QED BY <1>3, <1>4, <1>5, <1>6, <1>7, <1>8, <1>9, <1>10, <1>11 DEF Next

\* and it always holds.
THEOREM Invariant == Spec => []IInv
  BY InitIs, StepIs, PTL DEF Spec

\* What the nodes own is never negative.
LEMMA PaidNat ==
  ASSUME NEW t, NEW s, Tree(t, s)
  PROVE  Paid(t) \in Nat
  <1>1. \A n \in DOMAIN t : BytesOf(t)[n] \in Nat
    BY NodeBytes
  <1> QED BY <1>1, NodeBytes, TotalNat DEF Paid

\* The invariant says what TypeOK does,
LEMMA TypedIs ==
  IInv => TypeOK
  <1> SUFFICES ASSUME IInv PROVE TypeOK
    OBVIOUS
  <1>1. PICK s : Good(cache, session, s)
    BY DEF IInv
  <1>2. Sound(cache, s) /\ session \in Sessions /\ Tree(cache.trie, s) /\ cache \in Caches
    BY <1>1 DEF Good, Sound
  <1>3. ASSUME NEW n \in DOMAIN cache.trie
        PROVE  /\ cache.trie[n].tokens \in Seq(Tokens) /\ cache.trie[n].end \in Nat
               /\ cache.trie[n].parent \in DOMAIN cache.trie \cup {None} /\ cache.trie[n].user \in BOOLEAN
    <2>1. cache.trie[n] \in Node
      BY <1>2, TreeFacts
    <2>2. cache.trie[n].parent \in DOMAIN cache.trie \cup {None}
      BY <1>2 DEF Tree
    <2> QED BY <2>1, <2>2 DEF Node, Words
  <1>4. ToSet(cache.path) \subseteq DOMAIN cache.trie
    <2>1. cache.path \in Seq(DOMAIN cache.trie)
      BY <1>2 DEF Sound, Walks
    <2>2. \A i \in DOMAIN cache.path : cache.path[i] \in DOMAIN cache.trie
      BY <2>1, LenProperties
    <2> QED BY <2>2 DEF ToSet
  <1>5. cache.kv.off \in 0 .. Len(cache.kv.buf)
    <2>1. cache.kv.off \in Nat /\ Len(cache.kv.buf) \in Nat /\ cache.kv.off <= Len(cache.kv.buf)
      BY <1>2, LenProperties DEF Sound, Caches, KVs
    <2> QED BY <2>1
  <1>6. cache.paged \in Nat
    BY <1>2, PaidNat DEF Sound
  <1>7. session.phase \in {"idle", "prefill", "attach", "decode", "panicked"}
    BY <1>2 DEF Sessions, Phases
  <1> QED BY <1>3, <1>4, <1>5, <1>6, <1>7 DEF TypeOK, IInv

\* what TrieShape does,
LEMMA ShapedIs ==
  IInv => TrieShape
  <1> SUFFICES ASSUME IInv PROVE TrieShape
    OBVIOUS
  <1>1. PICK s : Good(cache, session, s)
    BY DEF IInv
  <1>2. PICK t : t = cache.trie
    OBVIOUS
  <1>3. Tree(t, s)
    BY <1>1, <1>2 DEF Good, Sound
  <1>4. \A n \in DOMAIN t \ {Root} : t[n].tokens # <<>> /\ t[n].end = t[t[n].parent].end + Len(t[n].tokens)
    <2>1. TAKE n \in DOMAIN t \ {Root}
    <2>2. PICK q : Edge(t, s, n, q)
      BY <1>3, EdgeFacts
    <2> QED BY <2>2 DEF Edge
  <1>5. \A n, m \in DOMAIN t \ {Root} :
          n # m /\ t[n].parent = t[m].parent => t[n].tokens[1] # t[m].tokens[1]
    BY <1>3 DEF Tree
  <1> QED BY <1>2, <1>4, <1>5 DEF TrieShape

\* what BytesExact does,
LEMMA ExactIs ==
  IInv => BytesExact
  BY DEF IInv, Good, Sound, Paid, BytesOf, BytesExact

\* and what NoPanic does.
LEMMA NoPanicIs ==
  IInv => NoPanic
  BY DEF IInv, Good, Serving, NoPanic

\* What the live caches stand for has what they hold, and what the path spells.
Stands(c, w, T) == T \in Words /\ Agree(T, c.rec, Len(c.rec)) /\ Agree(T, w, Len(w))

\* The live tokens have what the caches hold and what the path spells.
LEMMA LiveIs ==
  ASSUME NEW s, Good(cache, session, s)
  PROVE  Stands(cache, s[Last(cache.path)], Live)
  <1>1. PICK c, e, w : c = cache /\ e = session /\ w = s[Last(cache.path)]
    OBVIOUS
  <1>2. w \in Words /\ c.rec \in Words /\ Serving(c, e, w) /\ Sound(c, s)
    BY <1>1, ServedAt DEF Good
  <1>3. Stored = Given(e)
    BY <1>1 DEF Stored, Given
  <1>4. CASE e.phase = "idle"
    <2>1. Tree(c.trie, s) /\ Last(c.path) \in DOMAIN c.trie
      BY <1>2, WalkFacts DEF Sound
    <2>2. Live = w
      BY <1>1, <1>4, <2>1, SpelledIs DEF Live
    <2>3. Agree(w, c.rec, Len(c.rec))
      BY <1>2, <1>4 DEF Serving, Resting
    <2>4. Agree(w, w, Len(w))
      <3>1. Len(w) \in Nat
        BY <1>2, LenProperties DEF Words
      <3> QED BY <3>1 DEF Agree
    <2> QED BY <1>1, <1>2, <2>2, <2>3, <2>4 DEF Stands
  <1>5. CASE e.phase \in {"prefill", "attach"}
    <2>1. Filling(c, e, w)
      BY <1>2, <1>5 DEF Serving
    <2>2. /\ e.inputs \in Words /\ e.outputs = <<>> /\ e.sample = None
          /\ Agree(e.inputs, c.rec, Len(c.rec)) /\ Agree(e.inputs, w, Len(w))
      BY <2>1, FillingIs
    <2>3. Given(e) = e.inputs
      BY <2>2, EmptySeq, JoinedFacts DEF Given, Words
    <2>4. Live = e.inputs
      BY <1>1, <1>3, <1>5, <2>2, <2>3 DEF Live
    <2> QED BY <1>1, <2>2, <2>4 DEF Stands
  <1>6. CASE e.phase = "decode"
    <2>1. Decoding(c, e, w)
      BY <1>2, <1>6 DEF Serving
    <2>2. PICK a, x : a = Given(e) /\ x = e.sample
      OBVIOUS
    <2>3. /\ e.inputs \in Words /\ e.outputs \in Words /\ x \in Tokens
          /\ Agree(a, c.rec, Len(c.rec)) /\ Agree(a, w, Len(w))
      BY <2>1, <2>2 DEF Decoding
    <2>4. PICK T : T = Append(a, x)
      OBVIOUS
    <2>5. a \in Words
      <3>1. PICK p \in Words, q \in Words : p = e.inputs /\ q = e.outputs /\ a = p \o q
        BY <2>2, <2>3 DEF Given
      <3> QED BY <3>1, JoinedFacts
    <2>6. PICK n \in Nat : n = Len(a)
      BY <2>5, LenProperties DEF Words
    <2>7. T \in Words /\ Agree(T, a, n)
      <3>1. T \in Words /\ Len(T) = n + 1 /\ \A i \in 1 .. n : T[i] = a[i]
        BY <2>3, <2>4, <2>5, <2>6, AppendFacts DEF Words
      <3> QED BY <2>6, <3>1 DEF Agree
    <2>8. ASSUME NEW y \in Words, Agree(a, y, Len(y)) PROVE Agree(T, y, Len(y))
      <3>1. Len(y) \in Nat /\ Len(y) <= n
        BY <2>6, <2>8, LenProperties DEF Words, Agree
      <3> QED BY <2>7, <2>8, <3>1, AgreeTwice
    <2>9. Live = T
      <3>1. x # None
        BY <2>3, PrefixCacheAssumption
      <3> QED BY <1>1, <1>3, <1>6, <2>2, <2>4, <3>1 DEF Live
    <2> QED BY <1>1, <1>2, <2>3, <2>7, <2>8, <2>9 DEF Stands
  <1> QED BY <1>2, <1>4, <1>5, <1>6 DEF Serving

\* The invariant says what PathSpells does,
LEMMA SpellsIs ==
  IInv => PathSpells
  <1> SUFFICES ASSUME IInv PROVE PathSpells
    OBVIOUS
  <1>1. PICK s : Good(cache, session, s)
    BY DEF IInv
  <1>2. PICK o \in Nat : AllAt(cache, o) /\ MinOffset(cache) = o
    BY <1>1, ServedAt
  <1>3. PICK w \in Words : w = s[Last(cache.path)] /\ Len(w) = cache.trie[Last(cache.path)].end
    BY <1>1, ServedAt
  <1>4. Tree(cache.trie, s) /\ Walks(cache.trie, cache.path) /\ cache.path[1] = Root
    BY <1>1 DEF Good, Sound
  <1>5. Spelled(cache.trie, Last(cache.path)) = w
    <2>1. Last(cache.path) \in DOMAIN cache.trie
      BY <1>4, WalkFacts
    <2> QED BY <1>3, <1>4, <2>1, SpelledIs
  <1>6. StartsWith(Live, w)
    <2>1. Stands(cache, w, Live)
      BY <1>1, <1>3, LiveIs
    <2> QED BY <2>1, PrefixIsAgreement DEF Stands, Words
  <1>7. Aligned
    BY <1>2 DEF Aligned, AllAt
  <1>8. session.phase = "idle" => cache.trie[Last(cache.path)].end >= MinOffset(cache)
    <2> SUFFICES ASSUME session.phase = "idle" PROVE cache.trie[Last(cache.path)].end >= MinOffset(cache)
      OBVIOUS
    <2>1. Resting(cache, w)
      BY <1>1, <1>3 DEF Good, Serving
    <2>2. o <= Len(w) /\ Len(w) \in Nat
      BY <1>2, <2>1, LenProperties DEF Resting, Words
    <2> QED BY <1>2, <1>3, <2>2
  <1>9. \A i \in 2 .. Len(cache.path) : cache.trie[cache.path[i]].parent = cache.path[i - 1]
    BY <1>4 DEF Walks
  <1> QED BY <1>4, <1>5, <1>6, <1>7, <1>8, <1>9 DEF PathSpells

\* and what RecFaithful does.
LEMMA FaithfulIs ==
  IInv => RecFaithful
  <1> SUFFICES ASSUME IInv PROVE RecFaithful
    OBVIOUS
  <1>1. PICK s : Good(cache, session, s)
    BY DEF IInv
  <1>2. Sound(cache, s) /\ Tree(cache.trie, s)
    BY <1>1 DEF Good, Sound
  <1>3. StartsWith(Live, cache.rec)
    <2>1. Stands(cache, s[Last(cache.path)], Live) /\ cache.rec \in Words
      BY <1>1, LiveIs, ServedAt
    <2> QED BY <2>1, PrefixIsAgreement DEF Stands, Words
  <1>4. ASSUME NEW n \in DOMAIN cache.trie, cache.trie[n].rec # None
        PROVE  StartsWith(Spelled(cache.trie, n), cache.trie[n].rec)
    <2>1. PICK y : y = cache.trie[n].rec
      OBVIOUS
    <2>2. Agree(s[n], y, Len(y))
      BY <1>2, <1>4, <2>1 DEF Sound, RecOf
    <2>3. s[n] \in Words /\ y \in Words
      <3>1. cache.trie[n] \in Node /\ s[n] \in Words
        BY <1>2, TreeFacts
      <3> QED BY <1>4, <2>1, <3>1 DEF Node, RecSnaps
    <2>4. StartsWith(s[n], y)
      BY <2>2, <2>3, PrefixIsAgreement DEF Words
    <2> QED BY <1>2, <2>1, <2>4, SpelledIs
  <1> QED BY <1>3, <1>4 DEF RecFaithful

\* Whatever the edges and the requests, fields have their types and the count of bytes
\* paged out is never negative.
THEOREM Typed == Spec => []TypeOK
  BY Invariant, TypedIs, PTL

\* Offsets add up along the trie and siblings share no prefix, through splits, longer
\* leaves, merges and evictions (cache_trie.go).
THEOREM Shaped == Spec => []TrieShape
  BY Invariant, ShapedIs, PTL

\* The active path spells what the live caches hold, all caches are at one offset, and
\* close leaves none of their tokens out of the trie.
THEOREM PathIsSpelled == Spec => []PathSpells
  BY Invariant, SpellsIs, PTL

\* pagedOutBytes is what the snapshots own, also those copied out by a hook long after
\* they were counted (kvcache.go, copyOut).
THEOREM BytesAreExact == Spec => []BytesExact
  BY Invariant, ExactIs, PTL

\* Neither PrepareSnapshots nor close panics: captures are scheduled ahead of the caches
\* and after the last were drained, and the caches never outrun the stored tokens.
THEOREM NeverPanics == Spec => []NoPanic
  BY Invariant, NoPanicIs, PTL

\* A recurrent state, live or in a node, was computed from the tokens it is used for.
THEOREM RecIsFaithful == Spec => []RecFaithful
  BY Invariant, FaithfulIs, PTL
=============================================================================
