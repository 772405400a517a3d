------------------------ MODULE PrefixCacheLiveProofs ------------------------
(***************************************************************************)
(* The action properties of PrefixCache: a prompt that goes on from the    *)
(* last keeps all of the live caches, and every slot of the KV cache stays *)
(* that of the tokens it stands for.                                       *)
(***************************************************************************)
EXTENDS PrefixCacheProofs

----------------------------------------------------------------------------
\* The nodes that two paths from the root share are those they have in common at the start.
LEMMA SharedIsCommon ==
  ASSUME NEW T, NEW p \in Seq(T), NEW q \in Seq(T), p # <<>>, q # <<>>, p[1] = q[1]
  PROVE  Shared(p, q) = Common(p, q)
  <1>1. Len(p) \in Nat /\ Len(q) \in Nat /\ Len(p) >= 1 /\ Len(q) >= 1
    BY LenProperties, EmptySeq
  <1>2. PICK m \in Nat : m = Min({Len(p), Len(q)})
    BY <1>1, MinTwo
  <1>3. PICK S : S = {i \in 1 .. m : SubSeq(p, 1, i) = SubSeq(q, 1, i)}
    OBVIOUS
  <1>4. PICK k : k = Common(p, q)
    OBVIOUS
  <1>5. k \in Nat /\ k >= 1
    <2>1. /\ k \in Nat /\ k <= Len(p) /\ k <= Len(q)
          /\ k < Len(p) /\ k < Len(q) => p[k + 1] # q[k + 1]
      BY <1>4, CommonIs
    <2>2. k # 0
      <3>1. ASSUME k = 0 PROVE FALSE
        <4>1. k + 1 = 1 /\ k < Len(p) /\ k < Len(q)
          BY <1>1, <3>1
        <4> QED BY <2>1, <4>1
      <3> QED BY <3>1
    <2> QED BY <2>1, <2>2
  <1>6. k = Max({0} \cup S) /\ Shared(p, q) = Max(S)
    BY <1>2, <1>3, <1>4, Zenon DEF Common, Shared
  <1>7. /\ {0} \cup S \in SUBSET (0 .. m) /\ {0} \cup S # {} /\ S \in SUBSET (0 .. m)
    BY <1>2, <1>3
  <1>8. k \in S /\ \A y \in S : y <= k
    <2>1. k \in {0} \cup S /\ \A y \in {0} \cup S : y <= k
      BY <1>2, <1>6, <1>7, MaxOf
    <2>2. k # 0
      BY <1>5
    <2>3. k \in S
      BY <2>1, <2>2, Zenon
    <2>4. \A y \in S : y <= k
      BY <2>1, Zenon
    <2> QED BY <2>3, <2>4
  <1>9. Max(S) \in S /\ \A y \in S : y <= Max(S)
    BY <1>2, <1>7, <1>8, MaxOf
  <1>10. Max(S) = k
    <2>1. PICK z : z = Max(S)
      OBVIOUS
    <2>2. z \in S /\ z <= k /\ k <= z
      BY <1>8, <1>9, <2>1, Zenon
    <2>3. z \in Nat
      BY <1>2, <1>7, <2>2
    <2> QED BY <1>5, <2>1, <2>2, <2>3
  <1> QED BY <1>4, <1>6, <1>10

\* A walk along a prompt that goes on from what a path spells goes along that path.
LEMMA WalkPasses ==
  ASSUME NEW t, NEW s, Tree(t, s), NEW p, Walks(t, p), p[1] = Root, NEW T \in Words,
         Agree(T, s[Last(p)], t[Last(p)].end), NEW w, Match(t, s, Root, T, w), Stuck(t, s, Root, T, w)
  PROVE  Common(p, w.path) = Len(p) /\ Len(p) <= Len(w.path) /\ t[Last(p)].end <= w.matched
  <1>1. PICK q, h : q = w.path /\ h = w.matched
    OBVIOUS
  <1>2. /\ Walks(t, q) /\ q[1] = Root /\ h \in Nat /\ t[Root].end = 0 /\ h <= Len(T) /\ Len(T) \in Nat
        /\ Agree(s[Last(q)], T, h)
        /\ Len(q) = 1 => h = 0
        /\ Len(q) > 1 => Start(t[Last(q)]) < h
    <2>1. t[Root].end = 0 /\ h \in Nat
      BY <1>1, TreeFacts DEF Tree, Match
    <2>2. t[Root].end + h = h
      BY <2>1
    <2>3. Len(T) \in Nat
      BY LenProperties DEF Words
    <2> QED BY <1>1, <2>1, <2>2, <2>3 DEF Match
  <1>3. /\ Len(p) \in Nat /\ Len(p) >= 1 /\ p \in Seq(DOMAIN t) /\ Last(p) = p[Len(p)]
        /\ \A i \in 1 .. Len(p) : p[i] \in DOMAIN t
    BY WalkFacts
  <1>4. /\ Len(q) \in Nat /\ Len(q) >= 1 /\ q \in Seq(DOMAIN t) /\ Last(q) = q[Len(q)]
        /\ \A i \in 1 .. Len(q) : q[i] \in DOMAIN t
    BY <1>2, WalkFacts
  <1>5. PICK k : k = Common(p, q)
    OBVIOUS
  <1>6. /\ k \in Nat /\ k <= Len(p) /\ k <= Len(q) /\ k >= 1
        /\ \A i \in 1 .. k : p[i] = q[i]
        /\ k < Len(p) /\ k < Len(q) => p[k + 1] # q[k + 1]
    <2>0. PICK D : D = DOMAIN t
      OBVIOUS
    <2>1. /\ k \in Nat /\ k <= Len(p) /\ k <= Len(q) /\ Agree(p, q, k)
          /\ k < Len(p) /\ k < Len(q) => p[k + 1] # q[k + 1]
      BY <1>3, <1>4, <1>5, <2>0, CommonIs
    <2>2. k # 0
      <3>1. ASSUME k = 0 PROVE FALSE
        <4>1. k + 1 = 1 /\ k < Len(p) /\ k < Len(q)
          BY <1>3, <1>4, <3>1
        <4> QED BY <1>2, <2>1, <4>1
      <3> QED BY <3>1
    <2> QED BY <2>1, <2>2 DEF Agree
  <1>7. PICK E, e : E = s[Last(p)] /\ e = t[Last(p)].end
    OBVIOUS
  <1>8. E \in Words /\ Len(E) = e /\ e \in Nat /\ \A i \in 1 .. e : T[i] = E[i]
    BY <1>3, <1>7, TreeFacts DEF Agree
  \* What the path spells up to the last node in common,
  <1>9. PICK x, f : x = p[k] /\ f = t[x].end /\ x \in DOMAIN t /\ x = q[k] /\ f \in Nat
    <2>1. k \in 1 .. Len(p) /\ k \in 1 .. k
      BY <1>3, <1>6
    <2> QED BY <1>3, <1>6, <2>1, TreeFacts
  <1>10. f <= e /\ f <= Len(T) /\ \A i \in 1 .. f : s[x][i] = E[i] /\ s[x][i] = T[i]
    <2>1. k \in 1 .. Len(p) /\ Len(p) \in 1 .. Len(p) /\ k \in 1 .. Len(p)
      BY <1>3, <1>6
    <2>2. Agree(s[p[Len(p)]], s[p[k]], t[p[k]].end) /\ t[p[k]].end <= t[p[Len(p)]].end
      BY <2>1, WalkAgrees
    <2>3. Agree(E, s[x], f) /\ f <= e
      BY <1>3, <1>7, <1>9, <2>2
    <2>4. e <= Len(T)
      BY <1>7 DEF Agree
    <2>5. \A i \in 1 .. f : i \in 1 .. e
      BY <1>8, <1>9, <2>3
    <2>6. \A i \in 1 .. f : s[x][i] = E[i] /\ s[x][i] = T[i]
      BY <1>8, <2>3, <2>5 DEF Agree
    <2>7. f <= Len(T)
      BY <1>2, <1>8, <1>9, <2>3, <2>4
    <2> QED BY <2>3, <2>6, <2>7
  \* and what it goes on with.
  <1>11. ASSUME k < Len(p)
         PROVE  \E y \in DOMAIN t \ {Root} : /\ y = p[k + 1] /\ t[y].parent = x /\ f + 1 <= e
                                             /\ t[y].tokens[1] = T[f + 1]
    <2>1. k + 1 \in 2 .. Len(p) /\ k + 1 \in 1 .. Len(p) /\ (k + 1) - 1 = k /\ Len(p) \in 1 .. Len(p)
          /\ k + 1 \in 1 .. Len(p)
      BY <1>3, <1>6, <1>11
    <2>2. PICK y : y = p[k + 1]
      OBVIOUS
    <2>3. y \in DOMAIN t /\ y # Root /\ t[y].parent = x
      BY <1>3, <1>9, <2>1, <2>2, WalkFacts DEF Walks
    <2>4. Edge(t, s, y, x)
      BY <2>3, EdgeFacts DEF Edge
    <2>5. /\ Len(t[y].tokens) \in Nat /\ Len(t[y].tokens) >= 1 /\ f + Len(t[y].tokens) = t[y].end
          /\ \A i \in 1 .. Len(t[y].tokens) : s[y][f + i] = t[y].tokens[i]
      BY <1>9, <2>3, <2>4, TreeFacts DEF Edge
    <2>6. Agree(E, s[y], t[y].end) /\ t[y].end <= e
      <3>1. /\ Agree(s[p[Len(p)]], s[p[k + 1]], t[p[k + 1]].end)
            /\ t[p[k + 1]].end <= t[p[Len(p)]].end
        BY <2>1, WalkAgrees
      <3> QED BY <1>3, <1>7, <2>2, <3>1
    <2>7. f + 1 <= e /\ f + 1 \in 1 .. t[y].end /\ f + 1 \in 1 .. e /\ 1 \in 1 .. Len(t[y].tokens)
      BY <1>8, <1>9, <2>5, <2>6
    <2>8. t[y].tokens[1] = s[y][f + 1] /\ s[y][f + 1] = E[f + 1] /\ E[f + 1] = T[f + 1]
      BY <1>8, <2>5, <2>6, <2>7 DEF Agree
    <2> QED BY <2>2, <2>3, <2>7, <2>8
  <1>12. Stuck(t, s, Root, T, w) => \/ h = Len(T)
                                    \/ h < t[Last(q)].end /\ s[Last(q)][h + 1] # T[h + 1]
                                    \/ h = t[Last(q)].end /\ \A m \in Children(t, Last(q)) : t[m].tokens[1] # T[h + 1]
    <2>1. t[Root].end + h = h
      BY <1>2
    <2> QED BY <1>1, <2>1 DEF Stuck
  <1>13. Len(q) = k => Last(q) = x /\ h <= f
    <2> SUFFICES ASSUME Len(q) = k PROVE Last(q) = x /\ h <= f
      OBVIOUS
    <2>1. Last(q) = x
      BY <1>4, <1>9
    <2>2. h <= Len(s[x]) /\ Len(s[x]) = f
      BY <1>2, <1>9, <2>1, TreeFacts DEF Agree
    <2> QED BY <2>1, <2>2
  <1>14. k = Len(p)
    <2> SUFFICES ASSUME k < Len(p) PROVE FALSE
      BY <1>3, <1>6
    <2>1. PICK y \in DOMAIN t \ {Root} : /\ y = p[k + 1] /\ t[y].parent = x /\ f + 1 <= e
                                         /\ t[y].tokens[1] = T[f + 1]
      BY <1>11
    <2>2. CASE k < Len(q)
      <3>1. k + 1 \in 2 .. Len(q) /\ k + 1 \in 1 .. Len(q) /\ (k + 1) - 1 = k /\ Len(q) \in 1 .. Len(q)
        BY <1>4, <1>6, <2>2
      <3>2. PICK z : z = q[k + 1]
        OBVIOUS
      <3>3. z \in DOMAIN t /\ z # Root /\ t[z].parent = x
        BY <1>2, <1>4, <1>9, <3>1, <3>2, WalkFacts DEF Walks
      <3>4. z # y
        BY <1>6, <2>1, <2>2, <3>2
      <3>5. t[z].tokens[1] # t[y].tokens[1]
        BY <2>1, <3>3, <3>4 DEF Tree
      <3>6. Edge(t, s, z, x)
        BY <3>3, EdgeFacts DEF Edge
      <3>7. /\ Len(t[z].tokens) \in Nat /\ Len(t[z].tokens) >= 1 /\ f + Len(t[z].tokens) = t[z].end
            /\ \A i \in 1 .. Len(t[z].tokens) : s[z][f + i] = t[z].tokens[i]
        BY <1>9, <3>3, <3>6, TreeFacts DEF Edge
      <3>8. f < h
        <4>1. PICK j : j = Last(q)
          OBVIOUS
        <4>2. j \in DOMAIN t /\ j # Root
          <5>1. Len(q) \in 2 .. Len(q)
            BY <1>4, <1>6, <2>2
          <5> QED BY <1>2, <1>4, <4>1, <5>1, WalkFacts
        <4>3. PICK i : i = Len(q) - 1 /\ i \in 1 .. Len(q) /\ k \in 1 .. i /\ Len(q) \in 2 .. Len(q)
          BY <1>4, <1>6, <2>2
        <4>4. t[j].parent = q[i]
          BY <1>2, <1>4, <4>1, <4>3 DEF Walks
        <4>5. Start(t[j]) = t[q[i]].end /\ t[q[i]].end \in Nat
          <5>1. Edge(t, s, j, q[i])
            BY <4>2, <4>4, EdgeFacts DEF Edge
          <5> QED BY <1>4, <4>3, <5>1, TreeFacts DEF Edge
        <4>6. t[q[k]].end <= t[q[i]].end
          BY <1>2, <4>3, WalkAgrees
        <4>7. Start(t[j]) < h
          BY <1>2, <1>4, <1>6, <2>2, <4>1
        <4> QED BY <1>2, <1>9, <4>5, <4>6, <4>7
      <3>9. s[z][f + 1] = T[f + 1]
        <4>1. Agree(s[Last(q)], s[z], t[z].end)
          BY <1>2, <1>4, <3>1, <3>2, WalkAgrees
        <4>2. f + 1 \in 1 .. t[z].end
          BY <1>9, <3>7
        <4>3. f + 1 \in 1 .. h
          BY <1>2, <1>9, <3>8
        <4> QED BY <1>2, <4>1, <4>2, <4>3 DEF Agree
      <3>10. s[z][f + 1] = t[z].tokens[1]
        <4>1. 1 \in 1 .. Len(t[z].tokens)
          BY <3>7
        <4> QED BY <3>7, <4>1
      <3> QED BY <2>1, <3>5, <3>9, <3>10
    <2>3. CASE k = Len(q)
      <3>1. Last(q) = x /\ h <= f
        BY <1>13, <2>3
      <3>2. h # Len(T)
        <4>1. e <= Len(T)
          BY <1>7 DEF Agree
        <4> QED BY <1>2, <1>8, <1>9, <2>1, <3>1, <4>1
      <3>3. CASE h < f
        <4>1. h + 1 \in 1 .. f
          BY <1>2, <1>9, <3>3
        <4>2. s[x][h + 1] = T[h + 1]
          BY <1>10, <4>1
        <4> QED BY <1>2, <1>9, <1>12, <3>1, <3>2, <3>3, <4>2
      <3>4. CASE h = f
        <4>1. y \in Children(t, x)
          BY <2>1 DEF Children
        <4>2. ~(h < t[x].end)
          <5>1. f = t[x].end /\ f \in Nat /\ h = f
            BY <1>9, <3>4
          <5>2. ~(f < f)
            BY <5>1
          <5> QED BY <5>1, <5>2
        <4>3. t[y].tokens[1] # T[h + 1]
          BY <1>12, <3>1, <3>2, <4>1, <4>2, Zenon
        <4> QED BY <2>1, <3>4, <4>3
      <3> QED BY <1>2, <1>9, <3>1, <3>3, <3>4
    <2> QED BY <1>4, <1>6, <2>2, <2>3
  <1>15. e <= h
    <2>1. x = Last(p) /\ f = e
      BY <1>3, <1>7, <1>9, <1>14
    <2>2. CASE k < Len(q)
      <3>1. PICK j, i : j = Last(q) /\ i = Len(q) - 1 /\ i \in 1 .. Len(q) /\ k \in 1 .. i /\ Len(q) \in 2 .. Len(q)
        BY <1>4, <1>6, <2>2
      <3>2. j \in DOMAIN t /\ j # Root /\ t[j].parent = q[i]
        BY <1>2, <1>4, <3>1, WalkFacts DEF Walks
      <3>3. Start(t[j]) = t[q[i]].end /\ t[q[i]].end \in Nat
        <4>1. Edge(t, s, j, q[i])
          BY <3>2, EdgeFacts DEF Edge
        <4> QED BY <1>4, <3>1, <4>1, TreeFacts DEF Edge
      <3>4. t[q[k]].end <= t[q[i]].end
        BY <1>2, <3>1, WalkAgrees
      <3>5. Start(t[j]) < h
        BY <1>2, <1>4, <1>6, <2>2, <3>1
      <3> QED BY <1>2, <1>8, <1>9, <2>1, <3>3, <3>4, <3>5
    <2>3. CASE k = Len(q)
      <3>1. Last(q) = x /\ h <= f
        BY <1>13, <2>3
      <3>2. CASE h = Len(T)
        <4>1. e <= Len(T)
          BY <1>7 DEF Agree
        <4> QED BY <3>2, <4>1
      <3>3. CASE h < f
        <4>1. h + 1 \in 1 .. f
          BY <1>2, <1>9, <3>3
        <4>2. s[x][h + 1] = T[h + 1]
          BY <1>10, <4>1
        <4>3. h = Len(T)
          BY <1>2, <1>9, <1>12, <3>1, <3>3, <4>2
        <4> QED BY <3>2, <4>3
      <3>4. CASE h = f
        BY <1>8, <2>1, <3>4
      <3> QED BY <1>2, <1>9, <3>1, <3>3, <3>4
    <2> QED BY <1>4, <1>6, <2>2, <2>3
  <1> QED BY <1>1, <1>5, <1>6, <1>7, <1>14, <1>15

\* What begin finds for such a prompt.
LEMMA BestMatchPasses ==
  ASSUME NEW t, NEW s, Tree(t, s), NEW p, Walks(t, p), p[1] = Root, NEW inputs \in Words,
         Agree(inputs, s[Last(p)], t[Last(p)].end), t[Last(p)].end < Len(inputs),
         NEW w, w = BestMatch(t, inputs)
  PROVE  Common(p, w.path) = Len(p) /\ Len(p) <= Len(w.path) /\ t[Last(p)].end <= w.matched
  <1>1. ASSUME NEW T \in Words, Agree(T, s[Last(p)], t[Last(p)].end), NEW v, v = FindBestMatch(t, Root, T)
        PROVE  Common(p, v.path) = Len(p) /\ Len(p) <= Len(v.path) /\ t[Last(p)].end <= v.matched
    <2>1. Match(t, s, Root, T, v) /\ Stuck(t, s, Root, T, v)
      BY <1>1, GoesOnFromRoot, FindBestMatchIs
    <2> QED BY <1>1, <2>1, WalkPasses
  <1>2. PICK e : e = t[Last(p)].end
    OBVIOUS
  <1>3. PICK E : E = s[Last(p)]
    OBVIOUS
  <1>4. e \in Nat /\ E \in Words /\ Len(E) = e
    BY <1>2, <1>3, WalkFacts, TreeFacts
  <1>5. PICK N \in Nat : N = Len(inputs)
    BY LenProperties DEF Words
  <1>6. PICK all : all = FindBestMatch(t, Root, inputs)
    OBVIOUS
  <1>7. CASE all.matched # N
    <2>1. w = all
      BY <1>5, <1>6, <1>7 DEF BestMatch
    <2> QED BY <1>1, <1>6, <2>1
  <1>8. CASE all.matched = N
    <2>1. PICK k \in 0 .. N : k = N - 1 /\ k \in Nat /\ e <= k
      <3>1. N - 1 \in 0 .. N /\ N - 1 \in Nat /\ e <= N - 1
        BY <1>2, <1>4, <1>5
      <3> QED BY <3>1
    <2>2. PICK T : T = SubSeq(inputs, 1, k)
      OBVIOUS
    <2>3. T \in Words /\ Agree(T, inputs, k)
      BY <1>5, <2>1, <2>2, FirstEntries DEF Words
    <2>4. w = FindBestMatch(t, Root, T)
      BY <1>5, <1>6, <1>8, <2>1, <2>2 DEF BestMatch
    <2>5. Agree(T, E, e)
      BY <1>2, <1>3, <1>4, <2>1, <2>3, AgreeTwice
    <2> QED BY <1>1, <1>2, <1>3, <2>3, <2>4, <2>5
  <1> QED BY <1>7, <1>8

\* The snapshots of a node are of its edge, all of it.
Covers(x) ==
    /\ x.kv # None => /\ x.kv.from = Start(x) /\ x.kv.to = x.end
                      /\ ~x.kv.lazy => Len(x.kv.data) = x.kv.to - x.kv.from
    /\ x.rec # None => Len(x.rec) = x.end

\* Along q, after its first k nodes, a snapshot has one of the KV cache before it.
Stacked(t, q, k) == \A i \in k + 1 .. Len(q) :
    "kv" \in Kinds /\ HasSnapshots(t[q[i]]) =>
       t[q[i]].kv # None /\ (i = k + 1 \/ t[q[i - 1]].kv # None)

Ready(t, q, k) == (\A n \in DOMAIN t : Covers(t[n])) /\ Stacked(t, q, k)

\* A snapshot a was copied out as b.
CopyMade(a, b) == a # None /\ b # None /\ b.from = a.from /\ b.to = a.to /\ ~b.lazy /\ Len(b.data) = b.to - b.from

\* Snapshots were at most copied out.
Retained(t, u) ==
    /\ SameNodes(t, u)
    /\ \A n \in DOMAIN t : u[n].rec = t[n].rec /\ (u[n].kv = t[n].kv \/ CopyMade(t[n].kv, u[n].kv))

\* What is copied out still covers its edge.
LEMMA ReadyKept ==
  ASSUME NEW t, NEW u, NEW k \in Nat, NEW q, q \in Seq(DOMAIN t), Ready(t, q, k), Retained(t, u)
  PROVE  Ready(u, q, k)
  <1>1. ASSUME NEW n \in DOMAIN u PROVE Covers(u[n])
    <2>1. n \in DOMAIN t /\ u[n].tokens = t[n].tokens /\ u[n].end = t[n].end
      BY DEF Retained, SameNodes
    <2>2. Covers(t[n]) /\ Start(u[n]) = Start(t[n])
      BY <2>1 DEF Ready, Start
    <2>3. u[n].rec = t[n].rec /\ (u[n].kv = t[n].kv \/ CopyMade(t[n].kv, u[n].kv))
      BY <2>1 DEF Retained
    <2> QED BY <2>1, <2>2, <2>3 DEF Covers, CopyMade
  <1>2. \A n \in DOMAIN t : (u[n].kv # None <=> t[n].kv # None) /\ (HasSnapshots(u[n]) <=> HasSnapshots(t[n]))
    <2>1. TAKE n \in DOMAIN t
    <2>2. u[n].rec = t[n].rec /\ (u[n].kv # None <=> t[n].kv # None)
      BY DEF Retained, CopyMade
    <2> QED BY <2>2 DEF HasSnapshots, Held
  <1>3. Stacked(u, q, k)
    <2>1. \A i \in 1 .. Len(q) : q[i] \in DOMAIN t
      BY LenProperties
    <2>2. Len(q) \in Nat
      BY LenProperties
    <2>3. SUFFICES ASSUME NEW i \in k + 1 .. Len(q), "kv" \in Kinds, HasSnapshots(u[q[i]])
                   PROVE  u[q[i]].kv # None /\ (i = k + 1 \/ u[q[i - 1]].kv # None)
      BY DEF Stacked
    <2>4. q[i] \in DOMAIN t /\ (i # k + 1 => q[i - 1] \in DOMAIN t)
      BY <2>1, <2>2
    <2>5. t[q[i]].kv # None /\ (i = k + 1 \/ t[q[i - 1]].kv # None)
      BY <1>2, <2>3, <2>4 DEF Ready, Stacked
    <2> QED BY <1>2, <2>4, <2>5
  <1> QED BY <1>1, <1>3 DEF Ready

\* Nothing else happens to the snapshots of a trie when some are copied out,
LEMMA CopyOutRetains ==
  ASSUME NEW c, NEW s, Sound(c, s), NEW from, NEW to
  PROVE  Retained(c.trie, CopyOut(c, from, to).trie)
  <1>1. PICK d : d = CopyOut(c, from, to)
    OBVIOUS
  <1>2. CopiedOut(c, from, to, d) /\ Tree(c.trie, s) /\ c \in Caches
    BY <1>1, CopyOutSound DEF Sound
  <1>3. SameNodes(c.trie, d.trie)
    BY <1>2 DEF CopiedOut
  <1>4. ASSUME NEW n \in DOMAIN c.trie
        PROVE  /\ d.trie[n].rec = c.trie[n].rec
               /\ d.trie[n].kv = c.trie[n].kv \/ CopyMade(c.trie[n].kv, d.trie[n].kv)
    <2>1. PICK a : a = c.trie[n].kv
      OBVIOUS
    <2>2. d.trie[n].kv = Copied(c, from, to, a) /\ d.trie[n].rec = c.trie[n].rec
      BY <1>2, <2>1 DEF CopiedOut
    <2>3. a \in KVSnaps /\ Fits(a, Len(c.kv.buf))
      BY <1>2, <2>1, NodeBytes DEF Sound
    <2>4. CASE a # None /\ a.lazy /\ a.from < to /\ a.to > from
      <3>1. PICK b : b = CopyOf(c, a)
        OBVIOUS
      <3>2. d.trie[n].kv = b
        BY <2>2, <2>4, <3>1 DEF Copied
      <3>3. /\ Len(b.data) = a.to - a.from /\ b.lazy = FALSE /\ b.from = a.from /\ b.to = a.to
            /\ b.data \in Seq(Words)
        BY <1>2, <2>3, <2>4, <3>1, CopyType, CopyData
      <3>4. b # None
        <4>1. b = [from |-> a.from, to |-> a.to, lazy |-> FALSE, data |-> b.data]
          BY <3>1 DEF CopyOf, Owned
        <4>2. a.from \in Nat /\ a.to \in Nat
          BY <2>3, <2>4 DEF KVSnaps
        <4>3. b \in [from : Nat, to : Nat, lazy : BOOLEAN, data : Seq(Seq(Tokens))]
          BY <3>3, <4>1, <4>2 DEF Words
        <4> QED BY <4>3, NilAssumption
      <3> QED BY <2>1, <2>2, <2>4, <3>2, <3>3, <3>4 DEF CopyMade
    <2>5. CASE ~(a # None /\ a.lazy /\ a.from < to /\ a.to > from)
      BY <2>1, <2>2, <2>5 DEF Copied
    <2> QED BY <2>4, <2>5
  <1> QED BY <1>1, <1>3, <1>4 DEF Retained

\* as appendKV does.
LEMMA AppendKVRetains ==
  ASSUME NEW c, NEW s, Sound(c, s), NEW data
  PROVE  Retained(c.trie, AppendKV(c, data).trie)
  <1>1. PICK b : b = IF c.kv.rewound THEN CopyOut(c, c.kv.off, c.kv.off + Len(data)) ELSE c
    OBVIOUS
  <1>2. b \in Caches /\ Retained(c.trie, b.trie)
    <2>1. CASE b = c
      BY <2>1 DEF Retained, SameNodes, Sound
    <2>2. CASE b = CopyOut(c, c.kv.off, c.kv.off + Len(data))
      <3>1. Sound(b, s)
        BY <2>2, CopyOutSound
      <3> QED BY <2>2, <3>1, CopyOutRetains DEF Sound
    <2> QED BY <1>1, <2>1, <2>2
  <1>3. \E kv : AppendKV(c, data) = SetKV(b, kv)
    BY <1>1 DEF AppendKV, SetKV
  <1>4. \A kv : SetKV(b, kv).trie = b.trie
    BY <1>2 DEF SetKV, Caches
  <1> QED BY <1>2, <1>3, <1>4

\* The snapshots are retained by no step, and by two that retain them.
LEMMA RetainedTwice ==
  /\ \A t : Retained(t, t)
  /\ \A t, u, v : Retained(t, u) /\ Retained(u, v) => Retained(t, v)
  <1>1. \A t : Retained(t, t)
    BY DEF Retained, SameNodes
  <1>2. ASSUME NEW t, NEW u, NEW v, Retained(t, u), Retained(u, v) PROVE Retained(t, v)
    <2>1. SameNodes(t, v)
      BY <1>2 DEF Retained, SameNodes
    <2>2. ASSUME NEW n \in DOMAIN t
          PROVE  v[n].rec = t[n].rec /\ (v[n].kv = t[n].kv \/ CopyMade(t[n].kv, v[n].kv))
      <3>1. n \in DOMAIN u
        BY <1>2 DEF Retained, SameNodes
      <3>2. u[n].rec = t[n].rec /\ (u[n].kv = t[n].kv \/ CopyMade(t[n].kv, u[n].kv))
        BY <1>2 DEF Retained
      <3>3. v[n].rec = u[n].rec /\ (v[n].kv = u[n].kv \/ CopyMade(u[n].kv, v[n].kv))
        BY <1>2, <3>1 DEF Retained
      <3> QED BY <3>2, <3>3 DEF CopyMade
    <2> QED BY <2>1, <2>2 DEF Retained
  <1> QED BY <1>1, <1>2

\* The KV cache reaches the edge of n, whose snapshot k covers it up to the target.
Reaches(c, n, k, target) ==
    /\ n \in DOMAIN c.trie /\ k = c.trie[n].kv /\ k # None /\ Covers(c.trie[n])
    /\ Start(c.trie[n]) <= c.kv.off /\ target <= c.trie[n].end

\* What the restore of a snapshot that covers its edge does.
Reached(c, s, target, r) ==
    /\ r.ok = TRUE /\ Sound(r.cache, s) /\ r.cache.kv.off = target /\ r.cache.rec = c.rec
    /\ Retained(c.trie, r.cache.trie)

\* Such a snapshot restores the KV cache to each offset up to the end of the edge.
LEMMA RestoreKVReaches ==
  ASSUME NEW c, NEW s, Sound(c, s), NEW n, NEW k, NEW target \in Nat, Reaches(c, n, k, target)
  PROVE  Reached(c, s, target, RestoreKV(c, k, target))
  <1>0. /\ c.kv.off \in Nat /\ c.kv.off <= Len(c.kv.buf) /\ Len(c.kv.buf) \in Nat /\ c.kv.buf \in Seq(Words)
    <2>1. c.kv.off \in Nat /\ c.kv.off <= Len(c.kv.buf) /\ c.kv.buf \in Seq(Words)
      BY DEF Sound, Caches, KVs
    <2> QED BY <2>1, LenProperties
  <1>1. k \in KVSnaps /\ Fits(k, Len(c.kv.buf))
    <2>1. Tree(c.trie, s)
      BY DEF Sound
    <2> QED BY <2>1, NodeBytes DEF Sound, Reaches
  <1>2. /\ k.from \in Nat /\ k.to \in Nat /\ k.data \in Seq(Words) /\ k.lazy \in BOOLEAN
        /\ k.lazy => k.to <= Len(c.kv.buf)
    BY <1>1 DEF KVSnaps, Fits, Reaches
  <1>3. /\ k.from = Start(c.trie[n]) /\ k.to = c.trie[n].end /\ (~k.lazy => Len(k.data) = k.to - k.from)
    BY DEF Covers, Reaches
  <1>4. target <= k.to /\ k.from <= c.kv.off
    BY <1>3 DEF Reaches
  <1>5. ~(target > k.to \/ c.kv.off < k.from)
    BY <1>0, <1>2, <1>4
  <1>6. PICK r : r = RestoreKV(c, k, target)
    OBVIOUS
  <1>7. CASE k.lazy
    <2>1. r = Done(RewoundTo(c, target))
      BY <1>5, <1>6, <1>7, Zenon DEF RestoreKV, Reaches
    <2>2. target <= Len(c.kv.buf)
      BY <1>0, <1>2, <1>4, <1>7
    <2>3. PICK d : d = RewoundTo(c, target)
      OBVIOUS
    <2>4. Sound(d, s) /\ d.rec = c.rec /\ d.trie = c.trie /\ d.kv.off = target
      <3>1. /\ Sound(d, s) /\ d.rec = c.rec /\ d.trie = c.trie
            /\ d.kv = [buf |-> c.kv.buf, off |-> target, rewound |-> TRUE]
        BY <2>2, <2>3, RewoundSound
      <3> QED BY <3>1
    <2>5. r.ok = TRUE /\ r.cache = d
      BY <2>1, <2>3, ResultIs
    <2> QED BY <1>6, <2>4, <2>5, RetainedTwice DEF Reached
  <1>8. CASE ~k.lazy
    <2>1. PICK b : b = RewoundTo(c, k.from)
      OBVIOUS
    <2>2. Sound(b, s) /\ b.rec = c.rec /\ b.trie = c.trie /\ b.kv.off = k.from
      <3>1. k.from <= Len(c.kv.buf)
        BY <1>0, <1>2, <1>4
      <3>2. /\ Sound(b, s) /\ b.rec = c.rec /\ b.trie = c.trie
            /\ b.kv = [buf |-> c.kv.buf, off |-> k.from, rewound |-> TRUE]
        BY <1>2, <2>1, <3>1, RewoundSound
      <3> QED BY <3>2
    <2>3. PICK fed : fed = AppendKV(b, k.data)
      OBVIOUS
    <2>4. /\ Sound(fed, s) /\ fed.rec = b.rec /\ fed.kv.off <= Len(fed.kv.buf)
          /\ fed.kv.off = b.kv.off + Len(k.data)
      BY <1>2, <2>2, <2>3, AppendKVSound DEF Appended
    <2>5. Retained(c.trie, fed.trie)
      BY <2>2, <2>3, AppendKVRetains
    <2>6. fed.kv.off = k.to
      BY <1>2, <1>3, <1>8, <2>2, <2>4
    <2>7. Min({target, fed.kv.off}) = target
      <3>1. target \in Int /\ fed.kv.off \in Int /\ target <= fed.kv.off
        BY <1>2, <1>4, <2>6
      <3> QED BY <3>1, MinTwo
    <2>8. target <= Len(fed.kv.buf)
      <3>1. fed.kv.buf \in Seq(Words)
        BY <2>4 DEF Sound, Caches, KVs
      <3>2. Len(fed.kv.buf) \in Nat
        BY <3>1, LenProperties
      <3> QED BY <1>2, <1>4, <2>4, <2>6, <3>2
    <2>9. PICK d : d = [fed EXCEPT !.kv.off = target]
      OBVIOUS
    <2>10. Sound(d, s) /\ d.rec = fed.rec /\ d.kv.off = target
      BY <2>4, <2>8, <2>9, OffSetSound
    <2>11. d.trie = fed.trie
      BY <2>4, <2>9 DEF Sound, Caches
    <2>12. r = Done(d)
      BY <1>5, <1>6, <1>8, <2>1, <2>3, <2>7, <2>9, Zenon DEF RestoreKV, Reaches
    <2>13. r.ok = TRUE /\ r.cache = d
      BY <2>12, ResultIs
    <2> QED BY <1>6, <2>2, <2>4, <2>5, <2>10, <2>11, <2>13 DEF Reached
  <1> QED BY <1>2, <1>7, <1>8

\* A state of page-in along q that has lost nothing of the first o tokens.
At(s, q, k, o, r) ==
    /\ r.ok \in BOOLEAN /\ Sound(r.cache, s) /\ Level(r.cache)
    /\ Walks(r.cache.trie, q) /\ Ready(r.cache.trie, q, k)
    /\ "kv" \in Kinds => o <= r.cache.kv.off
    /\ "rec" \in Kinds => o <= Len(r.cache.rec)

\* Retaining its snapshots leaves a trie as it was to page-in.
LEMMA AtKept ==
  ASSUME NEW s, NEW q, NEW k \in Nat, NEW o, NEW r, At(s, q, k, o, r), NEW v, v.ok \in BOOLEAN, Sound(v.cache, s),
         Retained(r.cache.trie, v.cache.trie), v.cache.rec = r.cache.rec \/ "rec" \in Kinds,
         "kv" \in Kinds => o <= v.cache.kv.off, "rec" \in Kinds => o <= Len(v.cache.rec)
  PROVE  At(s, q, k, o, v)
  <1>1. PICK t, u : t = r.cache.trie /\ u = v.cache.trie
    OBVIOUS
  <1>2. Tree(t, s) /\ Walks(t, q) /\ Ready(t, q, k) /\ SameNodes(t, u) /\ Retained(t, u)
    BY <1>1 DEF At, Sound, Retained
  <1>3. Walks(u, q)
    BY <1>2, SameWalks
  <1>4. q \in Seq(DOMAIN t)
    BY <1>2 DEF Walks
  <1>5. Ready(u, q, k)
    BY <1>2, <1>4, ReadyKept
  <1>6. Level(v.cache)
    BY LevelOf DEF At
  <1> QED BY <1>1, <1>3, <1>5, <1>6 DEF At

\* Where page-in of a node takes the caches.
Target(t, n, m) == Min({t[n].end, m})

\* The nodes on q have natural numbers for targets.
LEMMA TargetIs ==
  ASSUME NEW t, NEW s, Tree(t, s), NEW n \in DOMAIN t, NEW m \in Nat
  PROVE  /\ Target(t, n, m) \in Nat /\ Target(t, n, m) <= t[n].end /\ Target(t, n, m) <= m
         /\ Target(t, n, m) = t[n].end \/ Target(t, n, m) = m
  <1>1. t[n].end \in Nat
    BY TreeFacts
  <1> QED BY <1>1, MinTwo DEF Target

\* The KV cache reaches the edge of n, or is at the target.
Near(r, n, m) ==
    r.ok /\ r.cache.trie[n].kv # None =>
       Start(r.cache.trie[n]) <= r.cache.kv.off \/ Target(r.cache.trie, n, m) <= r.cache.kv.off

\* What page-in of the KV cache, and of the recurrent state, from n does.
KVMoved(s, q, k, o, m, n, r, v) ==
    /\ At(s, q, k, o, v) /\ v.ok = r.ok /\ v.cache.rec = r.cache.rec /\ r.cache.kv.off <= v.cache.kv.off
    /\ r.ok /\ r.cache.trie[n].kv # None => Target(r.cache.trie, n, m) <= v.cache.kv.off
    /\ Retained(r.cache.trie, v.cache.trie)
RecMoved(s, q, k, o, m, n, r, v) ==
    /\ At(s, q, k, o, v) /\ v.cache.kv = r.cache.kv /\ v.cache.trie = r.cache.trie /\ (v.ok => r.ok)
    /\ \/ v.cache.rec = r.cache.rec
       \/ /\ r.ok /\ v.ok /\ r.cache.trie[n].rec # None
          /\ Len(v.cache.rec) = Target(r.cache.trie, n, m)

\* Page-in of the KV cache from a node below what it holds reaches the target.
LEMMA KVStep ==
  ASSUME NEW s, NEW q, NEW k \in Nat, NEW o \in Nat, NEW r, At(s, q, k, o, r), NEW m \in Nat,
         NEW n \in DOMAIN r.cache.trie, Near(r, n, m)
  PROVE  KVMoved(s, q, k, o, m, n, r, PageInLayer(r, n, "kv", m))
  <1>0. PICK x, target : x = r.cache.trie[n] /\ target = Target(r.cache.trie, n, m)
    OBVIOUS
  <1>1. PICK c : c = r.cache
    OBVIOUS
  <1>2. Sound(c, s) /\ Tree(c.trie, s) /\ c.kv.off \in Nat /\ Covers(x) /\ r.ok \in BOOLEAN
    BY <1>0, <1>1, OffsetType DEF At, Sound, Ready
  <1>3. target \in Nat /\ target <= x.end
    BY <1>0, <1>1, <1>2, TargetIs
  <1>4. PICK v : v = PageInLayer(r, n, "kv", m)
    OBVIOUS
  <1>5. v = IF ~r.ok \/ x.kv = None \/ c.kv.off >= target THEN r ELSE RestoreKV(c, x.kv, target)
    <2>1. Held(x, "kv") = x.kv /\ Offset(c, "kv") = c.kv.off
      BY DEF Held, Offset
    <2>2. Restore(c, "kv", x.kv, target) = RestoreKV(c, x.kv, target)
      BY DEF Restore
    <2>3. target = Min({x.end, m})
      BY <1>0 DEF Target
    <2> QED BY <1>0, <1>1, <1>4, <2>1, <2>2, <2>3, Zenon DEF PageInLayer
  <1>6. CASE ~r.ok \/ x.kv = None \/ c.kv.off >= target
    <2>1. v = r
      BY <1>5, <1>6
    <2>2. r.ok /\ x.kv # None => target <= c.kv.off
      BY <1>2, <1>3, <1>6
    <2>3. c.kv.off <= c.kv.off
      BY <1>2
    <2> QED BY <1>0, <1>1, <1>4, <2>1, <2>2, <2>3, RetainedTwice DEF KVMoved
  <1>7. CASE ~(~r.ok \/ x.kv = None \/ c.kv.off >= target)
    <2>1. v = RestoreKV(c, x.kv, target) /\ r.ok = TRUE /\ x.kv # None /\ c.kv.off < target
      BY <1>2, <1>3, <1>5, <1>7
    <2>2. Start(x) <= c.kv.off
      BY <1>0, <1>1, <1>2, <1>3, <2>1 DEF Near
    <2>3. /\ v.ok = TRUE /\ Sound(v.cache, s) /\ v.cache.kv.off = target /\ v.cache.rec = c.rec
          /\ Retained(c.trie, v.cache.trie)
      <3>1. n \in DOMAIN c.trie /\ x = c.trie[n]
        BY <1>0, <1>1
      <3>2. PICK h : h = x.kv
        OBVIOUS
      <3>3. Reaches(c, n, h, target)
        BY <1>2, <1>3, <2>1, <2>2, <3>1, <3>2 DEF Reaches
      <3>4. Reached(c, s, target, RestoreKV(c, h, target))
        BY <1>2, <1>3, <3>3, RestoreKVReaches
      <3> QED BY <2>1, <3>2, <3>4 DEF Reached
    <2>4. c.kv.off <= target /\ ("kv" \in Kinds => o <= target)
      <3>1. "kv" \in Kinds => o <= c.kv.off
        BY <1>1 DEF At
      <3> QED BY <1>2, <1>3, <2>1, <3>1
    <2>5. "rec" \in Kinds => o <= Len(v.cache.rec)
      BY <1>1, <2>3 DEF At
    <2>6. At(s, q, k, o, v)
      <3>1. /\ v.ok \in BOOLEAN /\ Retained(r.cache.trie, v.cache.trie) /\ v.cache.rec = r.cache.rec
            /\ "kv" \in Kinds => o <= v.cache.kv.off
        BY <1>1, <2>3, <2>4
      <3> QED BY <2>3, <2>5, <3>1, AtKept
    <2>7. target <= target
      BY <1>3
    <2> QED BY <1>0, <1>1, <1>4, <2>1, <2>3, <2>4, <2>6, <2>7 DEF KVMoved
  <1> QED BY <1>6, <1>7

\* Page-in of the recurrent cache reaches the target or leaves it.
LEMMA RecStep ==
  ASSUME NEW s, NEW q, NEW k \in Nat, NEW o \in Nat, NEW r, At(s, q, k, o, r), NEW m \in Nat, "rec" \in Kinds,
         NEW n \in DOMAIN r.cache.trie
  PROVE  RecMoved(s, q, k, o, m, n, r, PageInLayer(r, n, "rec", m))
  <1>0. PICK x, target : x = r.cache.trie[n] /\ target = Target(r.cache.trie, n, m)
    OBVIOUS
  <1>1. PICK c : c = r.cache
    OBVIOUS
  <1>2. /\ Sound(c, s) /\ Tree(c.trie, s) /\ Len(c.rec) \in Nat /\ c.rec \in Words /\ r.ok \in BOOLEAN
        /\ x.rec \in RecSnaps /\ o <= Len(c.rec)
    <2>1. Sound(c, s) /\ Tree(c.trie, s) /\ r.ok \in BOOLEAN /\ o <= Len(c.rec)
      BY <1>1 DEF At, Sound
    <2> QED BY <1>0, <1>1, <2>1, OffsetType, NodeBytes
  <1>3. target \in Nat /\ target <= x.end
    BY <1>0, <1>1, <1>2, TargetIs
  <1>4. PICK v : v = PageInLayer(r, n, "rec", m)
    OBVIOUS
  <1>5. v = IF ~r.ok \/ x.rec = None \/ Len(c.rec) >= target THEN r ELSE RestoreRec(c, x.rec, target)
    <2>1. Held(x, "rec") = x.rec /\ Offset(c, "rec") = Len(c.rec)
      BY DEF Held, Offset
    <2>2. Restore(c, "rec", x.rec, target) = RestoreRec(c, x.rec, target)
      BY DEF Restore
    <2>3. target = Min({x.end, m})
      BY <1>0 DEF Target
    <2> QED BY <1>0, <1>1, <1>4, <2>1, <2>2, <2>3, Zenon DEF PageInLayer
  <1>6. CASE ~r.ok \/ x.rec = None \/ Len(c.rec) >= target
    <2>1. v = r
      BY <1>5, <1>6
    <2> QED BY <1>4, <2>1 DEF RecMoved
  <1>7. CASE ~(~r.ok \/ x.rec = None \/ Len(c.rec) >= target)
    <2>1. v = RestoreRec(c, x.rec, target) /\ r.ok = TRUE /\ x.rec # None /\ Len(c.rec) < target
      BY <1>2, <1>3, <1>5, <1>7
    <2>2. /\ v.ok \in BOOLEAN /\ Sound(v.cache, s) /\ v.cache.kv = c.kv
          /\ ~v.ok => v.cache = c
          /\ v.ok => Len(v.cache.rec) = target
      <3>1. PICK h : h = x.rec /\ h \in RecSnaps
        BY <1>2
      <3>2. v = RestoreRec(c, h, target)
        BY <2>1, <3>1
      <3>3. Sound(c, s) /\ target \in Nat
        BY <1>2, <1>3
      <3> QED BY <3>1, <3>2, <3>3, RestoreRecIs
    <2>3. v.cache.trie = c.trie
      <3>1. v = Failed(c) \/ v = Done([c EXCEPT !.rec = x.rec])
        BY <2>1, Zenon DEF RestoreRec
      <3>2. v.cache = c \/ v.cache = [c EXCEPT !.rec = x.rec]
        BY <3>1, ResultIs
      <3> QED BY <1>2, <3>2 DEF Sound, Caches
    <2>4. o <= Len(v.cache.rec)
      BY <1>2, <1>3, <2>1, <2>2
    <2>5. At(s, q, k, o, v)
      <3>1. Retained(r.cache.trie, v.cache.trie)
        BY <1>1, <2>3, RetainedTwice
      <3>2. "kv" \in Kinds => o <= v.cache.kv.off
        BY <1>1, <2>2 DEF At
      <3> QED BY <2>2, <2>4, <3>1, <3>2, AtKept
    <2> QED BY <1>0, <1>1, <1>4, <2>1, <2>2, <2>3, <2>5 DEF RecMoved
  <1> QED BY <1>6, <1>7

\* The recurrent state is no further on than the KV cache.
Low(c) == "kv" \in Kinds => Len(c.rec) <= c.kv.off

\* It is at the target, if there is something to restore.
There(r, n, m) == r.ok /\ r.cache.trie[n].kv # None => Target(r.cache.trie, n, m) <= r.cache.kv.off

\* A state of page-in after the first i nodes of q.
On(s, q, k, o, m, i, r) ==
    /\ At(s, q, k, o, r) /\ Low(r.cache)
    /\ "kv" \in Kinds /\ i \in k + 1 .. Len(q) => There(r, q[i], m)

\* Below what the caches are for, a node hangs where the KV cache is or on one paged in.
LEMMA NearIs ==
  ASSUME NEW s, NEW q, NEW k \in Nat, NEW o \in Nat, NEW m \in Nat, NEW r, NEW i \in k + 1 .. Len(q),
         k \in 1 .. Len(q), Len(s[q[k]]) = o, On(s, q, k, o, m, i - 1, r), "kv" \in Kinds
  PROVE  Near(r, q[i], m)
  <1>1. PICK t : t = r.cache.trie
    OBVIOUS
  <1>2. Tree(t, s) /\ Walks(t, q) /\ Ready(t, q, k) /\ r.cache.kv.off \in Nat /\ o <= r.cache.kv.off
    BY <1>1, OffsetType DEF On, At, Sound
  <1>3. Len(q) \in Nat /\ \A j \in 1 .. Len(q) : q[j] \in DOMAIN t
    BY <1>2, WalkFacts
  <1>4. i \in 2 .. Len(q) /\ i \in 1 .. Len(q) /\ i - 1 \in 1 .. Len(q) /\ (i # k + 1 => i - 1 \in k + 1 .. Len(q))
        /\ (i = k + 1 => i - 1 = k)
    BY <1>3
  <1>5. PICK n, p : n = q[i] /\ p = q[i - 1]
    OBVIOUS
  <1>6. n \in DOMAIN t /\ p \in DOMAIN t /\ n # Root /\ t[n].parent = p
    BY <1>2, <1>3, <1>4, <1>5, WalkFacts DEF Walks
  <1>7. Start(t[n]) = t[p].end /\ t[p].end \in Nat
    <2>1. Edge(t, s, n, p)
      BY <1>2, <1>6, EdgeFacts DEF Edge
    <2> QED BY <1>2, <1>6, <2>1, TreeFacts DEF Edge
  <1>8. SUFFICES ASSUME r.ok, t[n].kv # None
                 PROVE  Start(t[n]) <= r.cache.kv.off \/ Target(t, n, m) <= r.cache.kv.off
    BY <1>1, <1>5 DEF Near
  <1>9. CASE i = k + 1
    <2>1. t[p].end = o
      BY <1>2, <1>4, <1>5, <1>6, <1>9, TreeFacts
    <2> QED BY <1>2, <1>7, <2>1
  <1>10. CASE i # k + 1
    <2>1. HasSnapshots(t[n])
      BY <1>8 DEF HasSnapshots, Held
    <2>2. t[p].kv # None
      BY <1>2, <1>5, <1>10, <2>1 DEF Ready, Stacked
    <2>3. There(r, p, m)
      BY <1>4, <1>5, <1>10 DEF On
    <2>4. Target(t, p, m) <= r.cache.kv.off
      BY <1>1, <1>8, <2>2, <2>3 DEF There
    <2>5. Target(t, p, m) = t[p].end \/ Target(t, p, m) = m
      BY <1>2, <1>6, TargetIs
    <2>6. Target(t, n, m) \in Nat /\ Target(t, n, m) <= m
      BY <1>2, <1>6, TargetIs
    <2> QED BY <1>2, <1>7, <2>4, <2>5, <2>6
  <1> QED BY <1>9, <1>10

\* Page-in of the KV cache from the node: it comes to the target, if there is something to
\* restore, and stays ahead of the recurrent state.
LEMMA KVOn ==
  ASSUME NEW s, NEW q, NEW k \in Nat, NEW o \in Nat, NEW r, At(s, q, k, o, r), NEW m \in Nat,
         NEW n \in DOMAIN r.cache.trie, Near(r, n, m), NEW v, v = PageInLayer(r, n, "kv", m)
  PROVE  /\ At(s, q, k, o, v) /\ There(v, n, m) /\ v.ok = r.ok /\ v.cache.rec = r.cache.rec
         /\ Low(r.cache) => Low(v.cache)
  <1>1. PICK x, target : x = r.cache.trie[n] /\ target = Target(r.cache.trie, n, m)
    OBVIOUS
  <1>2. KVMoved(s, q, k, o, m, n, r, v)
    BY KVStep
  <1>3. /\ At(s, q, k, o, v) /\ v.ok = r.ok /\ v.cache.rec = r.cache.rec /\ r.cache.kv.off <= v.cache.kv.off
        /\ r.ok /\ x.kv # None => target <= v.cache.kv.off
        /\ Retained(r.cache.trie, v.cache.trie)
    BY <1>1, <1>2 DEF KVMoved
  <1>4. /\ v.cache.trie[n].end = x.end
        /\ v.cache.trie[n].kv # None => x.kv # None
    BY <1>1, <1>3 DEF Retained, SameNodes, CopyMade
  <1>5. Target(v.cache.trie, n, m) = target
    BY <1>1, <1>4 DEF Target
  <1>6. There(v, n, m)
    BY <1>3, <1>4, <1>5 DEF There
  <1>7. Low(r.cache) => Low(v.cache)
    <2>1. r.cache.kv.off \in Nat /\ v.cache.kv.off \in Nat /\ Len(r.cache.rec) \in Nat
      BY <1>3, OffsetType DEF At
    <2> QED BY <1>3, <2>1 DEF Low
  <1> QED BY <1>3, <1>6, <1>7

\* A node off the path that has a recurrent state has a snapshot of the KV cache.
LEMMA KVToo ==
  ASSUME NEW s, NEW q, NEW k, NEW o, NEW r, At(s, q, k, o, r), NEW i \in k + 1 .. Len(q),
         "kv" \in Kinds, "rec" \in Kinds, r.cache.trie[q[i]].rec # None
  PROVE  r.cache.trie[q[i]].kv # None
  <1>1. HasSnapshots(r.cache.trie[q[i]])
    BY DEF HasSnapshots, Held
  <1> QED BY <1>1 DEF At, Ready, Stacked

\* Page-in of a node below what the caches are for,
LEMMA BelowStep ==
  ASSUME NEW s, NEW q, NEW k \in Nat, NEW o \in Nat, NEW m \in Nat, NEW r, NEW i \in k + 1 .. Len(q),
         k \in 1 .. Len(q), Len(s[q[k]]) = o, On(s, q, k, o, m, i - 1, r)
  PROVE  On(s, q, k, o, m, i, PageInNode(r, q[i], m))
  <1>1. PICK n : n = q[i]
    OBVIOUS
  <1>2. PICK v : v = PageInNode(r, n, m)
    OBVIOUS
  <1>3. At(s, q, k, o, r) /\ Low(r.cache) /\ Len(q) \in Nat
    <2>1. At(s, q, k, o, r) /\ Low(r.cache)
      BY DEF On
    <2>2. Sound(r.cache, s) /\ Walks(r.cache.trie, q)
      BY <2>1 DEF At
    <2> QED BY <2>1, <2>2, WalkFacts DEF Sound
  <1>4. \A a : At(s, q, k, o, a) => n \in DOMAIN a.cache.trie
    <2>1. TAKE a
    <2>2. HAVE At(s, q, k, o, a)
    <2>3. Tree(a.cache.trie, s) /\ Walks(a.cache.trie, q)
      BY <2>2 DEF At, Sound
    <2>4. i \in 1 .. Len(q)
      BY <1>3
    <2> QED BY <1>1, <2>3, <2>4, WalkFacts
  <1>5. n \in DOMAIN r.cache.trie /\ ("kv" \in Kinds => Near(r, n, m))
    BY <1>1, <1>3, <1>4, NearIs
  <1>6. CASE Layers = <<"kv">>
    <2>1. Kinds = {"kv"} /\ Len(Layers) = 1 /\ Layers[1] = "kv"
      BY <1>6, LayersAre
    <2>2. v = PageInLayer(r, n, "kv", m)
      BY <1>2, <2>1 DEF PageInNode, EachLayer
    <2>3. At(s, q, k, o, v) /\ There(v, n, m) /\ Low(v.cache)
      BY <1>3, <1>5, <2>1, <2>2, KVOn
    <2> QED BY <1>1, <1>2, <2>3 DEF On
  <1>7. CASE Layers = <<"rec">>
    <2>1. Kinds = {"rec"} /\ Len(Layers) = 1 /\ Layers[1] = "rec" /\ "kv" \notin Kinds /\ "rec" \in Kinds
      BY <1>7, LayersAre
    <2>2. v = PageInLayer(r, n, "rec", m)
      BY <1>2, <2>1 DEF PageInNode, EachLayer
    <2>3. At(s, q, k, o, v)
      BY <1>3, <1>4, <2>1, <2>2, RecStep DEF RecMoved
    <2> QED BY <1>1, <1>2, <2>1, <2>3 DEF On, Low
  <1>8. CASE Layers = <<"kv", "rec">>
    <2>1. Len(Layers) # 1 /\ Layers[1] = "kv" /\ Layers[2] = "rec" /\ "kv" \in Kinds /\ "rec" \in Kinds
      BY <1>8, LayersAre
    <2>2. PICK a : a = PageInLayer(r, n, "kv", m)
      OBVIOUS
    <2>3. v = PageInLayer(a, n, "rec", m)
      BY <1>2, <2>1, <2>2 DEF PageInNode, EachLayer
    <2>4. At(s, q, k, o, a) /\ There(a, n, m) /\ Low(a.cache)
      <3>1. Near(r, n, m) /\ At(s, q, k, o, r) /\ n \in DOMAIN r.cache.trie /\ Low(r.cache)
        BY <1>3, <1>5, <2>1
      <3> QED BY <2>2, <3>1, KVOn
    <2>5. PICK x, target : x = a.cache.trie[n] /\ target = Target(a.cache.trie, n, m)
      OBVIOUS
    <2>6. /\ At(s, q, k, o, v) /\ v.cache.kv = a.cache.kv /\ v.cache.trie = a.cache.trie /\ (v.ok => a.ok)
          /\ \/ v.cache.rec = a.cache.rec
             \/ a.ok /\ v.ok /\ x.rec # None /\ Len(v.cache.rec) = target
      <3>1. RecMoved(s, q, k, o, m, n, a, v)
        BY <1>4, <2>1, <2>3, <2>4, RecStep
      <3> QED BY <2>5, <3>1 DEF RecMoved
    <2>7. There(v, n, m)
      BY <2>4, <2>6 DEF There
    <2>8. Low(v.cache)
      <3>1. CASE v.cache.rec = a.cache.rec
        BY <2>4, <2>6, <3>1 DEF Low
      <3>2. CASE a.ok /\ v.ok /\ x.rec # None /\ Len(v.cache.rec) = target
        <4>1. x.kv # None
          BY <1>1, <2>1, <2>4, <2>5, <3>2, KVToo
        <4>2. target <= a.cache.kv.off
          BY <2>4, <2>5, <3>2, <4>1 DEF There
        <4> QED BY <2>6, <3>2, <4>2 DEF Low
      <3> QED BY <2>6, <3>1, <3>2
    <2> QED BY <1>1, <1>2, <2>6, <2>7, <2>8 DEF On
  <1>9. CASE Layers = <<"rec", "kv">>
    <2>1. Len(Layers) # 1 /\ Layers[1] = "rec" /\ Layers[2] = "kv" /\ "kv" \in Kinds /\ "rec" \in Kinds
      BY <1>9, LayersAre
    <2>2. PICK a : a = PageInLayer(r, n, "rec", m)
      OBVIOUS
    <2>3. v = PageInLayer(a, n, "kv", m)
      BY <1>2, <2>1, <2>2 DEF PageInNode, EachLayer
    <2>4. PICK x, target : x = r.cache.trie[n] /\ target = Target(r.cache.trie, n, m)
      OBVIOUS
    <2>5. /\ At(s, q, k, o, a) /\ a.cache.kv = r.cache.kv /\ a.cache.trie = r.cache.trie /\ (a.ok => r.ok)
          /\ \/ a.cache.rec = r.cache.rec
             \/ r.ok /\ a.ok /\ x.rec # None /\ Len(a.cache.rec) = target
      <3>1. RecMoved(s, q, k, o, m, n, r, a)
        BY <1>3, <1>4, <2>1, <2>2, RecStep
      <3> QED BY <2>4, <3>1 DEF RecMoved
    <2>6. Near(a, n, m)
      BY <1>5, <2>1, <2>5 DEF Near
    <2>7. At(s, q, k, o, v) /\ There(v, n, m) /\ v.ok = a.ok /\ v.cache.rec = a.cache.rec
          /\ (Low(a.cache) => Low(v.cache))
      BY <1>4, <2>3, <2>5, <2>6, KVOn
    <2>8. Low(v.cache)
      <3>1. CASE a.cache.rec = r.cache.rec
        <4>1. Low(a.cache)
          BY <1>3, <2>5, <3>1 DEF Low
        <4> QED BY <2>7, <4>1
      <3>2. CASE r.ok /\ a.ok /\ x.rec # None /\ Len(a.cache.rec) = target
        <4>1. x.kv # None
          BY <1>1, <1>3, <2>1, <2>4, <3>2, KVToo
        <4>2. Near(a, n, m) /\ a.cache.trie[n] = x /\ Target(a.cache.trie, n, m) = target
          BY <2>4, <2>5, <2>6
        <4>3. /\ v.cache.trie[n].kv # None /\ Target(v.cache.trie, n, m) = target
          <5>1. r.cache.kv.off = a.cache.kv.off
            BY <2>5
          <5>2. Retained(a.cache.trie, v.cache.trie)
            <6>1. KVMoved(s, q, k, o, m, n, a, v)
              BY <1>4, <2>3, <2>5, <2>6, KVStep
            <6> QED BY <6>1 DEF KVMoved
          <5>3. v.cache.trie[n].end = x.end /\ v.cache.trie[n].kv # None
            BY <1>4, <2>5, <4>1, <4>2, <5>2 DEF Retained, SameNodes, CopyMade
          <5> QED BY <2>4, <5>3 DEF Target
        <4>4. target <= v.cache.kv.off
          BY <2>7, <3>2, <4>3 DEF There
        <4> QED BY <2>7, <3>2, <4>4 DEF Low
      <3> QED BY <2>5, <3>1, <3>2
    <2> QED BY <1>1, <1>2, <2>7, <2>8 DEF On
  <1> QED BY <1>6, <1>7, <1>8, <1>9, PrefixCacheAssumption

\* and of one that they already reach beyond: nothing.
LEMMA AboveStep ==
  ASSUME NEW s, NEW q, NEW k \in Nat, NEW o \in Nat, NEW m \in Nat, NEW r, NEW i \in 1 .. k,
         k \in 1 .. Len(q), Len(s[q[k]]) = o, On(s, q, k, o, m, i - 1, r)
  PROVE  On(s, q, k, o, m, i, PageInNode(r, q[i], m))
  <1>1. PICK n, c : n = q[i] /\ c = r.cache
    OBVIOUS
  <1>2. Tree(c.trie, s) /\ Walks(c.trie, q) /\ Sound(c, s) /\ At(s, q, k, o, r) /\ Low(c)
    BY <1>1 DEF On, At, Sound
  <1>3. Len(q) \in Nat /\ \A j \in 1 .. Len(q) : q[j] \in DOMAIN c.trie
    BY <1>2, WalkFacts
  <1>4. i \in 1 .. Len(q) /\ i \notin k + 1 .. Len(q)
    BY <1>3
  <1>5. n \in DOMAIN c.trie /\ c.trie[n].end <= o /\ c.trie[n].end \in Nat
    <2>1. c.trie[q[i]].end <= c.trie[q[k]].end
      BY <1>2, WalkAgrees
    <2>2. q[k] \in DOMAIN c.trie /\ n \in DOMAIN c.trie
      BY <1>1, <1>3, <1>4
    <2> QED BY <1>1, <1>2, <2>1, <2>2, TreeFacts
  <1>6. Target(c.trie, n, m) \in Nat /\ Target(c.trie, n, m) <= o
    <2>1. Target(c.trie, n, m) \in Nat /\ Target(c.trie, n, m) <= c.trie[n].end
      BY <1>2, <1>5, TargetIs
    <2> QED BY <1>5, <2>1
  <1>7. ASSUME NEW l \in Kinds PROVE PageInLayer(r, n, l, m) = r
    <2>1. Offset(c, l) \in Nat /\ o <= Offset(c, l)
      <3>1. Offset(c, l) \in Nat /\ Offset(c, l) = IF l = "kv" THEN c.kv.off ELSE Len(c.rec)
        BY <1>2, OffsetType
      <3>2. l \in {"kv", "rec"}
        BY LayersAre
      <3>3. /\ "kv" \in Kinds => o <= c.kv.off
            /\ "rec" \in Kinds => o <= Len(c.rec)
        BY <1>1, <1>2 DEF At
      <3> QED BY <3>1, <3>2, <3>3
    <2>2. Offset(c, l) >= Target(c.trie, n, m)
      BY <1>6, <2>1
    <2> QED BY <1>1, <2>2 DEF PageInLayer, Target
  <1>8. PageInNode(r, n, m) = r
    BY <1>7, LayersAre DEF PageInNode, EachLayer
  <1> QED BY <1>1, <1>2, <1>4, <1>8 DEF On

\* Page-in along q throws nothing of the first o tokens away.
LEMMA PageInKeeps ==
  ASSUME NEW c, NEW s, NEW M \in Words, Switched(c, s, M, c), NEW q, Leading(c.trie, s, M, q),
         NEW k \in Nat, NEW o \in Nat, NEW m, m = Len(M), k \in 1 .. Len(q), Len(s[q[k]]) = o,
         On(s, q, k, o, m, 0, Done(c))
  PROVE  \E r : On(s, q, k, o, m, Len(q), r) /\ PageIn(c, q, m) = r.cache
  <1>1. PICK along : Turns(along, c, q, m)
    BY PageInTurns
  <1>2. PICK N \in Nat : N = Len(q)
    <2>1. Walks(c.trie, q) /\ Tree(c.trie, s)
      BY DEF Leading, Switched, Sound
    <2> QED BY <2>1, WalkFacts
  <1>3. m \in Nat
    BY LenProperties DEF Words
  <1>4. PICK R : R = {along[i] : i \in 0 .. N}
    OBVIOUS
  <1>5. PICK S : S = [i \in 0 .. N |-> {r \in R : On(s, q, k, o, m, i, r)}]
    OBVIOUS
  <1>6. \A i \in 0 .. N : \A r : r \in S[i] <=> r \in R /\ On(s, q, k, o, m, i, r)
    BY <1>5
  <1>7. along[0] \in S[0]
    <2>1. 0 \in 0 .. N /\ along[0] = Done(c)
      BY <1>1, <1>2 DEF Turns
    <2> QED BY <1>4, <1>6, <2>1
  <1>8. ASSUME NEW i \in 1 .. N, along[i - 1] \in S[i - 1] PROVE along[i] \in S[i]
    <2>1. i - 1 \in 0 .. N /\ i \in 0 .. N
      BY <1>2
    <2>2. PICK r : r = along[i - 1]
      OBVIOUS
    <2>3. On(s, q, k, o, m, i - 1, r)
      BY <1>6, <1>8, <2>1, <2>2
    <2>4. along[i] = PageInNode(r, q[i], m)
      BY <1>1, <1>2, <2>2 DEF Turns
    <2>5. On(s, q, k, o, m, i, along[i])
      <3>1. i \in 1 .. k \/ i \in k + 1 .. Len(q)
        BY <1>2
      <3> QED BY <1>3, <2>3, <2>4, <3>1, AboveStep, BelowStep
    <2>6. along[i] \in R
      BY <1>4, <2>1
    <2> QED BY <1>6, <2>1, <2>5, <2>6
  <1>9. along[N] \in S[N]
    <2>1. \A i \in 0 .. N : along[i] \in S[i]
      BY <1>2, <1>7, <1>8, Iterated
    <2> QED BY <1>2, <2>1
  <1>10. On(s, q, k, o, m, N, along[N])
    BY <1>2, <1>6, <1>9
  <1> QED BY <1>1, <1>2, <1>10 DEF Turns

\* No offset is less than the least.
LEMMA LeastOffset ==
  ASSUME NEW c, NEW s, Sound(c, s), NEW o, "kv" \in Kinds => o <= c.kv.off, "rec" \in Kinds => o <= Len(c.rec)
  PROVE  o <= MinOffset(c)
  <1>1. PICK l \in Kinds : Offset(c, l) = MinOffset(c)
    BY OffsetType
  <1>2. Offset(c, l) = IF l = "kv" THEN c.kv.off ELSE Len(c.rec)
    BY OffsetType
  <1>3. l \in {"kv", "rec"}
    BY LayersAre
  <1> QED BY <1>1, <1>2, <1>3

\* A state of align that has freed nothing.
Even(f, s, off, r) ==
    /\ r.ok = TRUE /\ Sound(r.cache, s) /\ r.cache.rec = f.rec
    /\ "kv" \in Kinds => off <= r.cache.kv.off

\* The KV cache can be brought to any offset before its own.
LEMMA AlignLayerKeeps ==
  ASSUME NEW f, NEW s, NEW off \in Nat, "rec" \in Kinds => Len(f.rec) = off,
         NEW r, Even(f, s, off, r), NEW l \in Kinds
  PROVE  Even(f, s, off, AlignLayer(r, l, off))
  <1>1. PICK d : d = r.cache
    OBVIOUS
  <1>2. r.ok = TRUE /\ Sound(d, s) /\ d.rec = f.rec /\ ("kv" \in Kinds => off <= d.kv.off)
    BY <1>1 DEF Even
  <1>3. CASE Offset(d, l) = off
    BY <1>1, <1>3 DEF AlignLayer
  <1>4. CASE Offset(d, l) # off
    <2>1. l = "kv" /\ "kv" \in Kinds
      <3>1. l \in {"kv", "rec"}
        BY LayersAre
      <3>2. l # "rec"
        BY <1>2, <1>4 DEF Offset
      <3> QED BY <3>1, <3>2
    <2>2. off <= d.kv.off /\ d.kv.off \in Nat /\ d.kv.off <= Len(d.kv.buf) /\ Len(d.kv.buf) \in Nat
      <3>1. d.kv.off \in Nat /\ d.kv.off <= Len(d.kv.buf) /\ d.kv.buf \in Seq(Words)
        BY <1>2 DEF Sound, Caches, KVs
      <3> QED BY <1>2, <2>1, <3>1, LenProperties
    <2>3. PICK e : e = RewoundTo(d, off)
      OBVIOUS
    <2>4. Restore(d, l, None, off) = Done(e)
      <3>1. ~(off > d.kv.off)
        BY <2>2
      <3> QED BY <2>1, <2>3, <3>1 DEF Restore, RestoreKV
    <2>5. Sound(e, s) /\ e.rec = d.rec /\ e.kv.off = off
      <3>1. off <= Len(d.kv.buf)
        BY <2>2
      <3>2. Sound(e, s) /\ e.rec = d.rec /\ e.kv = [buf |-> d.kv.buf, off |-> off, rewound |-> TRUE]
        BY <1>2, <2>3, <3>1, RewoundSound
      <3> QED BY <3>2
    <2>6. AlignLayer(r, l, off) = Done(e)
      <3>1. Done(e).ok = TRUE
        BY ResultIs
      <3> QED BY <1>1, <1>2, <1>4, <2>4, <3>1, Zenon DEF AlignLayer
    <2>7. AlignLayer(r, l, off).ok = TRUE /\ AlignLayer(r, l, off).cache = e /\ off <= off
      BY <2>6, ResultIs
    <2> QED BY <1>2, <2>5, <2>7 DEF Even
  <1> QED BY <1>3, <1>4

\* Bringing the caches to one offset keeps what all of them have.
LEMMA SettleKeeps ==
  ASSUME NEW f, NEW s, Sound(f, s), Low(f), NEW o \in Nat, "kv" \in Kinds => o <= f.kv.off,
         "rec" \in Kinds => o <= Len(f.rec), NEW q
  PROVE  o <= MinOffset(Settle(f, q))
  <1>1. PICK off \in Nat : off = MinOffset(f)
    BY OffsetType
  <1>2. o <= off
    BY <1>1, LeastOffset
  <1>3. /\ "kv" \in Kinds => off <= f.kv.off
        /\ "rec" \in Kinds => Len(f.rec) = off
    <2>1. /\ f.kv.off \in Nat /\ Len(f.rec) \in Nat
          /\ \A l \in Kinds : /\ off <= Offset(f, l)
                              /\ Offset(f, l) = IF l = "kv" THEN f.kv.off ELSE Len(f.rec)
          /\ \E l \in Kinds : Offset(f, l) = off
      BY <1>1, OffsetType
    <2>2. \A l \in Kinds : l \in {"kv", "rec"}
      BY LayersAre
    <2>3. /\ "kv" \in Kinds => off <= f.kv.off
          /\ "rec" \in Kinds => off <= Len(f.rec)
      BY <2>1
    <2>4. ASSUME "rec" \in Kinds PROVE Len(f.rec) = off
      <3>1. PICK l \in Kinds : Offset(f, l) = off
        BY <2>1
      <3>2. CASE l = "kv"
        BY <2>1, <2>3, <2>4, <3>1, <3>2 DEF Low
      <3>3. CASE l # "kv"
        BY <2>1, <3>1, <3>3
      <3> QED BY <3>2, <3>3
    <2> QED BY <2>3, <2>4
  <1>4. PICK z : z = Done(f)
    OBVIOUS
  <1>5. Even(f, s, off, z)
    BY <1>3, <1>4, ResultIs DEF Even
  <1>6. PICK a, b : a = AlignLayer(z, Layers[1], off) /\ b = AlignLayer(a, Layers[2], off)
    OBVIOUS
  <1>7. Even(f, s, off, a)
    BY <1>3, <1>5, <1>6, LayersAre, AlignLayerKeeps
  <1>8. Len(Layers) # 1 => Even(f, s, off, b)
    BY <1>3, <1>6, <1>7, LayersAre, AlignLayerKeeps
  <1>9. PICK r : Even(f, s, off, r) /\ Align(f, off) = r.cache
    <2>1. Align(f, off) = IF Len(Layers) = 1 THEN a.cache ELSE b.cache
      BY <1>4, <1>6 DEF Align, EachLayer
    <2> QED BY <1>7, <1>8, <2>1
  <1>10. PICK d : d = r.cache
    OBVIOUS
  <1>11. /\ Sound(d, s) /\ d.rec = f.rec
         /\ "kv" \in Kinds => off <= d.kv.off
    BY <1>9, <1>10 DEF Even
  <1>12. off <= MinOffset(d)
    BY <1>1, <1>3, <1>11, LeastOffset
  <1>13. PICK g : g = Settle(f, q)
    OBVIOUS
  <1>14. g.kv = d.kv /\ g.rec = d.rec
    BY <1>1, <1>9, <1>10, <1>11, <1>13 DEF Settle, Sound, Caches
  <1>15. MinOffset(g) = MinOffset(d) /\ MinOffset(d) \in Nat
    BY <1>11, <1>14, SameOffsets, OffsetType
  <1> QED BY <1>1, <1>2, <1>12, <1>13, <1>15

\* Rewind to where the caches are changes nothing that they hold.
Still(c, d) == d.trie = c.trie /\ d.rec = c.rec /\ d.kv.off = c.kv.off

\* Going back to where the caches are changes none of them.
LEMMA RewindStill ==
  ASSUME NEW c, NEW s, Sound(c, s), NEW o \in Nat, AllAt(c, o)
  PROVE  Still(c, Rewind(c, o))
  <1>1. ASSUME NEW d, Sound(d, s), Still(c, d), NEW l \in Kinds
        PROVE  LET e == RewindLayer(d, l, o) IN Sound(e, s) /\ Still(c, e)
    <2>1. Offset(d, l) = o
      BY <1>1 DEF AllAt, Offset, Still
    <2>2. PICK e : e = RewindLayer(d, l, o)
      OBVIOUS
    <2>3. CASE l = "kv"
      <3>1. d.kv.off = o
        BY <2>1, <2>3 DEF Offset
      <3>2. PICK b : b = RewoundTo(d, o)
        OBVIOUS
      <3>3. Restore(d, l, None, o) = Done(b)
        <4>1. ~(o > d.kv.off)
          BY <3>1
        <4> QED BY <2>3, <3>2, <4>1 DEF Restore, RestoreKV
      <3>4. e = b
        BY <2>2, <3>3, ResultIs DEF RewindLayer
      <3>5. Sound(b, s) /\ b.trie = d.trie /\ b.rec = d.rec /\ b.kv.off = o
        <4>1. o <= Len(d.kv.buf)
          BY <1>1, <3>1 DEF Sound
        <4>2. /\ Sound(b, s) /\ b.trie = d.trie /\ b.rec = d.rec
              /\ b.kv = [buf |-> d.kv.buf, off |-> o, rewound |-> TRUE]
          BY <1>1, <3>2, <4>1, RewoundSound
        <4> QED BY <4>2
      <3> QED BY <1>1, <2>2, <3>1, <3>4, <3>5 DEF Still
    <2>4. CASE l # "kv"
      <3>1. o = Len(d.rec)
        BY <2>1, <2>4 DEF Offset
      <3>2. Restore(d, l, None, o) = Done(d)
        BY <2>4, <3>1 DEF Restore, RestoreRec
      <3>3. e = d
        BY <2>2, <3>2, ResultIs DEF RewindLayer
      <3> QED BY <1>1, <2>2, <3>3
    <2> QED BY <2>3, <2>4
  <1>2. PICK a, b : a = RewindLayer(c, Layers[1], o) /\ b = RewindLayer(a, Layers[2], o)
    OBVIOUS
  <1>3. Sound(a, s) /\ Still(c, a)
    <2>1. Still(c, c)
      BY DEF Still
    <2> QED BY <1>1, <1>2, <2>1, LayersAre
  <1>4. Len(Layers) # 1 => Still(c, b)
    BY <1>1, <1>2, <1>3, LayersAre
  <1>5. Rewind(c, o) = IF Len(Layers) = 1 THEN a ELSE b
    BY <1>2 DEF Rewind, EachLayer
  <1> QED BY <1>3, <1>4, <1>5

\* switchToPath along a path that goes on from the active one, which ends where the caches
\* do, keeps what they hold.
LEMMA SwitchKeeps ==
  ASSUME NEW c, NEW s, Sound(c, s), Level(c), NEW o \in Nat, AllAt(c, o), NEW M \in Words, NEW q,
         Leading(c.trie, s, M, q), Agree(s[Last(c.path)], c.rec, Len(c.rec)),
         NEW k, k = Len(c.path), Common(c.path, q) = k, k <= Len(q),
         c.trie[Last(c.path)].end = o, o <= Len(M), Ready(c.trie, q, k)
  PROVE  o <= MinOffset(SwitchToPath(c, q, Len(M)))
  <1>1. Tree(c.trie, s) /\ Walks(c.trie, c.path) /\ c.path[1] = Root /\ Walks(c.trie, q) /\ q[1] = Root
    BY DEF Sound, Leading
  <1>2. PICK n : n = Last(c.path)
    OBVIOUS
  <1>3. k \in Nat /\ k >= 1 /\ n = c.path[k] /\ n \in DOMAIN c.trie /\ c.trie[n].end = o
    BY <1>1, <1>2, WalkFacts
  <1>4. Shared(c.path, q) = k
    <2>1. PICK D : D = DOMAIN c.trie
      OBVIOUS
    <2>2. c.path \in Seq(D) /\ q \in Seq(D) /\ c.path # <<>> /\ q # <<>> /\ c.path[1] = q[1]
      BY <1>1, <2>1 DEF Walks
    <2> QED BY <2>2, SharedIsCommon
  <1>5. k \in 1 .. Len(q) /\ q[k] = n
    BY <1>1, <1>3, <1>4, CommonNode
  <1>6. s[n] \in Words /\ Len(s[n]) = o /\ Len(M) \in Nat
    BY <1>1, <1>3, TreeFacts, LenProperties DEF Words
  <1>7. RewindTarget(c.trie[n].end, Len(M)) = o
    BY <1>3, <1>6, MinTwo DEF RewindTarget
  <1>8. PageOut(c, k, Len(M)) = c
    <2>1. ~(Len(c.path) > k \/ Len(M) < c.trie[n].end)
      BY <1>3, <1>6
    <2> QED BY <1>2, <2>1, Zenon DEF PageOut
  <1>9. PICK e : e = Rewind(c, o)
    OBVIOUS
  <1>10. Still(c, e)
    BY <1>9, RewindStill
  <1>11. Switched(c, s, M, e)
    <2>1. ASSUME Len(c.rec) = o PROVE Agree(M, c.rec, o)
      <3>1. Agree(s[n], c.rec, o)
        BY <1>2, <2>1
      <3>2. Agree(s[n], M, o)
        <4>1. Agree(s[q[k]], M, Min({c.trie[q[k]].end, Len(M)}))
          BY <1>1, <1>5, LeadingFacts
        <4> QED BY <1>3, <1>5, <1>7, <4>1 DEF RewindTarget
      <3>3. o <= o
        OBVIOUS
      <3>4. Agree(M, s[n], o)
        BY <1>6, <3>2, <3>3, AgreeLess DEF Words
      <3> QED BY <3>1, <3>3, <3>4, AgreeTwice
    <2> QED BY <1>9, <2>1, RewindIs
  <1>12. e.trie = c.trie /\ e.rec = c.rec /\ e.kv.off = c.kv.off
    BY <1>10 DEF Still
  <1>13. Sound(e, s) /\ Level(e) /\ Switched(e, s, M, e) /\ Leading(e.trie, s, M, q)
    BY <1>11, <1>12, KeptSelf DEF Switched
  <1>14. /\ "kv" \in Kinds => e.kv.off = o
         /\ "rec" \in Kinds => Len(e.rec) = o
    BY <1>12 DEF AllAt, Offset
  <1>15. Low(e)
    <2>1. CASE "rec" \in Kinds
      BY <1>14, <2>1 DEF Low
    <2>2. CASE "rec" \notin Kinds
      <3>1. Len(e.rec) = 0
        BY <1>13, <2>2, EmptySeq DEF Level
      <3> QED BY <1>14, <3>1 DEF Low
    <2> QED BY <2>1, <2>2
  <1>16. On(s, q, k, o, Len(M), 0, Done(e))
    <2>1. PICK r : r = Done(e)
      OBVIOUS
    <2>2. r.ok = TRUE /\ r.cache = e
      BY <2>1, ResultIs
    <2>3. o <= o
      OBVIOUS
    <2>4. At(s, q, k, o, r)
      BY <1>1, <1>12, <1>13, <1>14, <2>2, <2>3 DEF At
    <2>5. 0 \notin k + 1 .. Len(q)
      BY <1>3
    <2> QED BY <1>15, <2>1, <2>2, <2>4, <2>5 DEF On
  <1>17. PICK r : On(s, q, k, o, Len(M), Len(q), r) /\ PageIn(e, q, Len(M)) = r.cache
    <2>1. Len(s[q[k]]) = o
      BY <1>5, <1>6
    <2> QED BY <1>3, <1>5, <1>13, <1>16, <2>1, PageInKeeps
  <1>18. PICK f : f = r.cache
    OBVIOUS
  <1>19. /\ Sound(f, s) /\ Low(f)
         /\ "kv" \in Kinds => o <= f.kv.off
         /\ "rec" \in Kinds => o <= Len(f.rec)
    BY <1>17, <1>18 DEF On, At
  <1>20. o <= MinOffset(Settle(f, q))
    BY <1>19, SettleKeeps
  <1>21. SwitchToPath(c, q, Len(M)) = Settle(f, q)
    <2>1. SwitchToPath(c, q, Len(M)) =
            Settle(PageIn(Rewind(PageOut(c, k, Len(M)), RewindTarget(c.trie[c.path[k]].end, Len(M))), q, Len(M)), q)
      BY <1>4, Zenon DEF SwitchToPath, Shared
    <2> QED BY <1>3, <1>7, <1>8, <1>9, <1>17, <1>18, <2>1
  <1> QED BY <1>20, <1>21

\* A path that goes on from the active one is ready for page-in.
LEMMA ReadyFirst ==
  ASSUME NEW s, Sound(cache, s), EdgeRanges, Filled, Backed, NEW q, Walks(cache.trie, q),
         NEW k, k = Len(cache.path), Common(cache.path, q) = k
  PROVE  Ready(cache.trie, q, k)
  <1>1. PICK t, p : t = cache.trie /\ p = cache.path
    OBVIOUS
  <1>2. Tree(t, s) /\ Walks(t, p) /\ Walks(t, q)
    BY <1>1 DEF Sound
  <1>3. /\ Len(p) = k /\ k \in Nat /\ k >= 1 /\ Len(q) \in Nat
        /\ \A i \in 1 .. Len(q) : q[i] \in DOMAIN t
    BY <1>1, <1>2, WalkFacts
  <1>4. k <= Len(q) /\ \A i \in 1 .. k : p[i] = q[i]
    <2>1. PICK D : D = DOMAIN t
      OBVIOUS
    <2>2. p \in Seq(D) /\ q \in Seq(D)
      BY <1>2, <2>1 DEF Walks
    <2>3. k = Common(p, q)
      BY <1>1
    <2>4. k <= Len(q) /\ Agree(p, q, k)
      BY <2>2, <2>3, CommonIs
    <2> QED BY <2>4 DEF Agree
  <1>5. ASSUME NEW i \in k + 1 .. Len(q) PROVE q[i] \in DOMAIN t \ ToSet(p)
    <2>1. i \in 1 .. Len(q)
      BY <1>3
    <2>2. ASSUME q[i] \in ToSet(p) PROVE FALSE
      <3>1. PICK j \in DOMAIN p : p[j] = q[i]
        BY <2>2 DEF ToSet
      <3>2. DOMAIN p = 1 .. k
        BY <1>2, <1>3, LenProperties DEF Walks
      <3>3. j \in 1 .. i /\ j < i /\ q[j] = q[i]
        BY <1>3, <1>4, <3>1, <3>2
      <3>4. t[q[j]].end < t[q[i]].end
        BY <1>2, <2>1, <3>3, WalkAgrees
      <3>5. t[q[i]].end \in Nat
        BY <1>2, <1>3, <2>1, TreeFacts
      <3> QED BY <3>3, <3>4, <3>5
    <2> QED BY <1>3, <2>1, <2>2
  <1>6. \A n \in DOMAIN t : Covers(t[n])
    BY <1>1 DEF EdgeRanges, Filled, Covers
  <1>7. Stacked(t, q, k)
    <2> SUFFICES ASSUME NEW i \in k + 1 .. Len(q), "kv" \in Kinds, HasSnapshots(t[q[i]])
                 PROVE  t[q[i]].kv # None /\ (i = k + 1 \/ t[q[i - 1]].kv # None)
      BY DEF Stacked
    <2>1. i \in 2 .. Len(q) /\ (i # k + 1 => i - 1 \in k + 1 .. Len(q))
      BY <1>3
    <2>2. t[q[i]].parent = q[i - 1]
      BY <1>2, <2>1 DEF Walks
    <2>3. q[i] \in DOMAIN t \ ToSet(p)
      BY <1>5
    <2>4. t[q[i]].kv # None /\ (q[i - 1] \in ToSet(p) \/ t[q[i - 1]].kv # None)
      BY <1>1, <2>2, <2>3 DEF Backed
    <2> QED BY <1>5, <2>1, <2>4
  <1> QED BY <1>1, <1>6, <1>7 DEF Ready

\* The prompt goes on from what the last request left.
GoesOnLive == /\ EdgeRanges /\ Filled /\ Backed /\ cache.trie[Last(cache.path)].end = MinOffset(cache)
              /\ StartsWith(session'.inputs, Live) /\ session'.inputs # Live

\* begin keeps what the live caches hold for such a prompt.
LEMMA BeginKeeps ==
  ASSUME NEW s, Good(cache, session, s), NEW inputs \in Inputs, Begin(inputs),
         session'.phase = "prefill", GoesOnLive
  PROVE  MinOffset(cache') >= MinOffset(cache)
  <1>1. inputs \in Words /\ inputs # <<>>
    <2>1. PICK n \in 1 .. MaxInput : inputs \in [1 .. n -> Tokens]
      BY DEF Inputs
    <2>2. n \in Nat /\ n # 0
      BY PrefixCacheAssumption
    <2>3. inputs \in Seq(Tokens) /\ Len(inputs) = n
      BY <2>1, <2>2, SeqDef, LenProperties
    <2> QED BY <2>2, <2>3, EmptySeq DEF Words
  <1>2. /\ session.phase = "idle"
        /\ LET best == BestMatch(cache.trie, inputs)
           IN Schedule(SwitchToPath(cache, best.path, best.matched), best.matched, inputs)
    BY Zenon DEF Begin, BestMatch
  <1>3. PICK w : w = BestMatch(cache.trie, inputs)
    OBVIOUS
  <1>4. PICK o \in Nat : AllAt(cache, o) /\ MinOffset(cache) = o
    BY ServedAt
  <1>5. /\ Sound(cache, s) /\ Tree(cache.trie, s) /\ Level(cache) /\ Resting(cache, s[Last(cache.path)])
        /\ Walks(cache.trie, cache.path) /\ cache.path[1] = Root
    <2>1. Sound(cache, s) /\ Serving(cache, session, s[Last(cache.path)])
      BY DEF Good
    <2> QED BY <1>2, <2>1 DEF Serving, Sound
  <1>6. Matched(cache.trie, s, inputs, w)
    BY <1>1, <1>3, <1>5, BestMatchIs
  <1>7. PICK m \in Nat : m = w.matched /\ m \in 0 .. Len(inputs)
    <2>1. w.matched \in Nat /\ w.matched <= Len(inputs) - 1
      BY <1>6 DEF Matched
    <2>2. Len(inputs) \in Nat
      BY <1>1, LenProperties DEF Words
    <2> QED BY <2>1, <2>2
  <1>8. PICK M : M = SubSeq(inputs, 1, m)
    OBVIOUS
  <1>9. M \in Words /\ Len(M) = m /\ Agree(M, inputs, m) /\ Agree(inputs, M, m)
    <2>1. M \in Words /\ Len(M) = m /\ Agree(M, inputs, m)
      BY <1>1, <1>7, <1>8, FirstEntries DEF Words
    <2>2. m <= m
      BY <1>7
    <2> QED BY <1>1, <1>7, <2>1, <2>2, AgreeLess DEF Words
  <1>10. Leading(cache.trie, s, M, w.path)
    <2>1. m <= m
      BY <1>7
    <2>2. Agree(s[Last(w.path)], inputs, m)
      BY <1>6, <1>7 DEF Matched
    <2>3. Agree(s[Last(w.path)], M, m)
      BY <1>7, <1>9, <2>1, <2>2, AgreeTwice
    <2> QED BY <1>6, <1>9, <2>3 DEF Leading, Matched
  <1>11. PICK d : d = SwitchToPath(cache, w.path, m)
    OBVIOUS
  <1>12. Schedule(d, m, inputs)
    BY <1>2, <1>3, <1>7, <1>11
  <1>13. session'.inputs = inputs /\ cache'.kv = d.kv /\ cache'.rec = d.rec
    <2>1. Settled(cache, s, M, d)
      <3>1. Agree(s[Last(cache.path)], cache.rec, Len(cache.rec))
        BY <1>5 DEF Resting
      <3> QED BY <1>5, <1>9, <1>10, <1>11, <3>1, SwitchToPathIs
    <2>2. d \in Caches
      BY <2>1 DEF Settled, Sound
    <2>3. ~Panic
      <3>1. ASSUME Panic PROVE session'.phase = "panicked"
        <4>1. session \in Sessions
          BY DEF Good
        <4>2. session' = [session EXCEPT !.phase = "panicked"]
          BY <3>1 DEF Panic
        <4> QED BY <4>1, <4>2 DEF Sessions
      <3> QED BY <3>1
    <2>4. \E rows, base, pending :
             /\ cache' = [d EXCEPT !.rows = rows, !.base = base]
             /\ session' = [phase |-> "prefill", inputs |-> inputs, outputs |-> <<>>, pending |-> pending,
                            sample |-> None]
      BY <1>12, <2>3, Zenon DEF Schedule
    <2>5. PICK rows, base, pending :
             /\ cache' = [d EXCEPT !.rows = rows, !.base = base]
             /\ session' = [phase |-> "prefill", inputs |-> inputs, outputs |-> <<>>, pending |-> pending,
                            sample |-> None]
      BY <2>4
    <2> QED BY <2>2, <2>5 DEF Caches
  <1>14. MinOffset(cache') = MinOffset(d)
    BY <1>13, SameOffsets
  <1>15. PICK x : x = s[Last(cache.path)] /\ x \in Words /\ Len(x) = o /\ cache.trie[Last(cache.path)].end = o
    BY <1>4, ServedAt DEF GoesOnLive
  <1>16. Live = x
    <2>1. Last(cache.path) \in DOMAIN cache.trie
      BY <1>5, WalkFacts
    <2> QED BY <1>2, <1>5, <1>15, <2>1, SpelledIs DEF Live
  <1>17. Agree(inputs, x, o) /\ o < Len(inputs)
    <2>1. Agree(inputs, x, o) /\ inputs # x
      <3>1. StartsWith(inputs, x) /\ inputs # x
        BY <1>13, <1>16 DEF GoesOnLive
      <3> QED BY <1>1, <1>15, <3>1, PrefixIsAgreement DEF Words
    <2>2. Len(inputs) # o
      <3>1. ASSUME Len(inputs) = o PROVE inputs = x
        BY <1>1, <1>15, <2>1, <3>1, SeqEqual DEF Words, Agree
      <3> QED BY <2>1, <3>1
    <2>3. Len(inputs) \in Nat
      BY <1>1, LenProperties DEF Words
    <2> QED BY <2>1, <2>2, <2>3 DEF Agree
  <1>18. PICK p, k : p = cache.path /\ k = Len(p)
    OBVIOUS
  <1>19. Common(p, w.path) = k /\ k <= Len(w.path) /\ o <= m
    BY <1>1, <1>3, <1>5, <1>7, <1>15, <1>17, <1>18, BestMatchPasses
  <1>20. Ready(cache.trie, w.path, k)
    BY <1>5, <1>6, <1>18, <1>19, ReadyFirst DEF GoesOnLive, Matched
  <1>21. o <= MinOffset(d)
    <2>1. Agree(s[Last(cache.path)], cache.rec, Len(cache.rec))
      BY <1>5 DEF Resting
    <2> QED BY <1>4, <1>5, <1>9, <1>10, <1>11, <1>15, <1>18, <1>19, <1>20, <2>1, SwitchKeeps
  <1>22. MinOffset(d) \in Nat
    BY <1>4, <1>5, <1>9, <1>10, <1>11, SwitchToPathIs, OffsetType DEF Resting, Settled
  <1> QED BY <1>4, <1>14, <1>21, <1>22

\* No other step begins a request.
LEMMA StepKeeps ==
  ASSUME IInv, [Next]_vars, session.phase = "idle", session'.phase = "prefill", GoesOnLive
  PROVE  MinOffset(cache') >= MinOffset(cache)
  <1>1. PICK s : Good(cache, session, s)
    BY DEF IInv
  <1>2. ASSUME NEW inputs \in Inputs, Begin(inputs) PROVE MinOffset(cache') >= MinOffset(cache)
    BY <1>1, <1>2, BeginKeeps
  <1>3. ASSUME UNCHANGED session PROVE FALSE
    BY <1>3
  <1>4. ASSUME NEW sample, Seed(sample) \/ Decode(sample) PROVE FALSE
    BY <1>4 DEF Seed, Decode
  <1>5. ~Evict /\ ~Finished /\ vars' # vars
    BY <1>3 DEF Evict, Finished, vars
  <1>6. ~Prefill /\ ~Attach /\ ~Close
    BY DEF Prefill, Attach, Close
  <1> QED BY <1>2, <1>4, <1>5, <1>6 DEF Next

\* Of a prompt that goes on from what the last request left, begin recomputes nothing that
\* the live caches hold: page-in brings them to one offset, no snapshot on the way makes it
\* fail, and none is freed to align them (prefix_cache.go, switchToPath).
THEOREM ContinuationIsKept == Spec => ContinuationKeepsLive
  <1>1. IInv /\ [Next]_vars =>
          [/\ session.phase = "idle" /\ session'.phase = "prefill"
           /\ EdgeRanges /\ Filled /\ Backed /\ cache.trie[Last(cache.path)].end = MinOffset(cache)
           /\ StartsWith(session'.inputs, Live) /\ session'.inputs # Live
           => MinOffset(cache') >= MinOffset(cache)]_vars
    BY StepKeeps, Zenon DEF GoesOnLive
  <1> QED BY <1>1, Invariant, PTL DEF Spec, ContinuationKeepsLive

----------------------------------------------------------------------------
(* The slots of the KV cache stay those of the tokens they stand for.      *)

\* The live slots were computed from the first of these tokens.
LiveOf(kv, M) == kv.off <= Len(M) /\ \A i \in 1 .. kv.off : kv.buf[i] = SubSeq(M, 1, i)

\* Nothing is live in a cache that there is not.
Clear(c) == "kv" \notin Kinds => c.kv.off = 0

\* A cache in which all slots are those of the tokens M, if they were (F) before.
Steady(F, s, M, c) == Sound(c, s) /\ Clear(c) /\ (F => Faithful(c, s) /\ LiveOf(c.kv, M))

\* What is live stands as well for tokens that agree with the first as far as it goes.
LEMMA LiveLess ==
  ASSUME NEW M \in Words, NEW N \in Words, NEW k \in KVs, NEW g \in KVs, LiveOf(k, M), g.off <= k.off,
         \A i \in 1 .. g.off : g.buf[i] = k.buf[i], Agree(N, M, g.off)
  PROVE  LiveOf(g, N)
  <1>1. g.off \in Nat /\ k.off \in Nat
    BY DEF KVs
  <1>2. ASSUME NEW i \in 1 .. g.off PROVE g.buf[i] = SubSeq(N, 1, i)
    <2>1. i \in 0 .. g.off /\ i \in 1 .. k.off
      BY <1>1
    <2>2. SubSeq(N, 1, i) = SubSeq(M, 1, i)
      BY <1>1, <2>1, AgreeFirst DEF Words
    <2> QED BY <2>1, <2>2 DEF LiveOf
  <1> QED BY <1>2 DEF LiveOf, Agree

\* What is not there stands for anything.
LEMMA LiveNone ==
  ASSUME NEW M \in Words, NEW k, k.off = 0
  PROVE  LiveOf(k, M)
  <1>1. Len(M) \in Nat
    BY LenProperties DEF Words
  <1> QED BY <1>1 DEF LiveOf

\* A snapshot holds what it did if the slots that it names are the same.
LEMMA HoldingIn ==
  ASSUME NEW k, NEW buf, NEW out, NEW w, Holding(buf, k, w),
         k # None /\ k.lazy => \A i \in k.from + 1 .. k.to : out[i] = buf[i]
  PROVE  Holding(out, k, w)
  BY DEF Holding, SlotOf

\* No slot from one offset to another is named by a lazy snapshot.
Clears(k, from, to) == k # None /\ k.lazy => k.from >= to \/ k.to <= from

\* Copying out loses nothing, and clears the range.
LEMMA CopiedHolds ==
  ASSUME NEW c \in Caches, NEW k \in KVSnaps, Fits(k, Len(c.kv.buf)), NEW w, Holding(c.kv.buf, k, w),
         NEW from \in Nat, NEW to \in Nat
  PROVE  Holding(c.kv.buf, Copied(c, from, to, k), w)
  <1>1. CASE k # None /\ k.lazy /\ k.from < to /\ k.to > from
    <2>1. PICK b : b = CopyOf(c, k)
      OBVIOUS
    <2>2. Copied(c, from, to, k) = b
      BY <1>1, <2>1 DEF Copied
    <2>3. /\ Len(b.data) = k.to - k.from /\ b.lazy = FALSE /\ b.from = k.from /\ b.to = k.to
          /\ \A i \in 1 .. k.to - k.from : b.data[i] = c.kv.buf[k.from + i]
      BY <1>1, <2>1, CopyType
    <2>4. k.from \in Nat /\ k.to \in Nat
      BY <1>1 DEF KVSnaps
    <2>5. ASSUME NEW i \in k.from + 1 .. k.to PROVE b.data[i - k.from] = c.kv.buf[i]
      <3>1. i - k.from \in 1 .. k.to - k.from /\ k.from + (i - k.from) = i
        BY <2>4
      <3>2. b.data[i - k.from] = c.kv.buf[k.from + (i - k.from)]
        BY <2>3, <3>1
      <3> QED BY <3>1, <3>2
    <2>6. \A i \in k.from + 1 .. k.to : i <= Len(w) /\ c.kv.buf[i] = SubSeq(w, 1, i)
      BY <1>1 DEF Holding, SlotOf
    <2> QED BY <2>2, <2>3, <2>5, <2>6 DEF Holding, SlotOf
  <1>2. CASE ~(k # None /\ k.lazy /\ k.from < to /\ k.to > from)
    BY <1>2 DEF Copied
  <1> QED BY <1>1, <1>2

\* The copy is no longer in the way of the write.
LEMMA CopiedClears ==
  ASSUME NEW c \in Caches, NEW k \in KVSnaps, Fits(k, Len(c.kv.buf)), NEW from \in Nat, NEW to \in Nat
  PROVE  Clears(Copied(c, from, to, k), from, to)
  <1>1. CASE k # None /\ k.lazy /\ k.from < to /\ k.to > from
    <2>1. Copied(c, from, to, k) = CopyOf(c, k) /\ CopyOf(c, k).lazy = FALSE
      BY <1>1, CopyType DEF Copied
    <2> QED BY <2>1 DEF Clears
  <1>2. CASE ~(k # None /\ k.lazy /\ k.from < to /\ k.to > from)
    <2>1. Copied(c, from, to, k) = k
      BY <1>2 DEF Copied
    <2>2. k # None => k.from \in Nat /\ k.to \in Nat
      BY DEF KVSnaps
    <2> QED BY <1>2, <2>1, <2>2 DEF Clears
  <1> QED BY <1>1, <1>2

\* A cache after copyOut.
LEMMA CopyOutFaithful ==
  ASSUME NEW c, NEW s, Sound(c, s), Faithful(c, s), NEW from \in Nat, NEW to \in Nat
  PROVE  LET d == CopyOut(c, from, to)
         IN Faithful(d, s) /\ \A n \in DOMAIN d.trie : Clears(d.trie[n].kv, from, to)
  <1>1. PICK d : d = CopyOut(c, from, to)
    OBVIOUS
  <1>2. CopiedOut(c, from, to, d) /\ Tree(c.trie, s) /\ c \in Caches
    BY <1>1, CopyOutSound DEF Sound
  <1>3. /\ DOMAIN d.trie = DOMAIN c.trie /\ d.kv = c.kv
        /\ \A n \in DOMAIN c.trie : d.trie[n].kv = Copied(c, from, to, c.trie[n].kv)
    BY <1>2 DEF CopiedOut, Apart
  <1>4. ASSUME NEW n \in DOMAIN c.trie
        PROVE  Holding(d.kv.buf, d.trie[n].kv, s[n]) /\ Clears(d.trie[n].kv, from, to)
    <2>1. PICK k, w : k = c.trie[n].kv /\ w = s[n]
      OBVIOUS
    <2>2. k \in KVSnaps /\ Fits(k, Len(c.kv.buf)) /\ Holding(c.kv.buf, k, w)
      BY <1>2, <2>1, NodeBytes DEF Sound, Faithful
    <2>3. Holding(c.kv.buf, Copied(c, from, to, k), w) /\ Clears(Copied(c, from, to, k), from, to)
      BY <1>2, <2>2, CopiedHolds, CopiedClears
    <2> QED BY <1>3, <2>1, <2>3
  <1> QED BY <1>1, <1>3, <1>4 DEF Faithful

\* A write into the buffer loses nothing, if no lazy snapshot names what it writes over.
LEMMA AppendKVFaithful ==
  ASSUME NEW c, NEW s, Sound(c, s), Faithful(c, s), NEW data \in Seq(Words),
         ~c.kv.rewound => \A n \in DOMAIN c.trie : Clears(c.trie[n].kv, c.kv.off, c.kv.off + Len(data))
  PROVE  Faithful(AppendKV(c, data), s)
  <1>1. PICK prev, end : prev = c.kv.off /\ end = prev + Len(data)
    OBVIOUS
  <1>2. /\ prev \in Nat /\ end \in Nat /\ prev <= end /\ Len(c.kv.buf) \in Nat /\ c.kv.rewound \in BOOLEAN
        /\ Len(data) \in Nat /\ prev <= Len(c.kv.buf)
    <2>1. /\ c.kv.off \in Nat /\ c.kv.buf \in Seq(Words) /\ c.kv.rewound \in BOOLEAN
          /\ c.kv.off <= Len(c.kv.buf)
      BY DEF Sound, Caches, KVs
    <2> QED BY <1>1, <2>1, LenProperties
  <1>3. PICK b : b = IF c.kv.rewound THEN CopyOut(c, prev, end) ELSE c
    OBVIOUS
  <1>4. Sound(b, s) /\ Faithful(b, s) /\ b.kv = c.kv /\ \A n \in DOMAIN b.trie : Clears(b.trie[n].kv, prev, end)
    <2>1. CASE c.kv.rewound
      <3>1. b = CopyOut(c, prev, end)
        BY <1>3, <2>1
      <3>2. Sound(b, s) /\ b.kv = c.kv
        <4>1. Sound(b, s) /\ CopiedOut(c, prev, end, b)
          BY <3>1, CopyOutSound
        <4> QED BY <4>1 DEF CopiedOut, Apart
      <3>3. Faithful(b, s) /\ \A n \in DOMAIN b.trie : Clears(b.trie[n].kv, prev, end)
        BY <1>2, <3>1, CopyOutFaithful
      <3> QED BY <3>2, <3>3
    <2>2. CASE ~c.kv.rewound
      BY <1>1, <1>3, <2>2
    <2> QED BY <2>1, <2>2
  <1>5. PICK d : d = AppendKV(c, data)
    OBVIOUS
  <1>6. d.trie = b.trie
    <2>1. \E kv : d = SetKV(b, kv)
      BY <1>1, <1>3, <1>5 DEF AppendKV, SetKV
    <2> QED BY <1>4, <2>1 DEF SetKV, Sound, Caches
  <1>7. Written(c.kv.buf, prev, data, d.kv.buf)
    BY <1>1, <1>5, AppendKVSound DEF Appended
  <1>8. /\ \A i \in 1 .. prev : d.kv.buf[i] = c.kv.buf[i]
        /\ \A i \in end + 1 .. Len(c.kv.buf) : d.kv.buf[i] = c.kv.buf[i]
    BY <1>1, <1>7 DEF Written
  <1>9. ASSUME NEW n \in DOMAIN b.trie PROVE Holding(d.kv.buf, b.trie[n].kv, s[n])
    <2>1. PICK k : k = b.trie[n].kv
      OBVIOUS
    <2>2. k \in KVSnaps /\ Fits(k, Len(c.kv.buf)) /\ Clears(k, prev, end) /\ Holding(c.kv.buf, k, s[n])
      <3>1. Tree(b.trie, s)
        BY <1>4 DEF Sound
      <3> QED BY <1>4, <2>1, <3>1, NodeBytes DEF Sound, Faithful
    <2>3. ASSUME k # None, k.lazy, NEW i \in k.from + 1 .. k.to PROVE d.kv.buf[i] = c.kv.buf[i]
      <3>1. k.from \in Nat /\ k.to \in Nat /\ k.to <= Len(c.kv.buf)
        BY <2>2, <2>3 DEF KVSnaps, Fits
      <3>2. i \in Nat /\ i >= 1 /\ k.from < i /\ i <= k.to /\ i <= Len(c.kv.buf)
        BY <1>2, <3>1
      <3>3. CASE k.from >= end
        <4>1. i \in end + 1 .. Len(c.kv.buf)
          BY <1>2, <3>1, <3>2, <3>3
        <4> QED BY <1>8, <4>1
      <3>4. CASE k.to <= prev
        <4>1. i \in 1 .. prev
          BY <1>2, <3>1, <3>2, <3>4
        <4> QED BY <1>8, <4>1
      <3> QED BY <2>2, <2>3, <3>3, <3>4 DEF Clears
    <2> QED BY <2>1, <2>2, <2>3, HoldingIn
  <1> QED BY <1>5, <1>6, <1>9 DEF Faithful

\* Going back loses nothing that stands for tokens that agree with the first up to there.
LEMMA RewoundSteady ==
  ASSUME NEW F, NEW s, NEW M \in Words, NEW c, Steady(F, s, M, c), NEW target \in Nat, target <= c.kv.off,
         NEW N \in Words, F => Agree(N, M, target)
  PROVE  Steady(F, s, M, RewoundTo(c, target)) /\ Steady(F, s, N, RewoundTo(c, target))
  <1>1. /\ Sound(c, s) /\ c.kv \in KVs /\ c.kv.off \in Nat /\ c.kv.off <= Len(c.kv.buf)
        /\ c.kv.buf \in Seq(Words) /\ Len(c.kv.buf) \in Nat
    <2>1. Sound(c, s) /\ c.kv \in KVs /\ c.kv.off \in Nat /\ c.kv.off <= Len(c.kv.buf) /\ c.kv.buf \in Seq(Words)
      BY DEF Steady, Sound, Caches, KVs
    <2> QED BY <2>1, LenProperties
  <1>2. PICK d : d = RewoundTo(c, target)
    OBVIOUS
  <1>3. /\ Sound(d, s) /\ d.trie = c.trie /\ d.kv = [buf |-> c.kv.buf, off |-> target, rewound |-> TRUE]
    <2>1. target <= Len(c.kv.buf)
      BY <1>1
    <2> QED BY <1>1, <1>2, <2>1, RewoundSound
  <1>4. d.kv \in KVs /\ d.kv.off = target /\ d.kv.buf = c.kv.buf
    BY <1>1, <1>3 DEF KVs
  <1>5. Clear(d)
    BY <1>1, <1>4 DEF Steady, Clear
  <1>6. ASSUME F PROVE Faithful(d, s) /\ LiveOf(d.kv, M) /\ LiveOf(d.kv, N)
    <2>1. Faithful(c, s) /\ LiveOf(c.kv, M)
      BY <1>6 DEF Steady
    <2>2. Faithful(d, s)
      BY <1>3, <1>4, <2>1 DEF Faithful
    <2>3. Agree(M, M, target)
      <3>1. c.kv.off <= Len(M) /\ Len(M) \in Nat
        BY <2>1, LenProperties DEF LiveOf, Words
      <3>2. target <= Len(M)
        BY <1>1, <3>1
      <3> QED BY <3>2 DEF Agree
    <2>4. \A i \in 1 .. d.kv.off : d.kv.buf[i] = c.kv.buf[i]
      BY <1>4
    <2>5. Agree(N, M, target)
      BY <1>6
    <2> QED BY <1>1, <1>4, <2>1, <2>2, <2>3, <2>4, <2>5, LiveLess
  <1> QED BY <1>2, <1>3, <1>5, <1>6 DEF Steady

\* Whatever is lazy is copied out before the buffer goes.
LEMMA FreeKVSteady ==
  ASSUME NEW F, NEW s, NEW M \in Words, NEW c, Steady(F, s, M, c), NEW N \in Words
  PROVE  Steady(F, s, M, FreeKV(c)) /\ Steady(F, s, N, FreeKV(c))
  <1>1. c.kv.buf \in Seq(Words) /\ Len(c.kv.buf) \in Nat /\ Sound(c, s)
    <2>1. c.kv.buf \in Seq(Words) /\ Sound(c, s)
      BY DEF Steady, Sound, Caches, KVs
    <2> QED BY <2>1, LenProperties
  <1>2. PICK b, d : b = CopyOut(c, 0, Len(c.kv.buf)) /\ d = FreeKV(c)
    OBVIOUS
  <1>3. Sound(b, s) /\ b.kv = c.kv
    <2>1. Sound(b, s) /\ CopiedOut(c, 0, Len(c.kv.buf), b)
      BY <1>1, <1>2, CopyOutSound
    <2> QED BY <2>1 DEF CopiedOut, Apart
  <1>4. Sound(d, s) /\ d.kv.off = 0
    BY <1>1, <1>2, FreeKVIs
  <1>5. d.trie = b.trie
    <2>1. \E kv : d = SetKV(b, kv)
      BY <1>2 DEF FreeKV, SetKV
    <2> QED BY <1>3, <2>1 DEF SetKV, Sound, Caches
  <1>6. ASSUME F PROVE Faithful(d, s)
    <2>1. Faithful(c, s)
      BY <1>6 DEF Steady
    <2>2. Faithful(b, s) /\ \A n \in DOMAIN b.trie : Clears(b.trie[n].kv, 0, Len(c.kv.buf))
      BY <1>1, <1>2, <2>1, CopyOutFaithful
    <2>3. ASSUME NEW n \in DOMAIN b.trie PROVE Holding(d.kv.buf, b.trie[n].kv, s[n])
      <3>1. PICK k : k = b.trie[n].kv
        OBVIOUS
      <3>2. k \in KVSnaps /\ Fits(k, Len(c.kv.buf)) /\ Clears(k, 0, Len(c.kv.buf)) /\ Holding(c.kv.buf, k, s[n])
        <4>1. Tree(b.trie, s)
          BY <1>3 DEF Sound
        <4> QED BY <1>3, <2>2, <3>1, <4>1, NodeBytes DEF Sound, Faithful
      <3>3. ~(k # None /\ k.lazy)
        <4>1. ASSUME k # None, k.lazy PROVE FALSE
          <5>1. /\ k.from \in Nat /\ k.to \in Nat /\ k.from < k.to /\ k.to <= Len(c.kv.buf)
                /\ k.from >= Len(c.kv.buf) \/ k.to <= 0
            BY <3>2, <4>1 DEF KVSnaps, Fits, Clears
          <5> QED BY <1>1, <5>1
        <4> QED BY <4>1
      <3> QED BY <3>1, <3>2, <3>3, HoldingIn
    <2> QED BY <1>5, <2>3 DEF Faithful
  <1>7. Clear(d) /\ LiveOf(d.kv, M) /\ LiveOf(d.kv, N)
    BY <1>4, LiveNone DEF Clear
  <1> QED BY <1>2, <1>4, <1>6, <1>7 DEF Steady

\* The recurrent state is none of the slots.
LEMMA SetRecSteady ==
  ASSUME NEW F, NEW s, NEW M, NEW c, Steady(F, s, M, c), NEW rec \in Words
  PROVE  Steady(F, s, M, SetRec(c, rec))
  <1>1. PICK d : d = SetRec(c, rec)
    OBVIOUS
  <1>2. Sound(d, s) /\ d.kv = c.kv /\ d.trie = c.trie
    BY <1>1, SetRecSound DEF Steady
  <1> QED BY <1>1, <1>2 DEF Steady, Clear, Faithful

\* All caches may be freed.
LEMMA FreeAllSteady ==
  ASSUME NEW F, NEW s, NEW M \in Words, NEW c, Steady(F, s, M, c)
  PROVE  Steady(F, s, M, FreeAll(c))
  <1>1. Steady(F, s, M, FreeKV(c))
    BY FreeKVSteady
  <1>2. FreeAll(c) = SetRec(FreeKV(c), <<>>)
    BY DEF FreeAll, SetRec
  <1>3. <<>> \in Words
    BY EmptySeq DEF Words
  <1> QED BY <1>1, <1>2, <1>3, SetRecSteady

\* Restore and free of the recurrent cache.
LEMMA RestoreRecSteady ==
  ASSUME NEW F, NEW s, NEW M, NEW c, Steady(F, s, M, c), NEW rec \in RecSnaps, NEW target
  PROVE  Steady(F, s, M, RestoreRec(c, rec, target).cache)
  <1>1. PICK r : r = RestoreRec(c, rec, target)
    OBVIOUS
  <1>2. r = Failed(c) \/ r = Done(c) \/ (rec # None /\ r = Done(SetRec(c, rec)))
    BY <1>1, Zenon DEF RestoreRec, SetRec
  <1>3. r.cache = c \/ (rec \in Words /\ r.cache = SetRec(c, rec))
    BY <1>2, ResultIs DEF RecSnaps
  <1> QED BY <1>1, <1>3, SetRecSteady

\* The recurrent cache may be freed.
LEMMA FreeRecSteady ==
  ASSUME NEW F, NEW s, NEW M, NEW c, Steady(F, s, M, c)
  PROVE  Steady(F, s, M, Free(c, "rec"))
  <1>1. <<>> \in Words
    BY EmptySeq DEF Words
  <1>2. Free(c, "rec") = SetRec(c, <<>>)
    BY DEF Free, SetRec
  <1> QED BY <1>1, <1>2, SetRecSteady

\* Slots from one on that a snapshot holds go on from those live before it.
LEMMA LiveFurther ==
  ASSUME NEW M \in Words, NEW w \in Words, NEW target \in Nat, Agree(w, M, target),
         NEW from \in Nat, NEW g \in KVs, g.off <= target,
         \A i \in 1 .. g.off : i <= from => g.buf[i] = SubSeq(M, 1, i),
         \A i \in 1 .. g.off : i > from => g.buf[i] = SubSeq(w, 1, i)
  PROVE  LiveOf(g, M)
  <1>1. g.off \in Nat /\ Len(M) \in Nat
    BY LenProperties DEF KVs, Words
  <1>2. ASSUME NEW i \in 1 .. g.off PROVE g.buf[i] = SubSeq(M, 1, i)
    <2>1. i \in 0 .. target /\ i \in Nat
      BY <1>1
    <2>2. SubSeq(w, 1, i) = SubSeq(M, 1, i)
      BY <2>1, AgreeFirst DEF Words
    <2> QED BY <1>2, <2>1, <2>2
  <1>3. g.off <= Len(M)
    BY <1>1 DEF Agree
  <1> QED BY <1>2, <1>3 DEF LiveOf

\* Restore of a lazy snapshot: the buffer has had it all along.
LEMMA RestoreLazySteady ==
  ASSUME NEW F, NEW s, NEW M \in Words, NEW c, Steady(F, s, M, c), "kv" \in Kinds, NEW k \in KVSnaps,
         Fits(k, Len(c.kv.buf)), k # None, k.lazy, NEW target \in Nat, target <= k.to, k.from <= c.kv.off,
         NEW w \in Words, F => Holding(c.kv.buf, k, w) /\ Agree(w, M, target)
  PROVE  Steady(F, s, M, RewoundTo(c, target))
  <1>1. /\ Sound(c, s) /\ c.kv \in KVs /\ c.kv.off \in Nat /\ Len(c.kv.buf) \in Nat
        /\ k.from \in Nat /\ k.to \in Nat /\ k.to <= Len(c.kv.buf)
    <2>1. Sound(c, s) /\ c.kv \in KVs /\ c.kv.off \in Nat /\ c.kv.buf \in Seq(Words)
      BY DEF Steady, Sound, Caches, KVs
    <2>2. k.from \in Nat /\ k.to \in Nat /\ k.to <= Len(c.kv.buf)
      BY DEF KVSnaps, Fits
    <2> QED BY <2>1, <2>2, LenProperties
  <1>2. PICK d : d = RewoundTo(c, target)
    OBVIOUS
  <1>3. /\ Sound(d, s) /\ d.trie = c.trie /\ d.kv = [buf |-> c.kv.buf, off |-> target, rewound |-> TRUE]
    <2>1. target <= Len(c.kv.buf)
      BY <1>1
    <2> QED BY <1>1, <1>2, <2>1, RewoundSound
  <1>4. d.kv \in KVs /\ d.kv.off = target /\ d.kv.buf = c.kv.buf
    BY <1>1, <1>3 DEF KVs
  <1>5. ASSUME F PROVE Faithful(d, s) /\ LiveOf(d.kv, M)
    <2>1. Faithful(c, s) /\ LiveOf(c.kv, M)
      BY <1>5 DEF Steady
    <2>2. Faithful(d, s)
      BY <1>3, <1>4, <2>1 DEF Faithful
    <2>3. Holding(c.kv.buf, k, w) /\ Agree(w, M, target)
      BY <1>5
    <2>4. ASSUME NEW i \in 1 .. d.kv.off, i <= k.from PROVE d.kv.buf[i] = SubSeq(M, 1, i)
      <3>1. i \in 1 .. c.kv.off
        BY <1>1, <1>4, <2>4
      <3> QED BY <1>4, <2>1, <3>1 DEF LiveOf
    <2>5. ASSUME NEW i \in 1 .. d.kv.off, i > k.from PROVE d.kv.buf[i] = SubSeq(w, 1, i)
      <3>1. i \in k.from + 1 .. k.to
        BY <1>1, <1>4, <2>5
      <3> QED BY <1>4, <2>3, <3>1 DEF Holding, SlotOf
    <2>6. d.kv.off <= target
      BY <1>4
    <2>7. LiveOf(d.kv, M)
      BY <1>1, <1>4, <2>3, <2>4, <2>5, <2>6, LiveFurther
    <2> QED BY <2>2, <2>7
  <1> QED BY <1>2, <1>3, <1>5 DEF Steady, Clear

\* What Restore puts back of a snapshot that owns its slots.
PutBack(c, k, target) ==
    LET fed == AppendKV(RewoundTo(c, k.from), k.data) IN [fed EXCEPT !.kv.off = Min({target, fed.kv.off})]

\* Restore of a snapshot that owns its slots writes them back over those live.
LEMMA RestoreOwnedSteady ==
  ASSUME NEW F, NEW s, NEW M \in Words, NEW c, Steady(F, s, M, c), "kv" \in Kinds, NEW k \in KVSnaps,
         k # None, ~k.lazy, NEW target \in Nat, target <= k.to, k.from <= c.kv.off,
         NEW w \in Words, F => Holding(c.kv.buf, k, w) /\ Agree(w, M, target)
  PROVE  Steady(F, s, M, PutBack(c, k, target))
  <1>1. /\ Sound(c, s) /\ c.kv \in KVs /\ c.kv.off \in Nat /\ Len(c.kv.buf) \in Nat
        /\ k.from \in Nat /\ k.to \in Nat /\ k.data \in Seq(Words) /\ Len(k.data) \in Nat
    <2>1. Sound(c, s) /\ c.kv \in KVs /\ c.kv.off \in Nat /\ c.kv.buf \in Seq(Words)
      BY DEF Steady, Sound, Caches, KVs
    <2>2. k.from \in Nat /\ k.to \in Nat /\ k.data \in Seq(Words)
      BY DEF KVSnaps
    <2> QED BY <2>1, <2>2, LenProperties
  <1>2. PICK b : b = RewoundTo(c, k.from)
    OBVIOUS
  <1>3. Steady(F, s, M, b)
    <2>1. F => Agree(M, M, k.from)
      <3>1. ASSUME F PROVE Agree(M, M, k.from)
        <4>1. c.kv.off <= Len(M) /\ Len(M) \in Nat
          BY <3>1, LenProperties DEF Steady, LiveOf, Words
        <4>2. k.from <= Len(M)
          BY <1>1, <4>1
        <4> QED BY <4>2 DEF Agree
      <3> QED BY <3>1
    <2> QED BY <1>1, <1>2, <2>1, RewoundSteady
  <1>4. b.kv = [buf |-> c.kv.buf, off |-> k.from, rewound |-> TRUE] /\ Sound(b, s)
    <2>1. k.from <= Len(c.kv.buf)
      <3>1. c.kv.off <= Len(c.kv.buf)
        BY <1>1 DEF Sound
      <3> QED BY <1>1, <3>1
    <2> QED BY <1>1, <1>2, <2>1, RewoundSound
  <1>5. b.kv.off = k.from /\ b.kv.rewound = TRUE /\ b.kv.buf = c.kv.buf
    BY <1>4
  <1>6. PICK fed : fed = AppendKV(b, k.data)
    OBVIOUS
  <1>7. Sound(fed, s) /\ fed.kv.off = k.from + Len(k.data) /\ Written(c.kv.buf, k.from, k.data, fed.kv.buf)
        /\ fed.kv.off <= Len(fed.kv.buf)
    BY <1>1, <1>4, <1>5, <1>6, AppendKVSound DEF Appended
  <1>8. fed.kv.off \in Nat /\ Len(fed.kv.buf) \in Nat
    <2>1. fed.kv.off \in Nat /\ fed.kv.buf \in Seq(Words)
      BY <1>7 DEF Sound, Caches, KVs
    <2> QED BY <2>1, LenProperties
  <1>9. PICK m : m = Min({target, fed.kv.off})
    OBVIOUS
  <1>10. m \in Nat /\ m <= target /\ m <= Len(fed.kv.buf) /\ m <= fed.kv.off
    <2>1. m = IF target <= fed.kv.off THEN target ELSE fed.kv.off
      <3>1. target \in Int /\ fed.kv.off \in Int
        BY <1>8
      <3> QED BY <1>9, <3>1, MinTwo
    <2> QED BY <1>7, <1>8, <2>1
  <1>11. PICK d : d = [fed EXCEPT !.kv.off = m]
    OBVIOUS
  <1>12. Sound(d, s)
    BY <1>7, <1>10, <1>11, OffSetSound
  <1>13. d.kv.off = m /\ d.kv.buf = fed.kv.buf /\ d.trie = fed.trie /\ d.kv \in KVs
    <2>1. fed \in Caches /\ d \in Caches
      BY <1>7, <1>12 DEF Sound
    <2>2. d.kv = [fed.kv EXCEPT !.off = m] /\ d.trie = fed.trie /\ fed.kv \in KVs /\ d.kv \in KVs
      BY <1>11, <2>1 DEF Caches
    <2> QED BY <2>2 DEF KVs
  <1>14. ASSUME F PROVE Faithful(d, s) /\ LiveOf(d.kv, M)
    <2>1. Faithful(b, s) /\ LiveOf(b.kv, M) /\ Holding(c.kv.buf, k, w) /\ Agree(w, M, target)
      BY <1>3, <1>14 DEF Steady
    <2>2. Faithful(fed, s)
      BY <1>1, <1>4, <1>5, <1>6, <2>1, AppendKVFaithful
    <2>3. Faithful(d, s)
      BY <1>13, <2>2 DEF Faithful
    <2>4. ASSUME NEW i \in 1 .. d.kv.off, i <= k.from PROVE d.kv.buf[i] = SubSeq(M, 1, i)
      <3>1. i \in 1 .. k.from
        BY <1>1, <1>10, <1>13, <2>4
      <3>2. fed.kv.buf[i] = c.kv.buf[i]
        BY <1>7, <3>1 DEF Written
      <3>3. b.kv.buf[i] = SubSeq(M, 1, i)
        BY <1>5, <2>1, <3>1 DEF LiveOf
      <3> QED BY <1>5, <1>13, <3>2, <3>3
    <2>5. ASSUME NEW i \in 1 .. d.kv.off, i > k.from PROVE d.kv.buf[i] = SubSeq(w, 1, i)
      <3>1. Len(k.data) = k.to - k.from
        BY <2>1 DEF Holding
      <3>2. PICK j \in 1 .. Len(k.data) : i = k.from + j /\ i \in k.from + 1 .. k.to /\ j = i - k.from
        <4>1. i \in Nat /\ i <= m /\ i > k.from
          BY <1>10, <1>13, <2>5
        <4>2. m <= k.from + Len(k.data)
          BY <1>7, <1>10
        <4>3. i - k.from \in 1 .. Len(k.data) /\ i = k.from + (i - k.from) /\ i \in k.from + 1 .. k.to
          BY <1>1, <1>10, <3>1, <4>1, <4>2
        <4> QED BY <4>3
      <3>3. fed.kv.buf[k.from + j] = k.data[j]
        BY <1>7, <3>2 DEF Written
      <3>4. k.data[i - k.from] = SubSeq(w, 1, i)
        BY <2>1, <3>2 DEF Holding, SlotOf
      <3> QED BY <1>13, <3>2, <3>3, <3>4
    <2>6. d.kv.off <= target
      BY <1>10, <1>13
    <2>7. LiveOf(d.kv, M)
      BY <1>1, <1>13, <2>1, <2>4, <2>5, <2>6, LiveFurther
    <2> QED BY <2>3, <2>7
  <1>15. PutBack(c, k, target) = d
    BY <1>2, <1>6, <1>9, <1>11 DEF PutBack
  <1> QED BY <1>12, <1>14, <1>15 DEF Steady, Clear

\* Restore of the KV cache.
LEMMA RestoreKVSteady ==
  ASSUME NEW F, NEW s, NEW M \in Words, NEW c, Steady(F, s, M, c), "kv" \in Kinds, NEW k \in KVSnaps,
         Fits(k, Len(c.kv.buf)), NEW target \in Nat, NEW w \in Words,
         F /\ k # None => Holding(c.kv.buf, k, w) /\ Agree(w, M, target)
  PROVE  Steady(F, s, M, RestoreKV(c, k, target).cache)
  <1>1. PICK r : r = RestoreKV(c, k, target)
    OBVIOUS
  <1>2. c.kv.off \in Nat
    BY OffsetType DEF Steady
  <1>3. CASE k = None
    <2>1. CASE target > c.kv.off
      <3>1. r = Failed(c)
        BY <1>1, <1>3, <2>1 DEF RestoreKV
      <3>2. r.cache = c
        BY <3>1, ResultIs
      <3> QED BY <1>1, <3>2
    <2>2. CASE ~(target > c.kv.off)
      <3>1. r = Done(RewoundTo(c, target))
        BY <1>1, <1>3, <2>2 DEF RestoreKV
      <3>2. r.cache = RewoundTo(c, target)
        BY <3>1, ResultIs
      <3>3. target <= c.kv.off
        BY <1>2, <2>2
      <3>4. ASSUME F PROVE Agree(M, M, target)
        <4>1. c.kv.off <= Len(M) /\ Len(M) \in Nat
          BY <3>4, LenProperties DEF Steady, LiveOf, Words
        <4>2. target <= Len(M)
          BY <1>2, <3>3, <4>1
        <4> QED BY <4>2 DEF Agree
      <3>5. Steady(F, s, M, RewoundTo(c, target))
        BY <3>3, <3>4, RewoundSteady
      <3> QED BY <1>1, <3>2, <3>5
    <2> QED BY <2>1, <2>2
  <1>4. CASE k # None
    <2>0. k.from \in Nat /\ k.to \in Nat
      BY <1>4 DEF KVSnaps
    <2>1. CASE target > k.to \/ c.kv.off < k.from
      <3>1. r = Failed(c)
        BY <1>1, <1>4, <2>1 DEF RestoreKV
      <3>2. r.cache = c
        BY <3>1, ResultIs
      <3> QED BY <1>1, <3>2
    <2>2. CASE ~(target > k.to \/ c.kv.off < k.from)
      <3>1. target <= k.to /\ k.from <= c.kv.off
        BY <1>2, <2>0, <2>2
      <3>2. CASE k.lazy
        <4>1. r = Done(RewoundTo(c, target))
          BY <1>1, <1>4, <2>2, <3>2 DEF RestoreKV
        <4>2. r.cache = RewoundTo(c, target)
          BY <4>1, ResultIs
        <4>3. Steady(F, s, M, RewoundTo(c, target))
          BY <1>4, <3>1, <3>2, RestoreLazySteady
        <4> QED BY <1>1, <4>2, <4>3
      <3>3. CASE ~k.lazy
        <4>1. r = Done(PutBack(c, k, target))
          BY <1>1, <1>4, <2>2, <3>3 DEF RestoreKV, PutBack
        <4>2. r.cache = PutBack(c, k, target)
          BY <4>1, ResultIs
        <4>3. Steady(F, s, M, PutBack(c, k, target))
          BY <1>4, <3>1, <3>3, RestoreOwnedSteady
        <4> QED BY <1>1, <4>2, <4>3
      <3> QED BY <3>2, <3>3
    <2> QED BY <2>1, <2>2
  <1> QED BY <1>3, <1>4

\* A node gets snapshots that hold what they should.
LEMMA SnapshotsSteady ==
  ASSUME NEW F, NEW s, NEW M, NEW c, Steady(F, s, M, c), NEW n \in DOMAIN c.trie, NEW x,
         x.kv \in KVSnaps, x.rec \in RecSnaps, Fits(x.kv, Len(c.kv.buf)), RecOf(x.rec, s[n]),
         F => Holding(c.kv.buf, x.kv, s[n])
  PROVE  Steady(F, s, M, SetSnapshots(c, n, x))
  <1>1. Sound(c, s) /\ c \in Caches /\ Tree(c.trie, s)
    BY DEF Steady, Sound
  <1>2. PICK d : d = SetSnapshots(c, n, x)
    OBVIOUS
  <1>3. Sound(d, s) /\ SnapshotsSet(c, n, x, d)
    BY <1>1, <1>2, SnapshotsSound, SnapshotsFields
  <1>4. /\ d.kv = c.kv /\ DOMAIN d.trie = DOMAIN c.trie /\ d.trie[n].kv = x.kv
        /\ \A m \in DOMAIN c.trie \ {n} : d.trie[m] = c.trie[m]
    BY <1>3 DEF SnapshotsSet, Apart
  <1>5. F => Faithful(d, s)
    BY <1>4 DEF Steady, Faithful
  <1> QED BY <1>2, <1>3, <1>4, <1>5 DEF Steady, Clear

\* The edge of a node starts where its parent ends.
LEMMA StartIs ==
  ASSUME NEW t, NEW s, Tree(t, s), NEW n \in DOMAIN t
  PROVE  Start(t[n]) \in Nat
  <1>1. CASE n = Root
    BY <1>1, TreeFacts DEF Start
  <1>2. CASE n # Root
    <2>1. PICK q : Edge(t, s, n, q)
      BY <1>2, EdgeFacts
    <2>2. q \in DOMAIN t /\ Start(t[n]) = t[q].end
      BY <2>1 DEF Edge
    <2> QED BY <2>2, TreeFacts
  <1> QED BY <1>1, <1>2

\* What is live is held by a lazy snapshot of it.
LEMMA LiveIsHeld ==
  ASSUME NEW c, NEW s, Sound(c, s), NEW from \in Nat, NEW to \in Nat, to <= Len(c.kv.buf),
         NEW k, k = SnapshotKV(c, from, to)
  PROVE  /\ k \in KVSnaps /\ Fits(k, Len(c.kv.buf))
         /\ k # None => k.lazy /\ k.from = from /\ k.to = to
         /\ \A w : to <= Len(w) /\ (\A i \in from + 1 .. to : c.kv.buf[i] = SubSeq(w, 1, i))
                     => Holding(c.kv.buf, k, w)
  <1>1. CASE to <= from
    <2>1. k = None
      BY <1>1 DEF SnapshotKV
    <2> QED BY <2>1 DEF KVSnaps, Fits, Holding
  <1>2. CASE ~(to <= from)
    <2>1. k = [from |-> from, to |-> to, lazy |-> TRUE, data |-> <<>>]
      BY <1>2 DEF SnapshotKV, Lazy
    <2>2. k.from = from /\ k.to = to /\ k.lazy = TRUE
      BY <2>1
    <2>3. k \in KVSnaps
      BY <2>1, EmptySeq DEF KVSnaps
    <2>4. Fits(k, Len(c.kv.buf))
      BY <1>2, <2>2 DEF Fits
    <2>5. ASSUME NEW w, to <= Len(w), \A i \in from + 1 .. to : c.kv.buf[i] = SubSeq(w, 1, i)
          PROVE  Holding(c.kv.buf, k, w)
      <3>1. ASSUME NEW i \in from + 1 .. to PROVE i <= Len(w)
        BY <2>5
      <3>2. \A i \in k.from + 1 .. k.to : i <= Len(w) /\ SlotOf(c.kv.buf, k, i) = SubSeq(w, 1, i)
        BY <2>2, <2>5, <3>1 DEF SlotOf
      <3> QED BY <2>2, <3>2 DEF Holding
    <2> QED BY <2>2, <2>3, <2>4, <2>5
  <1> QED BY <1>1, <1>2

\* The leaf that is left gets a lazy snapshot of what is live.
LEMMA PageOutSteady ==
  ASSUME NEW F, NEW s, NEW M, NEW c, Steady(F, s, M, c), M = s[Last(c.path)],
         NEW common, NEW matched, Agree(M, c.rec, Len(c.rec))
  PROVE  Steady(F, s, M, PageOut(c, common, matched))
  <1>1. PICK n : n = Last(c.path)
    OBVIOUS
  <1>2. Tree(c.trie, s) /\ n \in DOMAIN c.trie /\ Sound(c, s) /\ c \in Caches
    <2>1. Sound(c, s)
      BY DEF Steady
    <2>2. Tree(c.trie, s) /\ Walks(c.trie, c.path) /\ c \in Caches
      BY <2>1 DEF Sound
    <2> QED BY <1>1, <2>1, <2>2, WalkFacts
  <1>3. PICK x : x = [kv |-> SnapshotKV(c, Start(c.trie[n]), c.kv.off), rec |-> SnapshotRec(c)]
    OBVIOUS
  <1>4. CASE PageOut(c, common, matched) = c
    BY <1>4
  <1>5. CASE PageOut(c, common, matched) = SetSnapshots(c, n, x)
    <2>1. PICK a \in Nat, b \in Nat : a = Start(c.trie[n]) /\ b = c.kv.off /\ b <= Len(c.kv.buf)
      <3>1. c.kv.off \in Nat /\ c.kv.off <= Len(c.kv.buf)
        BY <1>2, OffsetType DEF Sound
      <3> QED BY <1>2, <3>1, StartIs
    <2>2. x.kv = SnapshotKV(c, a, b)
      BY <1>3, <2>1
    <2>3. x.kv \in KVSnaps /\ Fits(x.kv, Len(c.kv.buf))
      BY <1>2, <2>1, <2>2, LiveIsHeld
    <2>4. ASSUME F PROVE Holding(c.kv.buf, x.kv, M)
      <3>1. b <= Len(M) /\ \A i \in 1 .. b : c.kv.buf[i] = SubSeq(M, 1, i)
        BY <2>1, <2>4 DEF Steady, LiveOf
      <3>2. \A i \in a + 1 .. b : i \in 1 .. b
        OBVIOUS
      <3>3. \A i \in a + 1 .. b : c.kv.buf[i] = SubSeq(M, 1, i)
        BY <3>1, <3>2
      <3>4. \A w : b <= Len(w) /\ (\A i \in a + 1 .. b : c.kv.buf[i] = SubSeq(w, 1, i)) => Holding(c.kv.buf, x.kv, w)
        <4>1. b <= Len(c.kv.buf) /\ Sound(c, s) /\ x.kv = SnapshotKV(c, a, b)
          BY <1>2, <2>1, <2>2
        <4> QED BY <4>1, LiveIsHeld, Zenon
      <3> QED BY <3>1, <3>3, <3>4
    <2>5. x.rec \in RecSnaps /\ RecOf(x.rec, s[n])
      <3>1. x.rec = SnapshotRec(c) /\ c.rec \in Words
        BY <1>2, <1>3 DEF Caches
      <3> QED BY <1>1, <3>1 DEF SnapshotRec, RecSnaps, RecOf
    <2> QED BY <1>1, <1>2, <1>5, <2>3, <2>4, <2>5, SnapshotsSteady
  <1> QED BY <1>1, <1>3, <1>4, <1>5 DEF PageOut

\* Rewind has left the caches to stand for W, and once the KV cache was among them for M.
Rewound(F, s, W, M, d, K) == Steady(F, s, W, d) /\ ("kv" \in K => Steady(F, s, M, d))

\* A layer is rewound, or freed if it cannot be.
LEMMA RewindLayerSteady ==
  ASSUME NEW F, NEW s, NEW W \in Words, NEW M \in Words, NEW target \in Nat, F => Agree(M, W, target),
         NEW d, NEW K, Rewound(F, s, W, M, d, K), NEW l \in Kinds
  PROVE  Rewound(F, s, W, M, RewindLayer(d, l, target), K \cup {l})
  <1>1. Steady(F, s, W, d) /\ Sound(d, s)
    BY DEF Rewound, Steady
  <1>2. CASE l = "kv"
    <2>1. PICK r : r = RestoreKV(d, None, target)
      OBVIOUS
    <2>2. RewindLayer(d, l, target) = IF r.ok THEN r.cache ELSE FreeKV(d)
      <3>1. Restore(d, l, None, target) = r
        BY <1>2, <2>1 DEF Restore
      <3>2. RewindLayer(d, l, target) = IF r.ok THEN r.cache ELSE Free(d, l)
        BY <3>1 DEF RewindLayer
      <3> QED BY <1>2, <3>2 DEF Free
    <2>3. CASE target > d.kv.off
      <3>1. r = Failed(d)
        BY <2>1, <2>3 DEF RestoreKV
      <3>2. RewindLayer(d, l, target) = FreeKV(d)
        BY <2>2, <3>1, ResultIs
      <3>3. Steady(F, s, W, FreeKV(d)) /\ Steady(F, s, M, FreeKV(d))
        BY <1>1, FreeKVSteady
      <3> QED BY <3>2, <3>3 DEF Rewound
    <2>4. CASE ~(target > d.kv.off)
      <3>1. r = Done(RewoundTo(d, target))
        BY <2>1, <2>4 DEF RestoreKV
      <3>2. RewindLayer(d, l, target) = RewoundTo(d, target)
        BY <2>2, <3>1, ResultIs
      <3>3. target <= d.kv.off
        BY <1>1, <2>4, OffsetType
      <3>4. Steady(F, s, W, RewoundTo(d, target)) /\ Steady(F, s, M, RewoundTo(d, target))
        BY <1>1, <3>3, RewoundSteady
      <3> QED BY <3>2, <3>4 DEF Rewound
    <2> QED BY <2>3, <2>4
  <1>3. CASE l = "rec"
    <2>1. PICK r : r = RestoreRec(d, None, target)
      OBVIOUS
    <2>2. RewindLayer(d, l, target) = IF r.ok THEN r.cache ELSE Free(d, "rec")
      <3>1. Restore(d, l, None, target) = r
        BY <1>3, <2>1 DEF Restore
      <3> QED BY <1>3, <3>1 DEF RewindLayer
    <2>3. ASSUME NEW N, Steady(F, s, N, d) PROVE Steady(F, s, N, r.cache) /\ Steady(F, s, N, Free(d, "rec"))
      <3>1. None \in RecSnaps
        BY DEF RecSnaps
      <3> QED BY <2>1, <2>3, <3>1, RestoreRecSteady, FreeRecSteady
    <2>4. "kv" \in K \cup {l} <=> "kv" \in K
      BY <1>3
    <2> QED BY <2>2, <2>3, <2>4 DEF Rewound
  <1> QED BY <1>2, <1>3, LayersAre

\* Where there is no KV cache, nothing is live.
LEMMA SteadyNone ==
  ASSUME NEW F, NEW s, NEW W, NEW M \in Words, NEW c, Steady(F, s, W, c), "kv" \notin Kinds
  PROVE  Steady(F, s, M, c)
  BY LiveNone DEF Steady, Clear

\* After the rewind of all layers what is live stands for the new tokens as well.
LEMMA RewindSteady ==
  ASSUME NEW F, NEW s, NEW W \in Words, NEW M \in Words, NEW target \in Nat, F => Agree(M, W, target),
         NEW c, Steady(F, s, W, c)
  PROVE  Steady(F, s, M, Rewind(c, target))
  <1>1. Rewound(F, s, W, M, c, {})
    BY DEF Rewound
  <1>2. PICK a : a = RewindLayer(c, Layers[1], target)
    OBVIOUS
  <1>3. Rewound(F, s, W, M, a, {} \cup {Layers[1]})
    BY <1>1, <1>2, LayersAre, RewindLayerSteady
  <1>4. PICK b : b = RewindLayer(a, Layers[2], target)
    OBVIOUS
  <1>5. Len(Layers) # 1 => Rewound(F, s, W, M, b, ({} \cup {Layers[1]}) \cup {Layers[2]})
    BY <1>3, <1>4, LayersAre, RewindLayerSteady
  <1>6. Rewind(c, target) = IF Len(Layers) = 1 THEN a ELSE b
    BY <1>2, <1>4 DEF Rewind, EachLayer
  <1>7. Rewound(F, s, W, M, Rewind(c, target), Kinds)
    <2>1. {} \cup {Layers[1]} = {Layers[1]}
      OBVIOUS
    <2> QED BY <1>3, <1>5, <1>6, <2>1, LayersAre
  <1> QED BY <1>7, SteadyNone DEF Rewound

\* Page-in of one snapshot,
LEMMA PageInLayerSteady ==
  ASSUME NEW F, NEW s, NEW M \in Words, NEW r, Steady(F, s, M, r.cache), NEW n \in DOMAIN r.cache.trie,
         Agree(s[n], M, Min({r.cache.trie[n].end, Len(M)})), NEW l \in Kinds
  PROVE  Steady(F, s, M, PageInLayer(r, n, l, Len(M)).cache)
  <1>1. PICK d : d = r.cache
    OBVIOUS
  <1>2. Sound(d, s) /\ Tree(d.trie, s) /\ n \in DOMAIN d.trie
    BY <1>1 DEF Steady, Sound
  <1>3. PICK target \in Nat : target = Min({d.trie[n].end, Len(M)})
    <2>1. d.trie[n].end \in Nat /\ Len(M) \in Nat
      BY <1>2, TreeFacts, LenProperties DEF Words
    <2>2. Min({d.trie[n].end, Len(M)}) = IF d.trie[n].end <= Len(M) THEN d.trie[n].end ELSE Len(M)
      BY <2>1, MinTwo
    <2> QED BY <2>1, <2>2
  <1>4. PICK h : h = Held(d.trie[n], l)
    OBVIOUS
  <1>5. PICK f : f = PageInLayer(r, n, l, Len(M))
    OBVIOUS
  <1>6. f = r \/ f = Restore(d, l, h, target)
    BY <1>1, <1>3, <1>4, <1>5, Zenon DEF PageInLayer
  <1>7. /\ d.trie[n].kv \in KVSnaps /\ Fits(d.trie[n].kv, Len(d.kv.buf)) /\ d.trie[n].rec \in RecSnaps
        /\ s[n] \in Words
    BY <1>2, NodeBytes, TreeFacts DEF Sound
  <1>8. CASE l = "kv" /\ f = Restore(d, l, h, target)
    <2>1. f = RestoreKV(d, h, target) /\ h = d.trie[n].kv
      BY <1>4, <1>8 DEF Restore, Held
    <2>2. F => Holding(d.kv.buf, h, s[n]) /\ Agree(s[n], M, target)
      BY <1>1, <1>2, <1>3, <2>1 DEF Steady, Faithful
    <2>3. Steady(F, s, M, d) /\ "kv" \in Kinds
      BY <1>1, <1>8
    <2> QED BY <1>5, <1>7, <2>1, <2>2, <2>3, RestoreKVSteady
  <1>9. CASE l = "rec" /\ f = Restore(d, l, h, target)
    <2>1. f = RestoreRec(d, h, target) /\ h = d.trie[n].rec
      BY <1>4, <1>9 DEF Restore, Held
    <2> QED BY <1>1, <1>5, <1>7, <2>1, RestoreRecSteady
  <1> QED BY <1>5, <1>6, <1>8, <1>9, LayersAre

\* of those of a node,
LEMMA PageInNodeSteady ==
  ASSUME NEW F, NEW c, NEW s, Tree(c.trie, s), NEW M \in Words, NEW r, PagingIn(c, s, M, r),
         Steady(F, s, M, r.cache), NEW n \in DOMAIN c.trie, Agree(s[n], M, Min({c.trie[n].end, Len(M)}))
  PROVE  PagingIn(c, s, M, PageInNode(r, n, Len(M))) /\ Steady(F, s, M, PageInNode(r, n, Len(M)).cache)
  <1>1. PICK a : a = PageInLayer(r, n, Layers[1], Len(M))
    OBVIOUS
  <1>2. PagingIn(c, s, M, a)
    BY <1>1, LayersAre, PageInLayerIs
  <1>3. ASSUME NEW q, PagingIn(c, s, M, q)
        PROVE  n \in DOMAIN q.cache.trie /\ Agree(s[n], M, Min({q.cache.trie[n].end, Len(M)}))
    <2>1. SameNodes(c.trie, q.cache.trie)
      BY <1>3 DEF PagingIn, Switched, Kept
    <2> QED BY <2>1 DEF SameNodes
  <1>4. Steady(F, s, M, a.cache)
    BY <1>1, <1>3, LayersAre, PageInLayerSteady
  <1>5. PICK b : b = PageInLayer(a, n, Layers[2], Len(M))
    OBVIOUS
  <1>6. Len(Layers) # 1 => Steady(F, s, M, b.cache)
    BY <1>2, <1>3, <1>4, <1>5, LayersAre, PageInLayerSteady
  <1>7. PageInNode(r, n, Len(M)) = IF Len(Layers) = 1 THEN a ELSE b
    BY <1>1, <1>5 DEF PageInNode, EachLayer
  <1> QED BY <1>4, <1>6, <1>7, PageInNodeIs

\* and of those along the path.
LEMMA PageInSteady ==
  ASSUME NEW F, NEW c, NEW s, NEW M \in Words, Switched(c, s, M, c), Steady(F, s, M, c),
         NEW path, Leading(c.trie, s, M, path)
  PROVE  Steady(F, s, M, PageIn(c, path, Len(M)))
  <1>1. PICK along : Turns(along, c, path, Len(M))
    BY PageInTurns
  <1>2. PICK N \in Nat : N = Len(path)
    BY WalkFacts DEF Switched, Sound, Leading
  <1>3. Tree(c.trie, s)
    BY DEF Switched, Sound
  <1>4. along[0].cache = c /\ PagingIn(c, s, M, along[0])
    <2>1. along[0] = Done(c)
      BY <1>1 DEF Turns
    <2>2. along[0].cache = c /\ along[0].ok = TRUE /\ Result(along[0])
      BY <2>1, ResultIs
    <2> QED BY <2>2 DEF PagingIn
  <1>5. ASSUME NEW i \in 1 .. N, PagingIn(c, s, M, along[i - 1]), Steady(F, s, M, along[i - 1].cache)
        PROVE  PagingIn(c, s, M, along[i]) /\ Steady(F, s, M, along[i].cache)
    <2>1. PICK n, q : n = path[i] /\ q = along[i - 1]
      OBVIOUS
    <2>2. n \in DOMAIN c.trie /\ Agree(s[n], M, Min({c.trie[n].end, Len(M)}))
      BY <1>2, <1>3, <2>1, LeadingFacts
    <2>3. along[i] = PageInNode(q, n, Len(M))
      BY <1>1, <1>2, <2>1 DEF Turns
    <2> QED BY <1>3, <1>5, <2>1, <2>2, <2>3, PageInNodeSteady
  <1>7. PICK S : S = [i \in 0 .. N |-> {x \in {along[i]} : PagingIn(c, s, M, x) /\ Steady(F, s, M, x.cache)}]
    OBVIOUS
  <1>8. \A i \in 0 .. N : along[i] \in S[i] <=> PagingIn(c, s, M, along[i]) /\ Steady(F, s, M, along[i].cache)
    BY <1>7
  <1>9. \A i \in 1 .. N : i \in 0 .. N /\ i - 1 \in 0 .. N
    BY <1>2
  <1>10. \A i \in 0 .. N : along[i] \in S[i]
    <2>1. along[0] \in S[0]
      BY <1>2, <1>4, <1>8
    <2>2. \A i \in 1 .. N : along[i - 1] \in S[i - 1] => along[i] \in S[i]
      BY <1>5, <1>8, <1>9
    <2> QED BY <1>2, <2>1, <2>2, Iterated
  <1>11. Steady(F, s, M, along[N].cache)
    BY <1>2, <1>8, <1>10
  <1> QED BY <1>1, <1>2, <1>11 DEF Turns

\* Alignment of one cache,
LEMMA AlignLayerSteady ==
  ASSUME NEW F, NEW s, NEW M \in Words, NEW r, Steady(F, s, M, r.cache), NEW off \in Nat, NEW l \in Kinds
  PROVE  Steady(F, s, M, AlignLayer(r, l, off).cache)
  <1>1. PICK d : d = r.cache
    OBVIOUS
  <1>2. PICK f : f = Restore(d, l, None, off)
    OBVIOUS
  <1>3. PICK g : g = Failed(FreeAll(d))
    OBVIOUS
  <1>4. AlignLayer(r, l, off) = IF ~r.ok \/ Offset(d, l) = off THEN r ELSE IF f.ok THEN f ELSE g
    BY <1>1, <1>2, <1>3, Zenon DEF AlignLayer
  <1>5. Steady(F, s, M, g.cache)
    BY <1>1, <1>3, FreeAllSteady, ResultIs
  <1>6. Steady(F, s, M, f.cache)
    <2>1. CASE l = "kv"
      <3>1. f = RestoreKV(d, None, off)
        BY <1>2, <2>1 DEF Restore
      <3>2. None \in KVSnaps /\ Fits(None, Len(d.kv.buf))
        BY DEF KVSnaps, Fits
      <3>3. "kv" \in Kinds /\ Steady(F, s, M, d)
        BY <1>1, <2>1
      <3> QED BY <3>1, <3>2, <3>3, RestoreKVSteady
    <2>2. CASE l = "rec"
      <3>1. f = RestoreRec(d, None, off) /\ None \in RecSnaps
        BY <1>2, <2>2 DEF Restore, RecSnaps
      <3> QED BY <1>1, <3>1, RestoreRecSteady
    <2> QED BY <2>1, <2>2, LayersAre
  <1> QED BY <1>1, <1>4, <1>5, <1>6

\* and of all.
LEMMA AlignSteady ==
  ASSUME NEW F, NEW s, NEW M \in Words, NEW c, Steady(F, s, M, c), NEW off \in Nat
  PROVE  Steady(F, s, M, Align(c, off))
  <1>1. PICK z : z = Done(c) /\ z.cache = c
    BY ResultIs
  <1>2. PICK a : a = AlignLayer(z, Layers[1], off)
    OBVIOUS
  <1>3. Steady(F, s, M, a.cache)
    BY <1>1, <1>2, LayersAre, AlignLayerSteady
  <1>4. PICK b : b = AlignLayer(a, Layers[2], off)
    OBVIOUS
  <1>5. Len(Layers) # 1 => Steady(F, s, M, b.cache)
    BY <1>3, <1>4, LayersAre, AlignLayerSteady
  <1>6. Align(c, off) = IF Len(Layers) = 1 THEN a.cache ELSE b.cache
    BY <1>1, <1>2, <1>4 DEF Align, EachLayer
  <1> QED BY <1>3, <1>5, <1>6

\* The path is none of the slots.
LEMMA PathSetSteady ==
  ASSUME NEW F, NEW s, NEW M, NEW c, Steady(F, s, M, c), NEW d, Sound(d, s), d.kv = c.kv, d.trie = c.trie
  PROVE  Steady(F, s, M, d)
  BY DEF Steady, Clear, Faithful

\* The caches are brought to one offset, and the path ends there.
LEMMA SettleSteady ==
  ASSUME NEW F, NEW c, NEW s, NEW M \in Words, Switched(c, s, M, c), Steady(F, s, M, c),
         NEW path, Leading(c.trie, s, M, path)
  PROVE  Steady(F, s, M, Settle(c, path))
  <1>1. PICK off \in Nat : off = MinOffset(c)
    BY OffsetType DEF Switched
  <1>2. PICK a : a = Align(c, off)
    OBVIOUS
  <1>3. Steady(F, s, M, a) /\ a \in Caches
    <2>1. Steady(F, s, M, a)
      BY <1>2, AlignSteady
    <2> QED BY <2>1 DEF Steady, Sound
  <1>4. PICK d : d = Settle(c, path)
    OBVIOUS
  <1>5. \E q : d = [a EXCEPT !.path = q]
    BY <1>1, <1>2, <1>4 DEF Settle
  <1>6. d.kv = a.kv /\ d.trie = a.trie
    BY <1>3, <1>5 DEF Caches
  <1>7. Sound(d, s)
    BY <1>4, SettleIs DEF Settled
  <1> QED BY <1>3, <1>4, <1>6, <1>7, PathSetSteady

\* What a path spells up to a node that it has in common with another, M agrees with.
LEMMA CommonAgrees ==
  ASSUME NEW c, NEW s, Sound(c, s), NEW M \in Words, NEW path, Leading(c.trie, s, M, path),
         NEW k, k = Shared(c.path, path), NEW target, target = RewindTarget(c.trie[c.path[k]].end, Len(M))
  PROVE  target \in Nat /\ target <= Len(M) /\ Agree(M, s[Last(c.path)], target)
  <1>1. Tree(c.trie, s) /\ Walks(c.trie, c.path) /\ c.path[1] = Root
    BY DEF Sound
  <1>2. k \in 1 .. Len(c.path) /\ k \in 1 .. Len(path) /\ c.path[k] = path[k]
    <2>1. Walks(c.trie, path) /\ path[1] = Root
      BY DEF Leading
    <2> QED BY <1>1, <2>1, CommonNode
  <1>3. PICK n : n = c.path[k]
    OBVIOUS
  <1>4. n \in DOMAIN c.trie /\ Agree(s[n], M, Min({c.trie[n].end, Len(M)}))
    BY <1>1, <1>2, <1>3, LeadingFacts
  <1>5. c.trie[n].end \in Nat /\ Len(M) \in Nat
    BY <1>1, <1>4, TreeFacts, LenProperties DEF Words
  <1>6. target \in Nat /\ target <= Len(M) /\ target <= c.trie[n].end /\ Agree(s[n], M, target)
    <2>1. target = Min({c.trie[n].end, Len(M)})
      BY <1>3 DEF RewindTarget
    <2>2. target = IF c.trie[n].end <= Len(M) THEN c.trie[n].end ELSE Len(M)
      <3>1. c.trie[n].end \in Int /\ Len(M) \in Int
        BY <1>5
      <3> QED BY <2>1, <3>1, MinTwo
    <2>3. target \in Nat /\ target <= Len(M) /\ target <= c.trie[n].end
      BY <1>5, <2>2
    <2> QED BY <1>4, <2>1, <2>3
  <1>7. PICK a \in Words, b \in Words : a = s[n] /\ b = s[Last(c.path)]
    <2>1. Last(c.path) \in DOMAIN c.trie
      BY <1>1, WalkFacts
    <2> QED BY <1>1, <1>4, <2>1, TreeFacts
  <1>8. Agree(b, a, c.trie[n].end)
    <2>1. PICK j \in 1 .. Len(c.path) : j = Len(c.path) /\ k \in 1 .. j
      BY <1>1, <1>2, WalkFacts
    <2>2. Agree(s[c.path[j]], s[c.path[k]], c.trie[c.path[k]].end)
      BY <1>1, <2>1, WalkAgrees
    <2>3. Last(c.path) = c.path[Len(c.path)]
      BY <1>1, WalkFacts
    <2> QED BY <1>3, <1>7, <2>1, <2>2, <2>3
  <1>9. Agree(a, b, target) /\ Agree(M, a, target)
    <2>1. target <= target
      BY <1>6
    <2> QED BY <1>5, <1>6, <1>7, <1>8, <2>1, AgreeLess DEF Words
  <1>10. Agree(M, b, target)
    <2>1. target <= target
      BY <1>6
    <2> QED BY <1>6, <1>9, <2>1, AgreeTwice
  <1> QED BY <1>6, <1>7, <1>10

\* switchToPath leaves live only slots of the tokens of the new path.
LEMMA SwitchToPathSteady ==
  ASSUME NEW F, NEW c, NEW s, NEW M \in Words, NEW path, Leading(c.trie, s, M, path), Level(c),
         NEW W, W = s[Last(c.path)], Steady(F, s, W, c), Agree(W, c.rec, Len(c.rec))
  PROVE  Steady(F, s, M, SwitchToPath(c, path, Len(M)))
  <1>1. PICK k : k = Shared(c.path, path)
    OBVIOUS
  <1>2. Sound(c, s) /\ Tree(c.trie, s) /\ Walks(c.trie, c.path) /\ W \in Words
    <2>1. Sound(c, s) /\ Tree(c.trie, s) /\ Walks(c.trie, c.path)
      BY DEF Steady, Sound
    <2>2. Last(c.path) \in DOMAIN c.trie
      BY <2>1, WalkFacts
    <2> QED BY <2>1, <2>2, TreeFacts
  <1>3. PICK target : target = RewindTarget(c.trie[c.path[k]].end, Len(M))
    OBVIOUS
  <1>4. target \in Nat /\ target <= Len(M) /\ Agree(M, W, target)
    BY <1>1, <1>2, <1>3, CommonAgrees
  <1>5. PICK d : d = PageOut(c, k, Len(M))
    OBVIOUS
  <1>6. Sound(d, s) /\ Kept(c, d) /\ d.rec = c.rec
    BY <1>2, <1>5, PageOutSound
  <1>7. Level(d) /\ Steady(F, s, W, d)
    BY <1>5, <1>6, LevelOf, PageOutSteady
  <1>8. PICK e : e = Rewind(d, target)
    OBVIOUS
  <1>9. Switched(d, s, M, e)
    <2>1. Len(d.rec) = target => Agree(M, d.rec, target)
      <3>1. ASSUME Len(d.rec) = target PROVE Agree(M, d.rec, target)
        <4>1. Agree(W, d.rec, target) /\ target <= target
          BY <1>4, <1>6, <3>1
        <4> QED BY <1>4, <4>1, AgreeTwice
      <3> QED BY <3>1
    <2> QED BY <1>4, <1>6, <1>7, <1>8, <2>1, RewindIs
  <1>10. Steady(F, s, M, e)
    BY <1>2, <1>4, <1>7, <1>8, RewindSteady
  <1>11. Switched(e, s, M, e) /\ Kept(c, e)
    BY <1>6, <1>9, KeptSelf, KeptTwice DEF Switched
  <1>12. Leading(e.trie, s, M, path)
    BY <1>2, <1>11, SameWalks DEF Leading, Kept
  <1>13. PICK f : f = PageIn(e, path, Len(M))
    OBVIOUS
  <1>14. Switched(e, s, M, f) /\ Steady(F, s, M, f)
    BY <1>10, <1>11, <1>12, <1>13, PageInIs, PageInSteady
  <1>15. Switched(f, s, M, f) /\ Kept(c, f)
    BY <1>11, <1>14, KeptSelf, KeptTwice DEF Switched
  <1>16. Leading(f.trie, s, M, path)
    BY <1>2, <1>15, SameWalks DEF Leading, Kept
  <1>17. Steady(F, s, M, Settle(f, path))
    BY <1>14, <1>15, <1>16, SettleSteady
  <1>18. SwitchToPath(c, path, Len(M)) =
           Settle(PageIn(Rewind(PageOut(c, k, Len(M)), RewindTarget(c.trie[c.path[k]].end, Len(M))), path, Len(M)), path)
    BY <1>1, Zenon DEF SwitchToPath, Shared
  <1> QED BY <1>3, <1>5, <1>8, <1>13, <1>17, <1>18

\* Tokens that agree with the first as far as they go serve as well.
LEMMA SteadyOn ==
  ASSUME NEW F, NEW s, NEW M \in Words, NEW N \in Words, NEW c, Steady(F, s, M, c),
         F => Agree(N, M, Len(M)) \/ Agree(N, M, c.kv.off)
  PROVE  Steady(F, s, N, c)
  <1>1. ASSUME F PROVE LiveOf(c.kv, N)
    <2>1. LiveOf(c.kv, M) /\ c.kv \in KVs /\ c.kv.off \in Nat /\ Len(M) \in Nat /\ c.kv.off <= Len(M)
      <3>1. LiveOf(c.kv, M) /\ Sound(c, s)
        BY <1>1 DEF Steady
      <3> QED BY <3>1, LenProperties DEF Sound, Caches, KVs, LiveOf, Words
    <2>2. Agree(N, M, c.kv.off)
      BY <1>1, <2>1, AgreeLess DEF Words
    <2>3. c.kv.off <= c.kv.off
      BY <2>1
    <2> QED BY <2>1, <2>2, <2>3, LiveLess
  <1> QED BY <1>1 DEF Steady

\* The tokens that the live caches stand for.
LiveWord(e, w) ==
    IF e.phase = "idle" THEN w ELSE IF e.sample = None THEN Given(e) ELSE Append(Given(e), e.sample)

\* What a scheduled offset captured of the KV cache is lazy, and ends there.
LazyTo(k, at) == k # None => "kv" \in Kinds /\ k.lazy /\ k.to = at

RowsLazy(rows, pending) == \A i \in 1 .. Len(rows) : LazyTo(rows[i].kv, pending[i].offset)

\* The slots are all those of the tokens they stand for, if they were before.
Standing(F, c, e, s) == Steady(F, s, LiveWord(e, s[Last(c.path)]), c) /\ RowsLazy(c.rows, e.pending)

\* Nothing is captured yet when the offsets are scheduled.
LEMMA RowsForLazy ==
  ASSUME NEW order \in Seq(Nat), NEW pending
  PROVE  RowsLazy(RowsFor(order), pending)
  <1>1. DOMAIN order = 1 .. Len(order) /\ Len(order) \in Nat
    BY LenProperties
  <1>2. Len(RowsFor(order)) = Len(order) /\ \A i \in 1 .. Len(order) : RowsFor(order)[i] = NoSnapshots
    <2>1. RowsFor(order) = [i \in 1 .. Len(order) |-> NoSnapshots]
      BY <1>1 DEF RowsFor
    <2>2. RowsFor(order) \in [1 .. Len(order) -> {NoSnapshots}]
      BY <2>1
    <2>3. RowsFor(order) \in Seq({NoSnapshots}) /\ Len(RowsFor(order)) = Len(order)
      BY <1>1, <2>2, SeqDef, LenProperties
    <2> QED BY <2>1, <2>3
  <1>3. \A i \in 1 .. Len(order) : RowsFor(order)[i].kv = None
    BY <1>2 DEF NoSnapshots
  <1> QED BY <1>2, <1>3 DEF RowsLazy, LazyTo

\* begin.
LEMMA BeginStanding ==
  ASSUME NEW F, NEW s, Good(cache, session, s), Standing(F, cache, session, s),
         NEW inputs \in Inputs, Begin(inputs)
  PROVE  Standing(F, cache', session', s)
  <1>1. inputs \in Words /\ inputs # <<>>
    <2>1. PICK n \in 1 .. MaxInput : inputs \in [1 .. n -> Tokens]
      BY DEF Inputs
    <2>2. n \in Nat /\ n # 0
      BY PrefixCacheAssumption
    <2>3. inputs \in Seq(Tokens) /\ Len(inputs) = n
      BY <2>1, <2>2, SeqDef, LenProperties
    <2> QED BY <2>2, <2>3, EmptySeq DEF Words
  <1>2. PICK w : /\ w = BestMatch(cache.trie, inputs) /\ session.phase = "idle"
                 /\ Schedule(SwitchToPath(cache, w.path, w.matched), w.matched, inputs)
    BY Zenon DEF Begin, BestMatch
  <1>3. PICK W : W = s[Last(cache.path)]
    OBVIOUS
  <1>4. /\ Sound(cache, s) /\ Tree(cache.trie, s) /\ Level(cache)
        /\ Resting(cache, W) /\ Steady(F, s, W, cache)
    <2>1. Sound(cache, s) /\ Serving(cache, session, s[Last(cache.path)])
      BY DEF Good
    <2> QED BY <1>2, <1>3, <2>1 DEF Serving, Sound, Standing, LiveWord
  <1>5. Matched(cache.trie, s, inputs, w)
    BY <1>1, <1>2, <1>4, BestMatchIs
  <1>6. PICK m \in Nat : m = w.matched /\ m <= Len(inputs) - 1 /\ m \in 0 .. Len(inputs)
    <2>1. w.matched \in Nat /\ w.matched <= Len(inputs) - 1
      BY <1>5 DEF Matched
    <2>2. Len(inputs) \in Nat
      BY <1>1, LenProperties DEF Words
    <2> QED BY <2>1, <2>2
  <1>7. PICK M : M = SubSeq(inputs, 1, m)
    OBVIOUS
  <1>8. M \in Words /\ Len(M) = m /\ Agree(M, inputs, m) /\ Agree(inputs, M, m)
    <2>1. M \in Words /\ Len(M) = m /\ Agree(M, inputs, m)
      BY <1>1, <1>6, <1>7, FirstEntries DEF Words
    <2>2. m <= m
      BY <1>6
    <2> QED BY <1>1, <1>6, <2>1, <2>2, AgreeLess DEF Words
  <1>9. Leading(cache.trie, s, M, w.path)
    <2>1. m <= m
      BY <1>6
    <2>2. Agree(s[Last(w.path)], inputs, m)
      BY <1>5, <1>6 DEF Matched
    <2>3. Agree(s[Last(w.path)], M, m)
      BY <1>6, <1>8, <2>1, <2>2, AgreeTwice
    <2> QED BY <1>5, <1>8, <2>3 DEF Leading, Matched
  <1>10. PICK d : d = SwitchToPath(cache, w.path, m)
    OBVIOUS
  <1>11. Steady(F, s, inputs, d)
    <2>1. Agree(W, cache.rec, Len(cache.rec))
      BY <1>4 DEF Resting
    <2>2. Steady(F, s, M, d)
      BY <1>3, <1>4, <1>8, <1>9, <1>10, <2>1, SwitchToPathSteady
    <2> QED BY <1>1, <1>8, <2>2, SteadyOn
  <1>12. Good(cache', session', s)
    BY BeginIs
  <1>13. session'.phase # "panicked"
    BY <1>12 DEF Good, Serving
  <1>14. PICK order \in Seq(Nat), o \in Nat :
           /\ cache' = Rescheduled(d, RowsFor(order), o)
           /\ session'.phase = "prefill" /\ session'.inputs = inputs /\ session'.outputs = <<>>
           /\ session'.sample = None
    <2>1. PICK o \in Nat : o = MinOffset(d)
      BY <1>11, OffsetType DEF Steady
    <2>2. PICK order, asked : /\ asked = Ahead(SnapshotOffsets(inputs), o)
                              /\ order = Ascending(Offsets(inputs, o, m))
      OBVIOUS
    <2>3. order \in Seq(Nat)
      <3>1. PICK S : S = Offsets(inputs, o, m)
        OBVIOUS
      <3>2. PICK N \in Nat : N = Len(inputs) /\ m <= N
        BY <1>6, <1>1, LenProperties DEF Words
      <3>3. S \in SUBSET (1 .. N)
        BY <1>1, <3>1, <3>2, OffsetsIn
      <3>4. order \in Seq(S)
        BY <2>2, <3>1, <3>2, <3>3, AscendingIn
      <3>5. S \subseteq Nat
        BY <3>3
      <3>6. order \in [1 .. Len(order) -> Nat] /\ Len(order) \in Nat
        BY <3>4, <3>5, LenProperties
      <3> QED BY <3>6, SeqDef
    <2>4. Schedule(d, m, inputs)
      BY <1>2, <1>6, <1>10
    <2>5. \/ session' = [session EXCEPT !.phase = "panicked"]
          \/ /\ cache' = [d EXCEPT !.rows = RowsFor(order), !.base = o]
             /\ session' = [phase |-> "prefill", inputs |-> inputs, outputs |-> <<>>,
                            pending |-> MarksFor(order, asked), sample |-> None]
      <3>1. order = Ascending(asked \cup (IF o < m THEN {m} ELSE {}))
        BY <2>2 DEF Offsets
      <3> QED BY <2>1, <2>2, <2>4, <3>1, Zenon DEF Schedule, RowsFor, MarksFor, Panic
    <2>6. session' # [session EXCEPT !.phase = "panicked"]
      <3>1. session \in Sessions
        BY DEF Good
      <3> QED BY <1>13, <3>1 DEF Sessions
    <2>7. cache' = Rescheduled(d, RowsFor(order), o)
      BY <2>5, <2>6 DEF Rescheduled
    <2> QED BY <2>1, <2>3, <2>5, <2>6, <2>7
  <1>15. /\ cache'.kv = d.kv /\ cache'.trie = d.trie /\ cache'.rows = RowsFor(order)
    <2>1. d \in Caches
      BY <1>11 DEF Steady, Sound
    <2> QED BY <1>14, <2>1 DEF Rescheduled, Caches
  <1>16. LiveWord(session', s[Last(cache'.path)]) = inputs
    <2>1. inputs \o <<>> = inputs
      BY <1>1, EmptySeq, JoinedFacts DEF Words
    <2> QED BY <1>14, <2>1 DEF LiveWord, Given
  <1>17. Steady(F, s, inputs, cache')
    <2>1. Sound(cache', s)
      BY <1>12 DEF Good
    <2> QED BY <1>11, <1>15, <2>1, PathSetSteady
  <1>18. RowsLazy(cache'.rows, session'.pending)
    BY <1>14, <1>15, RowsForLazy
  <1> QED BY <1>16, <1>17, <1>18 DEF Standing

\* A slot stands for the tokens before it and one more.
LEMMA SlotGrown ==
  ASSUME NEW o \in Nat, NEW T, NEW tokens, Follows(T, o, tokens), NEW j \in 1 .. Len(tokens)
  PROVE  SubSeq(T, 1, o) \o SubSeq(tokens, 1, j) = SubSeq(T, 1, o + j) /\ o + j <= Len(T)
  <1>1. /\ tokens \in Words /\ T \in Words /\ o + Len(tokens) <= Len(T)
        /\ \A i \in 1 .. Len(tokens) : tokens[i] = T[o + i]
    BY DEF Follows
  <1>2. PICK N \in Nat, n \in Nat : N = Len(T) /\ n = Len(tokens) /\ o + n <= N
    BY <1>1, LenProperties DEF Words
  <1>3. PICK a, b, V : a = SubSeq(T, 1, o) /\ b = SubSeq(tokens, 1, j) /\ V = SubSeq(T, 1, o + j)
    OBVIOUS
  <1>4. o \in 0 .. Len(T) /\ o + j \in 0 .. Len(T) /\ j \in 0 .. Len(tokens) /\ j \in Nat /\ o + j <= N
    BY <1>2
  <1>5. /\ a \in Words /\ Len(a) = o /\ \A i \in 1 .. o : a[i] = T[i]
        /\ V \in Words /\ Len(V) = o + j /\ \A i \in 1 .. o + j : V[i] = T[i]
        /\ b \in Words /\ Len(b) = j /\ \A i \in 1 .. j : b[i] = tokens[i]
    BY <1>1, <1>3, <1>4, FirstEntries DEF Words
  <1>6. Agree(a, V, o)
    <2>1. o <= o /\ o <= o + j /\ \A i \in 1 .. o : i \in 1 .. o + j
      BY <1>4
    <2> QED BY <1>5, <2>1 DEF Agree
  <1>7. \A i \in 1 .. Len(b) : b[i] = V[o + i]
    <2>1. ASSUME NEW i \in 1 .. j PROVE b[i] = V[o + i]
      <3>1. i \in 1 .. Len(tokens) /\ o + i \in 1 .. o + j
        BY <1>2, <1>4
      <3> QED BY <1>1, <1>5, <3>1
    <2> QED BY <1>5, <2>1
  <1>8. a \o b = V
    BY <1>5, <1>6, <1>7, WholeIs
  <1> QED BY <1>2, <1>3, <1>4, <1>8

\* A write of the slots that follow.
LEMMA AppendSteady ==
  ASSUME NEW F, NEW s, NEW T, NEW c, Steady(F, s, T, c), "kv" \in Kinds,
         NEW o \in Nat, o = c.kv.off, NEW tokens, Follows(T, o, tokens),
         NEW data, data = [i \in DOMAIN tokens |-> (IF c.kv.off = 0 THEN <<>> ELSE c.kv.buf[c.kv.off])
                                                      \o SubSeq(tokens, 1, i)],
         F /\ ~c.kv.rewound => \A n \in DOMAIN c.trie : Clears(c.trie[n].kv, o, o + Len(tokens))
  PROVE  Steady(F, s, T, AppendKV(c, data))
  <1>1. Sound(c, s) /\ tokens \in Words /\ T \in Words /\ Len(tokens) \in Nat /\ o + Len(tokens) <= Len(T)
    BY LenProperties DEF Steady, Follows, Words
  <1>2. data \in Seq(Words) /\ Len(data) = Len(tokens)
    BY <1>1, SlotsWritten
  <1>3. PICK d : d = AppendKV(c, data)
    OBVIOUS
  <1>4. Sound(d, s) /\ d.kv.off = o + Len(tokens) /\ Written(c.kv.buf, o, data, d.kv.buf)
    BY <1>1, <1>2, <1>3, AppendKVSound DEF Appended
  <1>5. ASSUME F PROVE Faithful(d, s) /\ LiveOf(d.kv, T)
    <2>1. Faithful(c, s) /\ LiveOf(c.kv, T)
      BY <1>5 DEF Steady
    <2>2. Faithful(d, s)
      BY <1>1, <1>2, <1>3, <1>5, <2>1, AppendKVFaithful
    <2>3. PICK known : known = IF c.kv.off = 0 THEN <<>> ELSE c.kv.buf[c.kv.off]
      OBVIOUS
    <2>4. known = SubSeq(T, 1, o)
      <3>1. CASE o = 0
        <4>1. SubSeq(T, 1, 0) = <<>>
          <5>1. 0 \in 0 .. Len(T) /\ T \in Seq(Tokens)
            BY <1>1 DEF Words
          <5>2. SubSeq(T, 1, 0) \in Seq(Tokens) /\ Len(SubSeq(T, 1, 0)) = 0
            BY <5>1, FirstEntries
          <5> QED BY <5>2, EmptySeq
        <4> QED BY <2>3, <3>1, <4>1
      <3>2. CASE o # 0
        <4>1. o \in 1 .. c.kv.off
          BY <3>2
        <4> QED BY <2>1, <2>3, <3>2, <4>1 DEF LiveOf
      <3> QED BY <3>1, <3>2
    <2>5. ASSUME NEW i \in 1 .. d.kv.off PROVE d.kv.buf[i] = SubSeq(T, 1, i)
      <3>1. i \in Nat /\ 1 <= i /\ i <= o + Len(tokens)
        BY <1>1, <1>4
      <3>2. CASE i <= o
        <4>1. i \in 1 .. o
          BY <3>1, <3>2
        <4>2. d.kv.buf[i] = c.kv.buf[i]
          BY <1>4, <4>1 DEF Written
        <4> QED BY <2>1, <4>1, <4>2 DEF LiveOf
      <3>3. CASE i > o
        <4>1. PICK j \in 1 .. Len(tokens) : i = o + j
          <5>1. i - o \in 1 .. Len(tokens) /\ i = o + (i - o)
            BY <1>1, <3>1, <3>3
          <5> QED BY <5>1
        <4>2. d.kv.buf[o + j] = data[j]
          BY <1>2, <1>4, <4>1 DEF Written
        <4>3. j \in DOMAIN tokens
          BY <1>1, <4>1, LenProperties DEF Words
        <4>4. data[j] = known \o SubSeq(tokens, 1, j)
          BY <2>3, <4>3
        <4>5. SubSeq(T, 1, o) \o SubSeq(tokens, 1, j) = SubSeq(T, 1, o + j)
          BY <4>1, SlotGrown
        <4> QED BY <2>4, <4>1, <4>2, <4>4, <4>5
      <3> QED BY <3>1, <3>2, <3>3
    <2> QED BY <1>1, <1>4, <2>2, <2>5 DEF LiveOf
  <1> QED BY <1>3, <1>4, <1>5 DEF Steady, Clear

\* forward: the slots are written, and the offsets that are crossed captured.
LEMMA ForwardSteady ==
  ASSUME NEW F, NEW s, NEW T, NEW c, Steady(F, s, T, c), NEW o \in Nat, AllAt(c, o),
         NEW tokens, Follows(T, o, tokens), RowsLazy(c.rows, session.pending),
         NEW f, f = Forward(c, tokens), Sound(f, s),
         F /\ ~c.kv.rewound => \A n \in DOMAIN c.trie : Clears(c.trie[n].kv, c.kv.off, f.kv.off)
  PROVE  Steady(F, s, T, f) /\ RowsLazy(f.rows, session.pending)
  <1>1. Sound(c, s) /\ tokens \in Words /\ MinOffset(c) = o /\ c.rows \in Seq(Snaps) /\ f.rows \in Seq(Snaps)
    <2>1. Sound(c, s) /\ tokens \in Words
      BY DEF Steady, Follows
    <2> QED BY <2>1, AllAtMin DEF Sound, Caches
  <1>2. PICK data : data = [i \in DOMAIN tokens |-> (IF c.kv.off = 0 THEN <<>> ELSE c.kv.buf[c.kv.off])
                                                      \o SubSeq(tokens, 1, i)]
    OBVIOUS
  <1>3. PICK d : d = IF "kv" \in Kinds THEN AppendKV(c, data) ELSE c
    OBVIOUS
  <1>4. Fed(c, s, o, Len(tokens), d)
    BY <1>1, <1>2, <1>3, FedIs
  <1>5. PICK rec, end : /\ rec = IF "rec" \in Kinds THEN c.rec \o tokens ELSE c.rec
                        /\ end = o + Len(tokens)
    OBVIOUS
  <1>6. f = [d EXCEPT !.rec = rec, !.rows = Crossed(d, c, rec, session.pending, o, end)]
    BY <1>1, <1>2, <1>3, <1>5, Zenon DEF Forward, Crossed, Captured
  <1>7. d \in Caches
    BY <1>4 DEF Fed, Sound
  <1>8. f.kv = d.kv /\ f.trie = d.trie /\ f.rows = Crossed(d, c, rec, session.pending, o, end)
    BY <1>6, <1>7 DEF Caches
  <1>9. Steady(F, s, T, f)
    <2>1. CASE "kv" \in Kinds
      <3>1. o = c.kv.off /\ f.kv.off = o + Len(tokens)
        BY <1>4, <1>8, <2>1 DEF AllAt, Offset, Fed
      <3>2. Steady(F, s, T, d)
        BY <1>2, <1>3, <2>1, <3>1, AppendSteady
      <3> QED BY <1>8, <3>2, PathSetSteady
    <2>2. CASE "kv" \notin Kinds
      <3>1. Steady(F, s, T, d)
        BY <1>3, <2>2
      <3> QED BY <1>8, <3>1, PathSetSteady
    <2> QED BY <2>1, <2>2
  <1>10. DOMAIN f.rows = DOMAIN c.rows /\ DOMAIN f.rows = 1 .. Len(f.rows) /\ DOMAIN c.rows = 1 .. Len(c.rows)
    <2>1. DOMAIN f.rows = DOMAIN c.rows
      BY <1>8 DEF Crossed
    <2> QED BY <1>1, <2>1, LenProperties
  <1>11. ASSUME NEW i \in 1 .. Len(f.rows), f.rows[i].kv # None
         PROVE  "kv" \in Kinds /\ f.rows[i].kv.lazy /\ f.rows[i].kv.to = session.pending[i].offset
    <2>1. i \in DOMAIN c.rows /\ i \in 1 .. Len(c.rows)
      BY <1>10
    <2>2. PICK from, at : at = session.pending[i].offset /\
            f.rows[i] = IF at > o /\ at <= end THEN Captured(d, rec, from, at) ELSE c.rows[i]
      <3>1. PICK from, at : /\ at = session.pending[i].offset
                            /\ from = IF i = 1 THEN c.base ELSE session.pending[i - 1].offset
        OBVIOUS
      <3>2. Crossed(d, c, rec, session.pending, o, end)[i]
              = IF at > o /\ at <= end THEN Captured(d, rec, from, at) ELSE c.rows[i]
        BY <2>1, <3>1, Zenon DEF Crossed
      <3> QED BY <1>8, <3>1, <3>2
    <2>3. CASE at > o /\ at <= end
      <3>1. f.rows[i].kv = IF "kv" \in Kinds THEN SnapshotKV(d, from, at) ELSE None
        BY <2>2, <2>3 DEF Captured
      <3>2. f.rows[i].kv = Lazy(from, at) /\ "kv" \in Kinds
        BY <1>11, <3>1, Zenon DEF SnapshotKV
      <3>3. Lazy(from, at).lazy = TRUE /\ Lazy(from, at).to = at
        BY DEF Lazy
      <3> QED BY <2>2, <3>2, <3>3
    <2>4. CASE ~(at > o /\ at <= end)
      <3>1. f.rows[i] = c.rows[i]
        BY <2>2, <2>4
      <3> QED BY <1>11, <2>1, <3>1 DEF RowsLazy, LazyTo
    <2> QED BY <2>3, <2>4
  <1> QED BY <1>9, <1>11 DEF RowsLazy, LazyTo

\* A step that does not overrun writes over no lazy snapshot unless the first write
\* since a rewind looks for those in its way.
LEMMA NotOverrun ==
  ASSUME NEW s, NEW r, Sound(cache, s), Sound(cache', r), session.phase # "idle", ~Overruns, ~cache.kv.rewound,
         NEW n \in DOMAIN cache.trie
  PROVE  Clears(cache.trie[n].kv, cache.kv.off, cache'.kv.off)
  <1>1. PICK k : k = cache.trie[n].kv
    OBVIOUS
  <1>2. ~(k # None /\ k.lazy /\ k.from < cache'.kv.off /\ k.to > cache.kv.off)
    BY <1>1 DEF Overruns
  <1>3. k \in KVSnaps /\ cache.kv.off \in Nat /\ cache'.kv.off \in Nat
    <2>1. Tree(cache.trie, s)
      BY DEF Sound
    <2> QED BY <1>1, <2>1, NodeBytes, OffsetType
  <1>4. k # None => k.from \in Nat /\ k.to \in Nat
    BY <1>3 DEF KVSnaps
  <1> QED BY <1>1, <1>2, <1>3, <1>4 DEF Clears

\* What stands in the caches before and after a forward of tokens of T.
LEMMA ForwardStanding ==
  ASSUME NEW F, F => ~Overruns, NEW s, Good(cache, session, s), Standing(F, cache, session, s),
         session.phase # "idle", NEW T, NEW o \in Nat, AllAt(cache, o), NEW tokens, Follows(T, o, tokens),
         LiveWord(session, s[Last(cache.path)]) = T,
         cache' = Forward(cache, tokens), Good(cache', session', s), session'.pending = session.pending,
         NEW N \in Words, Agree(N, T, Len(T)), LiveWord(session', s[Last(cache'.path)]) = N
  PROVE  Standing(F, cache', session', s)
  <1>1. PICK f : f = cache'
    OBVIOUS
  <1>2. Steady(F, s, T, cache) /\ RowsLazy(cache.rows, session.pending) /\ Sound(cache, s) /\ Sound(f, s) /\ T \in Words
    BY <1>1 DEF Standing, Good, Follows
  <1>3. ASSUME F, ~cache.kv.rewound
        PROVE  \A n \in DOMAIN cache.trie : Clears(cache.trie[n].kv, cache.kv.off, f.kv.off)
    BY <1>1, <1>2, <1>3, NotOverrun
  <1>4. Steady(F, s, T, f) /\ RowsLazy(f.rows, session.pending)
    BY <1>1, <1>2, <1>3, ForwardSteady
  <1>5. Steady(F, s, N, f)
    BY <1>2, <1>4, SteadyOn
  <1> QED BY <1>1, <1>4, <1>5 DEF Standing

\* A chunk of the prompt.
LEMMA PrefillStanding ==
  ASSUME NEW F, F => ~Overruns, NEW s, Good(cache, session, s), Standing(F, cache, session, s), Prefill
  PROVE  Standing(F, cache', session', s)
  <1>1. PICK o \in Nat : AllAt(cache, o) /\ MinOffset(cache) = o
    BY ServedAt
  <1>2. PICK e, T : e = session /\ T = session.inputs
    OBVIOUS
  <1>3. Filling(cache, e, s[Last(cache.path)]) /\ e.phase = "prefill"
    <2>1. session.phase = "prefill"
      BY DEF Prefill
    <2> QED BY <1>2, <2>1 DEF Good, Serving
  <1>4. T \in Words /\ e.outputs = <<>> /\ e.sample = None /\ Len(T) \in Nat
    BY <1>2, <1>3, FillingIs
  <1>5. PICK N \in Nat : N = Len(T) /\ N - o > 1
    BY <1>1, <1>2, <1>4 DEF Prefill, Left
  <1>6. PICK k \in Nat : k = Min({ChunkSize, Left - 1}) /\ o + k <= N - 1
    <2>1. PICK a \in Nat, b \in Nat : a = ChunkSize /\ b = Left - 1 /\ b = N - o - 1
      <3>1. ChunkSize \in Nat
        BY PrefixCacheAssumption
      <3>2. Left - 1 = N - o - 1
        BY <1>1, <1>2, <1>5 DEF Left
      <3>3. N - o - 1 \in Nat
        BY <1>5
      <3> QED BY <3>1, <3>2, <3>3
    <2>2. Min({a, b}) = IF a <= b THEN a ELSE b
      BY MinTwo
    <2>3. Min({a, b}) \in Nat /\ o + Min({a, b}) <= N - 1
      BY <1>5, <2>1, <2>2
    <2> QED BY <2>1, <2>3
  <1>7. PICK tokens : tokens = SubSeq(T, o + 1, o + k)
    OBVIOUS
  <1>8. Follows(T, o, tokens)
    <2>1. o \in 0 .. Len(T) /\ o + k \in o .. Len(T) /\ T \in Seq(Tokens)
      BY <1>4, <1>5, <1>6 DEF Words
    <2>2. tokens \in Seq(Tokens) /\ Len(tokens) = (o + k) - o /\ \A i \in 1 .. (o + k) - o : tokens[i] = T[o + i]
      BY <1>7, <2>1, LastEntries
    <2>3. (o + k) - o = k /\ o + k <= Len(T)
      BY <1>5, <1>6
    <2> QED BY <1>4, <2>2, <2>3 DEF Follows, Words
  <1>9. cache' = Forward(cache, tokens) /\ session' = session
    BY <1>1, <1>2, <1>6, <1>7 DEF Prefill
  <1>10. Given(session) = T
    BY <1>2, <1>4, EmptySeq, JoinedFacts DEF Given, Words
  <1>11. \A w : LiveWord(session, w) = T
    BY <1>2, <1>3, <1>4, <1>10 DEF LiveWord
  <1>12. Agree(T, T, Len(T)) /\ session.phase # "idle"
    BY <1>2, <1>3, <1>4, AgreeSelf
  <1>13. Good(cache', session', s)
    BY PrefillIs
  <1> QED BY <1>1, <1>4, <1>8, <1>9, <1>11, <1>12, <1>13, ForwardStanding

\* The last token of the prompt.
LEMMA SeedStanding ==
  ASSUME NEW F, F => ~Overruns, NEW s, Good(cache, session, s), Standing(F, cache, session, s),
         NEW sample \in Tokens, Seed(sample)
  PROVE  Standing(F, cache', session', s)
  <1>1. PICK o \in Nat : AllAt(cache, o) /\ MinOffset(cache) = o
    BY ServedAt
  <1>2. PICK e, T : e = session /\ T = session.inputs
    OBVIOUS
  <1>3. /\ Filling(cache, e, s[Last(cache.path)]) /\ e.phase \in {"prefill", "attach"} /\ e \in Sessions
        /\ e.pending = <<>>
    <2>1. session.phase \in {"prefill", "attach"} /\ session.pending = <<>>
      BY DEF Seed
    <2> QED BY <1>2, <2>1 DEF Good, Serving
  <1>4. T \in Words /\ T # <<>> /\ e.outputs = <<>> /\ e.sample = None /\ Len(T) \in Nat
    BY <1>2, <1>3, FillingIs
  <1>5. Len(T) = o + 1
    BY <1>1, <1>2, <1>4 DEF Seed, Left
  <1>6. PICK x \in Tokens : x = Last(T) /\ x = T[o + 1]
    <2>1. o + 1 \in 1 .. Len(T)
      BY <1>5
    <2>2. T[o + 1] \in Tokens
      BY <1>4, <2>1, LenProperties DEF Words
    <2> QED BY <1>5, <2>2 DEF Last
  <1>7. Follows(T, o, <<x>>)
    BY <1>4, <1>5, <1>6, OneToken
  <1>8. cache' = Forward(cache, <<x>>) /\ session' = [session EXCEPT !.phase = "decode", !.sample = sample]
    BY <1>2, <1>6 DEF Seed
  <1>9. /\ session'.phase = "decode" /\ session'.inputs = T /\ session'.outputs = <<>>
        /\ session'.sample = sample /\ session'.pending = session.pending
    BY <1>2, <1>3, <1>4, <1>8 DEF Sessions
  <1>10. Given(session) = T /\ Given(session') = T
    BY <1>2, <1>4, <1>9, EmptySeq, JoinedFacts DEF Given, Words
  <1>11. PICK N : N = Append(T, sample)
    OBVIOUS
  <1>12. N \in Words /\ Agree(N, T, Len(T))
    <2>1. PICK n \in Nat : n = Len(T)
      BY <1>4
    <2>2. N \in Words /\ Len(N) = n + 1 /\ \A i \in 1 .. n : N[i] = T[i]
      BY <1>4, <1>11, <2>1, AppendFacts DEF Words
    <2> QED BY <2>1, <2>2 DEF Agree
  <1>13. \A w : LiveWord(session, w) = T
    BY <1>2, <1>3, <1>4, <1>10 DEF LiveWord
  <1>14. sample # None
    BY PrefixCacheAssumption
  <1>15. \A w : LiveWord(session', w) = N
    BY <1>9, <1>10, <1>11, <1>14 DEF LiveWord
  <1>16. Good(cache', session', s) /\ session.phase # "idle"
    BY <1>2, <1>3, SeedIs
  <1> QED BY <1>1, <1>7, <1>8, <1>9, <1>12, <1>13, <1>15, <1>16, ForwardStanding

\* A turn of decode.
LEMMA DecodeStanding ==
  ASSUME NEW F, F => ~Overruns, NEW s, Good(cache, session, s), Standing(F, cache, session, s),
         NEW sample \in Tokens, Decode(sample)
  PROVE  Standing(F, cache', session', s)
  <1>1. PICK o \in Nat : AllAt(cache, o) /\ MinOffset(cache) = o
    BY ServedAt
  <1>2. PICK e : e = session
    OBVIOUS
  <1>3. e \in Sessions /\ e.phase = "decode" /\ Decoding(cache, e, s[Last(cache.path)])
    <2>1. session.phase = "decode"
      BY DEF Decode
    <2> QED BY <1>2, <2>1 DEF Good, Serving
  <1>4. PICK a, x, b, T : a = Given(e) /\ x = e.sample /\ b = Append(e.outputs, x) /\ T = e.inputs \o b
    OBVIOUS
  <1>5. e.inputs \in Words /\ e.outputs \in Words /\ x \in Tokens /\ o = Len(a)
    BY <1>1, <1>2, <1>3, <1>4 DEF Decoding
  <1>6. T \in Words /\ Len(T) = o + 1 /\ T[o + 1] = x /\ T = Append(a, x)
    BY <1>4, <1>5, GivenMore, ZenonT(60) DEF Given
  <1>7. Follows(T, o, <<x>>)
    BY <1>5, <1>6, OneToken
  <1>8. cache' = Forward(cache, <<x>>) /\ session' = [e EXCEPT !.outputs = b, !.sample = sample]
    BY <1>2, <1>4 DEF Decode
  <1>9. /\ session'.phase = "decode" /\ session'.inputs = e.inputs /\ session'.outputs = b
        /\ session'.sample = sample /\ session'.pending = session.pending
    BY <1>2, <1>3, <1>8 DEF Sessions
  <1>10. Given(session') = T
    BY <1>4, <1>9 DEF Given
  <1>11. PICK N : N = Append(T, sample)
    OBVIOUS
  <1>12. N \in Words /\ Agree(N, T, Len(T))
    <2>1. PICK n \in Nat : n = Len(T)
      BY <1>6, LenProperties DEF Words
    <2>2. N \in Words /\ Len(N) = n + 1 /\ \A i \in 1 .. n : N[i] = T[i]
      BY <1>6, <1>11, <2>1, AppendFacts DEF Words
    <2> QED BY <2>1, <2>2 DEF Agree
  <1>13. sample # None /\ x # None
    BY <1>5, PrefixCacheAssumption
  <1>14. \A w : LiveWord(session, w) = T
    BY <1>2, <1>3, <1>4, <1>6, <1>13 DEF LiveWord
  <1>15. \A w : LiveWord(session', w) = N
    BY <1>9, <1>10, <1>11, <1>13 DEF LiveWord
  <1>16. Good(cache', session', s) /\ session.phase # "idle"
    BY <1>2, <1>3, DecodeIs
  <1> QED BY <1>1, <1>7, <1>8, <1>9, <1>12, <1>14, <1>15, <1>16, ForwardStanding

\* The first of the captures, and the others.
LEMMA RowsLeft ==
  ASSUME NEW rows \in Seq(Snaps), NEW pending \in Seq(Marks), rows # <<>>, pending # <<>>,
         Len(rows) = Len(pending), RowsLazy(rows, pending)
  PROVE  RowsLazy(Tail(rows), Tail(pending)) /\ LazyTo(Head(rows).kv, Head(pending).offset)
  <1>1. PICK N \in Nat : N = Len(rows) /\ N = Len(pending) /\ N >= 1
    <2>1. Len(rows) \in Nat /\ Len(rows) # 0
      BY LenProperties, EmptySeq
    <2> QED BY <2>1
  <1>2. PICK q, m : q = Tail(rows) /\ m = Tail(pending)
    OBVIOUS
  <1>3. /\ Len(q) = N - 1 /\ \A i \in 1 .. N - 1 : q[i] = rows[i + 1]
        /\ \A i \in 1 .. N - 1 : m[i] = pending[i + 1]
    BY <1>1, <1>2, HeadTailProperties
  <1>4. \A i \in 1 .. N : LazyTo(rows[i].kv, pending[i].offset)
    BY <1>1 DEF RowsLazy
  <1>5. ASSUME NEW i \in 1 .. Len(q) PROVE LazyTo(q[i].kv, m[i].offset)
    <2>1. PICK j \in 1 .. N : j = i + 1 /\ i \in 1 .. N - 1
      <3>1. i + 1 \in 1 .. N /\ i \in 1 .. N - 1
        BY <1>1, <1>3
      <3> QED BY <3>1
    <2>2. q[i] = rows[j] /\ m[i] = pending[j]
      BY <1>3, <2>1
    <2> QED BY <1>4, <2>2
  <1>6. Head(rows) = rows[1] /\ Head(pending) = pending[1] /\ 1 \in 1 .. N
    BY <1>1, HeadTailProperties
  <1> QED BY <1>2, <1>4, <1>5, <1>6 DEF RowsLazy

\* The path is led on, and the slots stay those of their tokens.
LEMMA LedToSteady ==
  ASSUME NEW F, NEW b, NEW s, NEW T \in Words, Steady(F, s, T, b),
         Agree(T, s[Last(b.path)], Len(s[Last(b.path)])),
         NEW at \in Nat, at <= Len(T), NEW end, end = b.trie[Last(b.path)].end,
         NEW c, c = IF end < at THEN AdvancePath(b, SubSeq(T, end + 1, at), at) ELSE b
  PROVE  \E r : LedTo(b, s, T, at, c, r) /\ Steady(F, r, T, c)
  <1>1. Sound(b, s)
    BY DEF Steady
  <1>2. CASE end < at
    <2>1. Remains(b, s, T, end, at)
      BY <1>2 DEF Remains
    <2>2. PICK U : c = AdvancePath(b, SubSeq(T, end + 1, at), at) /\ U = SubSeq(T, 1, at)
      BY <1>2
    <2>3. PICK r : Grown(b, s, c, r, U)
      BY <1>1, <2>1, <2>2, StoredOnward
    <2>4. U \in Words /\ Len(U) = at /\ Agree(U, T, at)
      <3>1. at \in 0 .. Len(T)
        BY LenProperties DEF Words
      <3> QED BY <2>2, <3>1, FirstEntries DEF Words
    <2>5. Agree(T, U, at) /\ at <= at
      BY <2>4, AgreeLess DEF Words
    <2>6. LedTo(b, s, T, at, c, r)
      BY <2>3, <2>4, <2>5 DEF Grown, LedTo
    <2>7. Sound(c, r) /\ c.kv = b.kv /\ (Faithful(b, s) => Faithful(c, r))
      BY <2>3 DEF Grown, Apart, Bears
    <2>8. Steady(F, r, T, c)
      BY <2>7 DEF Steady, Clear
    <2> QED BY <2>6, <2>8
  <1>3. CASE ~(end < at)
    <2>1. c = b
      BY <1>3
    <2>2. Tree(b.trie, s) /\ Last(b.path) \in DOMAIN b.trie
      BY <1>1, WalkFacts DEF Sound
    <2>3. PICK w \in Words : w = s[Last(b.path)] /\ Len(w) = end /\ end \in Nat
      BY <2>2, TreeFacts
    <2>4. at <= Len(w)
      BY <1>3, <2>3
    <2>5. LedTo(b, s, T, at, b, s)
      BY <1>1, <2>3, <2>4 DEF LedTo, Apart
    <2> QED BY <2>1, <2>5
  <1> QED BY <1>2, <1>3

\* A node may be marked.
LEMMA WithUserSteady ==
  ASSUME NEW F, NEW s, NEW M, NEW c, Steady(F, s, M, c), NEW n \in DOMAIN c.trie, NEW user \in BOOLEAN
  PROVE  Steady(F, s, M, WithUser(c, n, user))
  <1>1. PICK d : d = WithUser(c, n, user)
    OBVIOUS
  <1>2. Sound(c, s) /\ c \in Caches /\ Tree(c.trie, s)
    BY DEF Steady, Sound
  <1>3. Sound(d, s) /\ d.kv = c.kv /\ DOMAIN d.trie = DOMAIN c.trie
    BY <1>1, <1>2, WithUserSound DEF Apart
  <1>4. \A m \in DOMAIN c.trie : d.trie[m].kv = c.trie[m].kv
    <2>1. PICK t : t = c.trie
      OBVIOUS
    <2>2. d.trie = [t EXCEPT ![n].user = @ \/ user]
      BY <1>1, <1>2, <2>1 DEF WithUser, Caches
    <2>3. t[n] \in Node /\ n \in DOMAIN t
      BY <1>2, <2>1, TreeFacts
    <2>4. [t[n] EXCEPT !.user = @ \/ user].kv = t[n].kv
      BY <2>3 DEF Node
    <2>5. d.trie[n] = [t[n] EXCEPT !.user = @ \/ user] /\ \A m \in DOMAIN t \ {n} : d.trie[m] = t[m]
      BY <2>2, <2>3
    <2> QED BY <2>1, <2>4, <2>5
  <1>5. Faithful(c, s) => Faithful(d, s)
    BY <1>3, <1>4 DEF Faithful
  <1> QED BY <1>1, <1>3, <1>5 DEF Steady, Clear

\* What the nodes of a trie spell is one.
LEMMA SpelledOnce ==
  ASSUME NEW c, NEW s, Sound(c, s), NEW r, Sound(c, r)
  PROVE  r = s
  <1>1. PICK t : t = c.trie /\ Tree(t, s) /\ Tree(t, r)
    BY DEF Sound
  <1>2. \A n \in DOMAIN t : r[n] = s[n]
    BY <1>1, SpelledIs
  <1>3. r \in [DOMAIN t -> Words] /\ s \in [DOMAIN t -> Words]
    BY <1>1 DEF Tree
  <1> QED BY <1>2, <1>3

\* A capture of what is live is attached to a node that spells as much of it.
LEMMA AttachedSteady ==
  ASSUME NEW F, NEW b, NEW s, NEW T \in Words, NEW at \in Nat, NEW c, NEW r, LedTo(b, s, T, at, c, r),
         Steady(F, r, T, c), NEW row \in Snaps, RowFits(row, Len(b.kv.buf), T, at), LazyTo(row.kv, at),
         "kv" \in Kinds => at <= b.kv.off, NEW user \in BOOLEAN, NEW to, to = Last(c.path)
  PROVE  Steady(F, r, T, SetSnapshots(WithUser(c, to, user), to, row))
  <1>1. Sound(c, r) /\ c.kv = b.kv
    BY DEF LedTo, Apart
  <1>2. PICK w \in Words : w = r[to] /\ at <= Len(w) /\ Agree(T, w, Len(w))
    BY DEF LedTo
  <1>3. to \in DOMAIN c.trie
    BY <1>1, WalkFacts DEF Sound
  <1>4. PICK g : g = WithUser(c, to, user)
    OBVIOUS
  <1>5. Steady(F, r, T, g) /\ g.kv = c.kv /\ to \in DOMAIN g.trie
    BY <1>1, <1>3, <1>4, WithUserSteady, WithUserSound DEF Apart
  <1>6. row.kv \in KVSnaps /\ row.rec \in RecSnaps /\ Fits(row.kv, Len(g.kv.buf))
    BY <1>1, <1>5 DEF Snaps, RowFits
  <1>7. PICK m \in Nat : m = Len(w)
    BY LenProperties DEF Words
  <1>8. RecOf(row.rec, r[to])
    <2>1. ASSUME row.rec # None PROVE Agree(w, row.rec, Len(row.rec))
      <3>1. PICK q \in Words : q = row.rec /\ Agree(T, q, Len(q)) /\ Len(q) <= at
        BY <1>6, <2>1 DEF RecSnaps, RowFits, RecOf
      <3>2. PICK k \in Nat : k = Len(q) /\ k <= m /\ m <= m
        <4>1. Len(q) \in Nat
          BY LenProperties DEF Words
        <4> QED BY <1>2, <1>7, <3>1, <4>1
      <3>3. Agree(w, T, m)
        BY <1>2, <1>7, <3>2, AgreeLess DEF Words
      <3>4. Agree(w, q, k)
        BY <3>1, <3>2, <3>3, AgreeTwice
      <3> QED BY <3>1, <3>2, <3>4
    <2> QED BY <1>2, <2>1 DEF RecOf
  <1>9. ASSUME F PROVE Holding(g.kv.buf, row.kv, w)
    <2>1. CASE row.kv = None
      BY <2>1 DEF Holding
    <2>2. CASE row.kv # None
      <3>1. PICK k : k = row.kv
        OBVIOUS
      <3>2. k.lazy /\ k.to = at /\ k.from \in Nat /\ at <= g.kv.off /\ LiveOf(g.kv, T)
        BY <1>1, <1>5, <1>6, <1>9, <2>2, <3>1 DEF LazyTo, KVSnaps, Steady
      <3>3. g.kv.off \in Nat
        BY <1>5, OffsetType DEF Steady
      <3>4. ASSUME NEW i \in k.from + 1 .. k.to
            PROVE  i <= Len(w) /\ SlotOf(g.kv.buf, k, i) = SubSeq(w, 1, i)
        <4>1. i \in Nat /\ i \in 1 .. g.kv.off /\ i \in 0 .. m
          BY <1>2, <1>7, <3>2, <3>3
        <4>2. SlotOf(g.kv.buf, k, i) = SubSeq(T, 1, i)
          BY <3>2, <4>1 DEF SlotOf, LiveOf
        <4>3. SubSeq(T, 1, i) = SubSeq(w, 1, i)
          BY <1>2, <1>7, <4>1, AgreeFirst DEF Words
        <4> QED BY <1>7, <4>1, <4>2, <4>3
      <3> QED BY <3>1, <3>2, <3>4 DEF Holding
    <2> QED BY <2>1, <2>2
  <1> QED BY <1>2, <1>4, <1>5, <1>6, <1>8, <1>9, SnapshotsSteady

\* A capture that was reached is attached, others are dropped.
LEMMA AttachStanding ==
  ASSUME NEW F, NEW s, Good(cache, session, s), Standing(F, cache, session, s), Attach
  PROVE  \E r : Standing(F, cache', session', r)
  <1>1. /\ session.phase \in {"prefill", "attach"} /\ Left = 1 /\ session.pending # <<>>
        /\ session' = [session EXCEPT !.pending = Tail(session.pending), !.phase = "attach"]
    BY DEF Attach
  <1>2. PICK o \in Nat : AllAt(cache, o) /\ MinOffset(cache) = o
    BY ServedAt
  <1>3. Sound(cache, s) /\ Filling(cache, session, s[Last(cache.path)]) /\ session \in Sessions
    BY <1>1 DEF Good, Serving
  <1>4. PICK T, m, q : T = session.inputs /\ m = session.pending /\ q = cache.rows
    OBVIOUS
  <1>5. /\ T \in Words /\ session.outputs = <<>> /\ session.sample = None /\ Len(T) \in Nat /\ m \in Seq(Marks)
        /\ RowsOK(q, m, T, Len(cache.kv.buf)) /\ Agree(T, s[Last(cache.path)], Len(s[Last(cache.path)]))
    BY <1>3, <1>4, FillingIs
  <1>6. q \in Seq(Snaps) /\ cache.base \in Nat
    BY <1>3, <1>4 DEF Sound, Caches
  <1>7. /\ Tail(q) \in Seq(Snaps) /\ Head(q) \in Snaps /\ Head(m) \in Marks
        /\ RowFits(Head(q), Len(cache.kv.buf), T, Head(m).offset)
    BY <1>1, <1>4, <1>5, <1>6, FirstRow
  <1>8. PICK rest : rest = Rescheduled(cache, Tail(q), cache.base)
    OBVIOUS
  <1>9. /\ Sound(rest, s) /\ rest.path = cache.path /\ rest.kv = cache.kv /\ rest.trie = cache.trie
        /\ rest.rows = Tail(q)
    <2>1. PICK t \in Seq(Snaps), base \in Nat : t = Tail(q) /\ base = cache.base
      BY <1>6, <1>7
    <2>2. Sound(cache, s) /\ rest = Rescheduled(cache, t, base)
      BY <1>3, <1>8, <2>1
    <2>3. Sound(rest, s) /\ rest.path = cache.path /\ rest.kv = cache.kv /\ rest.trie = cache.trie /\ rest.rows = t
      BY <2>2, RowsSet
    <2> QED BY <2>1, <2>3
  <1>10. rest = [cache EXCEPT !.rows = Tail(cache.rows)]
    <2>1. cache \in Caches
      BY <1>3 DEF Sound
    <2> QED BY <1>4, <1>8, <2>1 DEF Rescheduled, Caches
  <1>11. Stored = T /\ Given(session) = T
    BY <1>4, <1>5, EmptySeq, JoinedFacts DEF Stored, Given, Words
  <1>12. PICK p, row, end : p = Head(m) /\ row = Head(q) /\ end = cache.trie[Last(cache.path)].end
    OBVIOUS
  <1>13. p.offset \in Nat /\ p.user \in BOOLEAN
    BY <1>7, <1>12 DEF Marks
  <1>14. Steady(F, s, T, rest) /\ RowsLazy(q, m)
    <2>1. LiveWord(session, s[Last(cache.path)]) = T
      BY <1>1, <1>5, <1>11 DEF LiveWord
    <2>2. Steady(F, s, T, cache) /\ RowsLazy(q, m)
      BY <1>4, <2>1 DEF Standing
    <2> QED BY <1>9, <2>2, PathSetSteady
  <1>15. RowsLazy(Tail(q), Tail(m)) /\ LazyTo(row.kv, p.offset)
    <2>1. Len(q) = Len(m)
      BY <1>5 DEF RowsOK
    <2>2. q # <<>>
      BY <1>1, <1>4, <1>5, <1>6, <2>1, EmptySeq
    <2> QED BY <1>1, <1>4, <1>5, <1>6, <1>12, <1>14, <2>1, <2>2, RowsLeft
  <1>16. ASSUME NEW d, NEW r, cache' = d, Steady(F, r, T, d), d.rows = Tail(q)
         PROVE  Standing(F, cache', session', r)
    <2>1. PICK e : e = session'
      OBVIOUS
    <2>2. e.phase = "attach" /\ e.inputs = T /\ e.outputs = <<>> /\ e.sample = None /\ e.pending = Tail(m)
      BY <1>1, <1>3, <1>4, <1>5, <2>1 DEF Sessions
    <2>3. Given(e) = T
      BY <1>5, <2>2, EmptySeq, JoinedFacts DEF Given, Words
    <2>4. LiveWord(e, r[Last(d.path)]) = T
      BY <2>2, <2>3 DEF LiveWord
    <2> QED BY <1>15, <1>16, <2>1, <2>2, <2>4 DEF Standing
  <1>17. CASE p.offset > MinOffset(cache)
    <2>1. cache' = rest
      BY <1>4, <1>10, <1>12, <1>17 DEF Attach
    <2> QED BY <1>9, <1>14, <1>16, <2>1
  <1>18. CASE ~(p.offset > MinOffset(cache))
    <2>1. PICK at \in Nat, user \in BOOLEAN : at = p.offset /\ user = p.user
      BY <1>13
    <2>2. PICK c : c = IF end < at THEN AdvancePath(rest, SubSeq(T, end + 1, at), at) ELSE rest
      OBVIOUS
    <2>3. PICK to : to = Last(c.path)
      OBVIOUS
    <2>4. PICK d : d = SetSnapshots(WithUser(c, to, user), to, row)
      OBVIOUS
    <2>5. cache' = d
      <3>1. c = IF end < p.offset THEN AdvancePath(rest, SubSeq(Stored, end + 1, p.offset), p.offset) ELSE rest
        BY <1>11, <2>1, <2>2
      <3>2. d = SetSnapshots([c EXCEPT !.trie[to].user = @ \/ p.user], to, row)
        BY <2>1, <2>4 DEF WithUser
      <3> QED BY <1>4, <1>10, <1>12, <1>18, <2>3, <3>1, <3>2, Zenon DEF Attach
    <2>6. at <= o /\ at <= Len(T)
      <3>1. Len(T) - o = 1
        BY <1>1, <1>2, <1>4 DEF Left
      <3>2. at <= o
        BY <1>2, <1>18, <2>1
      <3> QED BY <1>5, <3>1, <3>2
    <2>7. PICK r : LedTo(rest, s, T, at, c, r) /\ Steady(F, r, T, c)
      <3>1. end = rest.trie[Last(rest.path)].end /\ Agree(T, s[Last(rest.path)], Len(s[Last(rest.path)])) /\ T \in Words
        BY <1>5, <1>9, <1>12
      <3> QED BY <1>14, <2>2, <2>6, <3>1, LedToSteady
    <2>8. row \in Snaps /\ RowFits(row, Len(rest.kv.buf), T, at) /\ LazyTo(row.kv, at)
      BY <1>7, <1>9, <1>12, <1>15, <2>1
    <2>9. "kv" \in Kinds => at <= rest.kv.off
      BY <1>2, <1>9, <2>6 DEF AllAt, Offset
    <2>10. Steady(F, r, T, d)
      BY <1>5, <2>3, <2>4, <2>7, <2>8, <2>9, AttachedSteady
    <2>11. d.rows = Tail(q)
      <3>1. AttachedTo(rest, T, d, r)
        BY <1>5, <2>3, <2>4, <2>7, <2>8, AttachedIs
      <3> QED BY <1>9, <3>1 DEF AttachedTo, Apart
    <2> QED BY <1>16, <2>5, <2>10, <2>11
  <1> QED BY <1>17, <1>18

\* close: the path leads on to where the caches end.
LEMMA ClosedSteady ==
  ASSUME NEW F, NEW c, NEW s, NEW T, Steady(F, s, T, c), NEW o \in Nat, AllAt(c, o), o <= Len(T),
         Has(c, s[Last(c.path)], T), NEW end, end = c.trie[Last(c.path)].end,
         NEW d, d = IF o > end THEN AdvancePath(c, SubSeq(T, end + 1, o), o) ELSE c
  PROVE  \E r : Steady(F, r, r[Last(d.path)], d) /\ d.rows = c.rows
  <1>1. Sound(c, s) /\ Clear(c) /\ T \in Words /\ c.kv.off \in Nat
    BY OffsetType DEF Steady, Has
  <1>2. PICK w \in Words : w = s[Last(c.path)] /\ Len(w) = end /\ end \in Nat
    <2>1. Tree(c.trie, s) /\ Last(c.path) \in DOMAIN c.trie
      BY <1>1, WalkFacts DEF Sound
    <2> QED BY <2>1, TreeFacts
  <1>3. c.kv.off <= o
    BY <1>1 DEF Clear, AllAt, Offset
  <1>4. CASE o > end
    <2>1. Remains(c, s, T, end, o)
      <3>1. end < o /\ Agree(T, w, Len(w))
        BY <1>2, <1>4 DEF Has
      <3> QED BY <1>1, <1>2, <3>1 DEF Remains
    <2>2. PICK U : d = AdvancePath(c, SubSeq(T, end + 1, o), o) /\ U = SubSeq(T, 1, o)
      BY <1>4
    <2>3. PICK r : Grown(c, s, d, r, U)
      BY <1>1, <2>1, <2>2, StoredOnward
    <2>4. U \in Words /\ Agree(U, T, o)
      <3>1. o \in 0 .. Len(T)
        BY <1>1, LenProperties DEF Words
      <3> QED BY <1>1, <2>2, <3>1, FirstEntries DEF Words
    <2>5. Sound(d, r) /\ d.kv = c.kv /\ d.rows = c.rows /\ r[Last(d.path)] = U /\ (Faithful(c, s) => Faithful(d, r))
      BY <2>3 DEF Grown, Apart, Bears
    <2>6. Steady(F, r, T, d)
      BY <2>5 DEF Steady, Clear
    <2>7. Agree(U, T, d.kv.off)
      BY <1>1, <1>3, <2>4, <2>5, AgreeLess DEF Words
    <2>8. Steady(F, r, U, d)
      BY <1>1, <2>4, <2>6, <2>7, SteadyOn
    <2> QED BY <2>5, <2>8
  <1>5. CASE ~(o > end)
    <2>1. d = c
      BY <1>5
    <2>2. Agree(T, w, end) /\ c.kv.off <= end
      BY <1>1, <1>2, <1>3, <1>5 DEF Has
    <2>3. Agree(w, T, c.kv.off)
      BY <1>1, <1>2, <2>2, AgreeLess DEF Words
    <2>4. Steady(F, s, w, c)
      BY <1>1, <1>2, <2>3, SteadyOn
    <2> QED BY <1>2, <2>1, <2>4
  <1> QED BY <1>4, <1>5

\* What close leaves behind.
LEMMA CloseStanding ==
  ASSUME NEW F, NEW s, Good(cache, session, s), Standing(F, cache, session, s), Close
  PROVE  \E r : Standing(F, cache', session', r)
  <1>1. PICK o \in Nat : AllAt(cache, o) /\ MinOffset(cache) = o
    BY ServedAt
  <1>2. PICK c : c = Rescheduled(cache, <<>>, 0)
    OBVIOUS
  <1>3. PICK T : T = IF session.phase = "decode" THEN Append(Stored, session.sample) ELSE Stored
    OBVIOUS
  <1>4. Sound(cache, s) /\ Has(cache, s[Last(cache.path)], T)
    BY <1>1, <1>3, ServedAt, StoredIs
  <1>5. /\ Sound(c, s) /\ c.path = cache.path /\ c.kv = cache.kv /\ c.rec = cache.rec
        /\ c.rows = <<>> /\ c.trie = cache.trie
    <2>1. <<>> \in Seq(Snaps) /\ 0 \in Nat
      BY EmptySeq
    <2>2. PICK rows \in Seq(Snaps), base \in Nat : rows = <<>> /\ base = 0
      BY <2>1
    <2>3. Sound(cache, s) /\ c = Rescheduled(cache, rows, base)
      BY <1>2, <1>4, <2>2
    <2>4. /\ Sound(c, s) /\ c.path = cache.path /\ c.kv = cache.kv /\ c.rec = cache.rec
          /\ c.rows = rows /\ c.trie = cache.trie
      BY <2>3, RowsSet
    <2> QED BY <2>2, <2>4
  <1>6. AllAt(c, o) /\ MinOffset(c) = o
    BY <1>1, <1>5, SameOffsets
  <1>7. Has(c, s[Last(c.path)], T) /\ o <= Len(T)
    BY <1>1, <1>4, <1>5, <1>6 DEF Has
  <1>8. LiveWord(session, s[Last(cache.path)]) = T
    <2>1. Stored = Given(session)
      BY DEF Stored, Given
    <2>2. CASE session.phase = "decode"
      <3>1. session.sample \in Tokens
        BY <2>2 DEF Good, Serving, Decoding
      <3>2. session.sample # None
        BY <3>1, PrefixCacheAssumption
      <3> QED BY <1>3, <2>1, <2>2, <3>2 DEF LiveWord
    <2>3. CASE session.phase # "decode"
      <3>1. session.phase = "prefill"
        BY <2>3 DEF Close
      <3>2. session.sample = None
        BY <3>1 DEF Good, Serving, Filling
      <3> QED BY <1>3, <2>1, <2>3, <3>1, <3>2 DEF LiveWord
    <2> QED BY <2>2, <2>3
  <1>9. Steady(F, s, T, c)
    BY <1>5, <1>8, PathSetSteady DEF Standing
  <1>10. PICK end : end = c.trie[Last(c.path)].end
    OBVIOUS
  <1>11. PICK d : d = IF o > end THEN AdvancePath(c, SubSeq(T, end + 1, o), o) ELSE c
    OBVIOUS
  <1>12. PICK r : Steady(F, r, r[Last(d.path)], d) /\ d.rows = c.rows
    BY <1>6, <1>7, <1>9, <1>10, <1>11, ClosedSteady
  <1>13. /\ cache' = d
         /\ session' = [phase |-> "idle", inputs |-> <<>>, outputs |-> <<>>, pending |-> <<>>, sample |-> None]
    <2>1. c = [cache EXCEPT !.rows = <<>>, !.base = 0]
      BY <1>2 DEF Rescheduled
    <2>2. ~(o > Len(T))
      BY <1>1, <1>4 DEF Has
    <2> QED BY <1>3, <1>6, <1>10, <1>11, <2>1, <2>2, Zenon DEF Close
  <1>14. LiveWord(session', r[Last(d.path)]) = r[Last(d.path)]
    BY <1>13 DEF LiveWord
  <1>15. RowsLazy(d.rows, session'.pending)
    <2>1. Len(d.rows) = 0
      BY <1>5, <1>12, EmptySeq
    <2> QED BY <2>1 DEF RowsLazy
  <1> QED BY <1>12, <1>13, <1>14, <1>15 DEF Standing

\* A merge takes one node away, the child.
LEMMA JoinedNodes ==
  ASSUME NEW c, NEW s, Sound(c, s), NEW n \in DOMAIN c.trie, NEW ch, Children(c.trie, n) = {ch}
  PROVE  DOMAIN MergeWithChild(c, n).trie = DOMAIN c.trie \ {ch}
  <1> DEFINE t == c.trie
             merged == [kv |-> MergeKV(c, t[n].kv, t[ch].kv), rec |-> t[ch].rec]
  <1>1. PICK b : b = SetSnapshots(SetSnapshots(c, n, NoSnapshots), ch, NoSnapshots)
    OBVIOUS
  <1>2. b \in Caches
    <2>1. ch \in DOMAIN t
      BY DEF Children
    <2>2. PICK a : a = SetSnapshots(c, n, NoSnapshots)
      OBVIOUS
    <2>3. Sound(a, s) /\ DOMAIN a.trie = DOMAIN t
      BY <2>2, BareSound
    <2>4. Sound(b, s)
      BY <1>1, <2>1, <2>2, <2>3, BareSound
    <2> QED BY <2>4 DEF Sound
  <1>3. (CHOOSE m \in Children(t, n) : TRUE) = ch
    OBVIOUS
  <1> DEFINE Adopted(m) == IF b.trie[m].parent = ch THEN [b.trie[m] EXCEPT !.parent = n] ELSE b.trie[m]
             u == [m \in DOMAIN t \ {ch} |->
                     IF m = n THEN [b.trie[n] EXCEPT !.tokens = t[n].tokens \o t[ch].tokens,
                                                     !.end = t[ch].end, !.user = t[ch].user]
                     ELSE Adopted(m)]
  <1>4. PICK j : j = [b EXCEPT !.trie = u]
    OBVIOUS
  <1>5. MergeWithChild(c, n) = SetSnapshots(j, n, merged)
    BY <1>1, <1>3, <1>4 DEF MergeWithChild
  <1> HIDE DEF merged, u
  <1>6. j.trie = u
    BY <1>2, <1>4 DEF Caches
  <1>7. PICK x : x = SetSnapshots(j, n, merged)
    OBVIOUS
  <1>8. DOMAIN x.trie = DOMAIN u
    <2>1. "trie" \in DOMAIN j
      BY <1>2, <1>4 DEF Caches
    <2>2. x = [j EXCEPT !.trie[n].kv = merged.kv, !.trie[n].rec = merged.rec,
                        !.paged = j.paged - Bytes(j.trie[n]) + Bytes(merged)]
      BY <1>7 DEF SetSnapshots
    <2>3. x.trie = [[j.trie EXCEPT ![n].kv = merged.kv] EXCEPT ![n].rec = merged.rec]
      BY <2>1, <2>2
    <2> QED BY <1>6, <2>3
  <1>9. DOMAIN u = DOMAIN t \ {ch}
    BY DEF u
  <1> QED BY <1>5, <1>7, <1>8, <1>9

\* A turn of eviction.
LEMMA EvictStanding ==
  ASSUME NEW F, F => ~MergesApart, NEW s, Good(cache, session, s), Standing(F, cache, session, s), Evict
  PROVE  \E r : Standing(F, cache', session', r)
  <1>1. Sound(cache, s) /\ session' = session
    BY DEF Good, Evict
  <1>2. PICK n \in Evictable(cache) : cache' = IF Children(cache.trie, n) = {} THEN RemoveNode(cache, n)
                                               ELSE MergeWithChild(cache, n)
    BY DEF Evict
  <1>3. PICK c, d : c = cache /\ d = cache'
    OBVIOUS
  <1>4. PICK r : /\ Pruned(c, s, d, r)
                 /\ (\A ch \in Children(c.trie, n) : Meet(c.trie[n].kv, c.trie[ch].kv)) => Bears(c, s, d, r)
    BY <1>1, <1>2, <1>3, EvictSound
  <1>5. ASSUME F, NEW ch \in Children(c.trie, n) PROVE Meet(c.trie[n].kv, c.trie[ch].kv)
    <2>1. n \in DOMAIN c.trie /\ Cardinality(Children(c.trie, n)) <= 1
      BY <1>3 DEF Evictable
    <2>2. IsFiniteSet(Children(c.trie, n))
      <3>1. IsFiniteSet(DOMAIN c.trie)
        BY <1>1, <1>3 DEF Sound, Tree
      <3>2. Children(c.trie, n) \in SUBSET DOMAIN c.trie
        BY DEF Children
      <3> QED BY <3>1, <3>2, FS_Subset
    <2>3. Children(c.trie, n) = {ch}
      <3>1. PICK S : S = Children(c.trie, n)
        OBVIOUS
      <3>2. IsFiniteSet(S \ {ch}) /\ Cardinality(S \ {ch}) = Cardinality(S) - 1 /\ Cardinality(S) \in Nat
        BY <1>5, <2>2, <3>1, FS_RemoveElement, FS_CardinalityType
      <3>3. Cardinality(S \ {ch}) = 0
        <4>1. Cardinality(S \ {ch}) \in Nat
          BY <3>2, FS_CardinalityType
        <4> QED BY <2>1, <3>1, <3>2, <4>1
      <3>4. S \ {ch} = {}
        BY <3>2, <3>3, FS_EmptySet
      <3> QED BY <1>5, <3>1, <3>4
    <2>4. d = MergeWithChild(c, n)
      BY <1>2, <1>3, <2>3
    <2>5. DOMAIN d.trie = DOMAIN c.trie \ {ch}
      BY <1>1, <1>3, <2>1, <2>3, <2>4, JoinedNodes
    <2>6. ch \in DOMAIN c.trie \ DOMAIN d.trie /\ c.trie[ch].parent = n
      BY <2>3, <2>5 DEF Children
    <2>7. ~MergesApart
      BY <1>5
    <2> QED BY <1>3, <2>6, <2>7 DEF MergesApart, Meet
  <1>6. Sound(d, r) /\ d.kv = c.kv /\ d.rows = c.rows /\ d.path = c.path /\ r[Last(c.path)] = s[Last(c.path)]
    BY <1>4 DEF Pruned, Apart
  <1>7. F /\ Faithful(c, s) => Faithful(d, r)
    BY <1>4, <1>5 DEF Bears
  <1> QED BY <1>1, <1>3, <1>6, <1>7 DEF Standing, Steady, Clear

\* Every step keeps the slots those of their tokens, but for an overrun or a merge of
\* snapshots that do not meet.
LEMMA StepStanding ==
  ASSUME NEW F, F => ~Overruns /\ ~MergesApart, NEW s, Good(cache, session, s),
         Standing(F, cache, session, s), [Next]_vars
  PROVE  \E r : Standing(F, cache', session', r)
  <1>1. ASSUME UNCHANGED vars PROVE Standing(F, cache', session', s)
    BY <1>1 DEF vars
  <1>2. ASSUME NEW inputs \in Inputs, Begin(inputs) PROVE Standing(F, cache', session', s)
    BY <1>2, BeginStanding
  <1>3. CASE Evict
    BY <1>3, EvictStanding
  <1>4. ASSUME Prefill PROVE Standing(F, cache', session', s)
    BY <1>4, PrefillStanding
  <1>5. CASE Attach
    BY <1>5, AttachStanding
  <1>6. ASSUME NEW sample \in Tokens, Seed(sample) PROVE Standing(F, cache', session', s)
    BY <1>6, SeedStanding
  <1>7. ASSUME NEW sample \in Tokens, Decode(sample) PROVE Standing(F, cache', session', s)
    BY <1>7, DecodeStanding
  <1>8. CASE Close
    BY <1>8, CloseStanding
  <1>9. ASSUME Finished PROVE Standing(F, cache', session', s)
    BY <1>1, <1>9 DEF Finished
  <1> QED BY <1>1, <1>2, <1>3, <1>4, <1>5, <1>6, <1>7, <1>8, <1>9 DEF Next

\* What holds of the slots whatever is written over: a cache that is not there has none,
\* and a capture not yet attached is lazy and ends at its offset.
LInv == Clear(cache) /\ RowsLazy(cache.rows, session.pending)

\* That always holds, overruns or not.
LEMMA LInvAlways ==
  Spec => []LInv
  <1>1. Init => LInv
    <2> SUFFICES ASSUME Init PROVE LInv
      OBVIOUS
    <2>1. cache.kv.off = 0 /\ cache.rows = <<>>
      BY DEF Init
    <2>2. Len(cache.rows) = 0
      BY <2>1, EmptySeq
    <2> QED BY <2>1, <2>2 DEF LInv, Clear, RowsLazy
  <1>2. IInv /\ LInv /\ [Next]_vars => LInv'
    <2> SUFFICES ASSUME IInv, LInv, [Next]_vars PROVE LInv'
      OBVIOUS
    <2>1. PICK s : Good(cache, session, s)
      BY DEF IInv
    <2>2. Standing(FALSE, cache, session, s)
      BY <2>1 DEF Good, LInv, Standing, Steady
    <2>3. PICK r : Standing(FALSE, cache', session', r)
      BY <2>1, <2>2, StepStanding
    <2> QED BY <2>3 DEF LInv, Standing, Steady
  <1> QED BY <1>1, <1>2, Invariant, PTL DEF Spec

\* A snapshot holds the slots of its range.
LEMMA HoldsIs ==
  ASSUME NEW s, Sound(cache, s), NEW k \in KVSnaps, Fits(k, Len(cache.kv.buf)), k # None, NEW w \in Words
  PROVE  Holds(k, w) <=> Holding(cache.kv.buf, k, w)
  <1>1. k.from \in Nat /\ k.to \in Nat /\ k.data \in Seq(Words) /\ k.lazy \in BOOLEAN /\ cache \in Caches
    BY DEF KVSnaps, Sound
  <1>2. PICK data : data = SnapshotData(k)
    OBVIOUS
  <1>3. data \in Seq(Words) /\ (k.lazy => Len(data) = k.to - k.from) /\ (~k.lazy => data = k.data)
    <2>1. CASE k.lazy
      BY <1>1, <1>2, <2>1, CopyData DEF SnapshotData
    <2>2. CASE ~k.lazy
      BY <1>1, <1>2, <2>2 DEF SnapshotData
    <2> QED BY <2>1, <2>2
  <1>4. Len(data) \in Nat /\ DOMAIN data = 1 .. Len(data)
    BY <1>3, LenProperties
  <1>5. PICK f \in Nat, g \in Nat, n \in Nat : f = k.from /\ g = k.to /\ n = Len(data)
    BY <1>1, <1>4
  <1>6. ASSUME n = g - f, NEW i \in f + 1 .. g
        PROVE  i - f \in 1 .. n /\ f + (i - f) = i /\ data[i - f] = SlotOf(cache.kv.buf, k, i)
    <2>1. i - f \in 1 .. n /\ f + (i - f) = i
      BY <1>6
    <2>2. CASE k.lazy
      <3>1. \A j \in 1 .. k.to - k.from : data[j] = cache.kv.buf[k.from + j]
        BY <1>1, <1>2, <2>2, CopyData DEF SnapshotData
      <3>2. data[i - f] = cache.kv.buf[f + (i - f)]
        BY <1>5, <1>6, <2>1, <3>1
      <3> QED BY <2>1, <2>2, <3>2 DEF SlotOf
    <2>3. CASE ~k.lazy
      BY <1>3, <1>5, <2>1, <2>3 DEF SlotOf
    <2> QED BY <2>1, <2>2, <2>3
  <1>7. ASSUME Holds(k, w) PROVE Holding(cache.kv.buf, k, w)
    <2>1. n = g - f /\ \A i \in 1 .. n : f + i <= Len(w) /\ data[i] = SubSeq(w, 1, f + i)
      BY <1>2, <1>4, <1>5, <1>7 DEF Holds, Computed
    <2>2. ASSUME NEW i \in f + 1 .. g PROVE i <= Len(w) /\ SlotOf(cache.kv.buf, k, i) = SubSeq(w, 1, i)
      <3>1. i - f \in 1 .. n /\ f + (i - f) = i /\ data[i - f] = SlotOf(cache.kv.buf, k, i)
        BY <1>6, <2>1
      <3>2. f + (i - f) <= Len(w) /\ data[i - f] = SubSeq(w, 1, f + (i - f))
        BY <2>1, <3>1
      <3> QED BY <3>1, <3>2
    <2> QED BY <1>3, <1>5, <2>1, <2>2 DEF Holding
  <1>8. ASSUME Holding(cache.kv.buf, k, w) PROVE Holds(k, w)
    <2>1. /\ n = g - f
          /\ \A i \in f + 1 .. g : i <= Len(w) /\ SlotOf(cache.kv.buf, k, i) = SubSeq(w, 1, i)
      BY <1>3, <1>5, <1>8 DEF Holding
    <2>2. ASSUME NEW j \in 1 .. n PROVE f + j <= Len(w) /\ data[j] = SubSeq(w, 1, f + j)
      <3>1. PICK i \in f + 1 .. g : i = f + j /\ i - f = j
        <4>1. f + j \in f + 1 .. g /\ (f + j) - f = j
          BY <2>1
        <4> QED BY <4>1
      <3>2. data[i - f] = SlotOf(cache.kv.buf, k, i)
        BY <1>6, <2>1
      <3> QED BY <2>1, <3>1, <3>2
    <2> QED BY <1>2, <1>4, <1>5, <2>1, <2>2 DEF Holds, Computed
  <1> QED BY <1>7, <1>8

\* The live slots are those of these tokens.
LEMMA ComputedIs ==
  ASSUME NEW k \in KVs, k.off <= Len(k.buf), NEW w \in Words
  PROVE  Computed(SubSeq(k.buf, 1, k.off), 0, w) <=> LiveOf(k, w)
  <1>1. k.off \in Nat /\ k.buf \in Seq(Words) /\ Len(k.buf) \in Nat /\ Len(w) \in Nat
    BY LenProperties DEF KVs, Words
  <1>2. PICK data : data = SubSeq(k.buf, 1, k.off)
    OBVIOUS
  <1>3. k.off \in 0 .. Len(k.buf)
    BY <1>1
  <1>4. data \in Seq(Words) /\ Len(data) = k.off /\ \A i \in 1 .. k.off : data[i] = k.buf[i]
    BY <1>1, <1>2, <1>3, FirstEntries
  <1>5. DOMAIN data = 1 .. k.off
    BY <1>4, LenProperties
  <1>6. Computed(data, 0, w) <=> \A i \in 1 .. k.off : i <= Len(w) /\ data[i] = SubSeq(w, 1, i)
    <2>1. \A i \in 1 .. k.off : 0 + i = i
      BY <1>1
    <2> QED BY <1>5, <2>1 DEF Computed
  <1>7. (\A i \in 1 .. k.off : i <= Len(w)) <=> k.off <= Len(w)
    <2>1. CASE k.off = 0
      BY <1>1, <2>1
    <2>2. CASE k.off # 0
      <3>1. k.off \in 1 .. k.off
        BY <1>1, <2>2
      <3> QED BY <1>1, <3>1
    <2> QED BY <2>1, <2>2
  <1> QED BY <1>2, <1>4, <1>6, <1>7 DEF LiveOf

\* What KVFaithful says, of the nodes and of the live caches.
LEMMA KVFaithfulIs ==
  ASSUME NEW s, Good(cache, session, s)
  PROVE  KVFaithful <=> Faithful(cache, s) /\ LiveOf(cache.kv, LiveWord(session, s[Last(cache.path)]))
  <1>1. Sound(cache, s) /\ Tree(cache.trie, s) /\ cache \in Caches /\ cache.kv.off <= Len(cache.kv.buf)
    BY DEF Good, Sound
  <1>2. Live = LiveWord(session, s[Last(cache.path)])
    <2>1. Last(cache.path) \in DOMAIN cache.trie
      BY <1>1, WalkFacts DEF Sound
    <2>2. Spelled(cache.trie, Last(cache.path)) = s[Last(cache.path)]
      BY <1>1, <2>1, SpelledIs
    <2> QED BY <2>2 DEF Live, LiveWord, Stored, Given
  <1>3. Live \in Words
    BY LiveIs DEF Stands
  <1>4. Computed(SubSeq(cache.kv.buf, 1, cache.kv.off), 0, Live) <=> LiveOf(cache.kv, Live)
    <2>1. cache.kv \in KVs
      BY <1>1 DEF Caches
    <2> QED BY <1>1, <1>3, <2>1, ComputedIs
  <1>5. ASSUME NEW n \in DOMAIN cache.trie
        PROVE  (cache.trie[n].kv # None => Holds(cache.trie[n].kv, Spelled(cache.trie, n)))
                 <=> Holding(cache.kv.buf, cache.trie[n].kv, s[n])
    <2>1. PICK k : k = cache.trie[n].kv
      OBVIOUS
    <2>2. k \in KVSnaps /\ Fits(k, Len(cache.kv.buf)) /\ s[n] \in Words
      BY <1>1, <2>1, NodeBytes, TreeFacts DEF Sound
    <2>3. Spelled(cache.trie, n) = s[n]
      BY <1>1, SpelledIs
    <2>4. CASE k = None
      BY <2>1, <2>4 DEF Holding
    <2>5. CASE k # None
      BY <1>1, <2>1, <2>2, <2>3, <2>5, HoldsIs
    <2> QED BY <2>4, <2>5
  <1>6. KVFaithful <=> /\ Computed(SubSeq(cache.kv.buf, 1, cache.kv.off), 0, Live)
                       /\ \A n \in DOMAIN cache.trie :
                            cache.trie[n].kv # None => Holds(cache.trie[n].kv, Spelled(cache.trie, n))
    BY DEF KVFaithful
  <1> QED BY <1>2, <1>4, <1>5, <1>6 DEF Faithful

\* The slots are those of their tokens, for what the nodes spell.
KVGood == \E s : /\ Good(cache, session, s) /\ Faithful(cache, s)
                 /\ LiveOf(cache.kv, LiveWord(session, s[Last(cache.path)]))

\* Then KVFaithful holds.
LEMMA KVGoodIs ==
  KVGood => KVFaithful
  BY KVFaithfulIs DEF KVGood

\* A step keeps the slots those of their tokens.
LEMMA StepFaithful ==
  ASSUME IInv, LInv, [Next]_vars, KVFaithful, ~Overruns, ~MergesApart
  PROVE  KVGood'
  <1>1. PICK s : Good(cache, session, s)
    BY DEF IInv
  <1>2. Standing(TRUE, cache, session, s)
    <2>1. Sound(cache, s)
      BY <1>1 DEF Good
    <2> QED BY <1>1, <2>1, KVFaithfulIs DEF LInv, Standing, Steady
  <1>3. PICK r : Standing(TRUE, cache', session', r)
    BY <1>1, <1>2, StepStanding
  <1>4. Sound(cache', r) /\ Faithful(cache', r) /\ LiveOf(cache'.kv, LiveWord(session', r[Last(cache'.path)]))
    BY <1>3 DEF Standing, Steady
  <1>5. PICK q : Good(cache', session', q)
    <2>1. IInv'
      BY StepIs
    <2> QED BY <2>1 DEF IInv
  <1>6. q = r
    BY <1>4, <1>5, SpelledOnce DEF Good
  <1> QED BY <1>4, <1>5, <1>6 DEF KVGood

\* Every slot of the KV cache, live, lazy or copied out, stays computed from the tokens it
\* stands for, through rewinds, page-outs, page-ins, splits and merges, whatever the prompts:
\* but for the two steps that KVStaysFaithful excepts (kvcache.go, prefix_cache.go).
THEOREM KVIsKept == Spec => KVStaysFaithful
  <1>1. IInv /\ LInv /\ [Next]_vars /\ KVFaithful /\ ~Overruns /\ ~MergesApart => KVGood'
    BY StepFaithful
  <1>2. KVGood => KVFaithful
    BY KVGoodIs
  <1> QED BY <1>1, <1>2, Invariant, LInvAlways, PTL DEF Spec, KVStaysFaithful

=============================================================================
