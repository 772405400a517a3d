-------------------------- MODULE ModelStoreProofs --------------------------
(* Theorems about ModelStore, for all values of its constants.             *)
EXTENDS ModelStore, DataProofs

----------------------------------------------------------------------------
(* Sequences of blobs.                                                     *)

LEMMA HeadTail ==
  ASSUME NEW T, NEW s \in Seq(T), s # <<>>
  PROVE  /\ Head(s) \in T /\ Tail(s) \in Seq(T) /\ Len(s) \in Nat \ {0}
         /\ ToSet(s) \subseteq T /\ ToSet(Tail(s)) \subseteq ToSet(s)
         /\ ToSet(s) \subseteq {Head(s)} \cup ToSet(Tail(s))
         /\ Len(s) = 1 => ToSet(s) = {Head(s)}
         /\ Len(s) > 1 => Tail(s) # <<>>
  <1>1. /\ Len(s) \in Nat \ {0} /\ DOMAIN s = 1 .. Len(s)
        /\ Head(s) = s[1] /\ Head(s) \in T
        /\ Tail(s) \in Seq(T) /\ Len(Tail(s)) = Len(s) - 1
        /\ DOMAIN Tail(s) = 1 .. Len(s) - 1
        /\ \A i \in 1 .. Len(s) - 1 : Tail(s)[i] = s[i + 1]
    OBVIOUS
  <1>2. \A i \in 1 .. Len(s) : s[i] \in T
    OBVIOUS
  <1>3. ToSet(Tail(s)) \subseteq ToSet(s)
    <2> SUFFICES ASSUME NEW i \in 1 .. Len(s) - 1 PROVE \E j \in DOMAIN s : s[j] = Tail(s)[i]
      BY <1>1 DEF ToSet
    <2>1. i + 1 \in 1 .. Len(s)
      BY <1>1
    <2> QED BY <1>1, <2>1
  <1>4. ToSet(s) \subseteq {Head(s)} \cup ToSet(Tail(s))
    <2> SUFFICES ASSUME NEW i \in 1 .. Len(s), i # 1 PROVE \E j \in DOMAIN Tail(s) : Tail(s)[j] = s[i]
      BY <1>1 DEF ToSet
    <2>1. i - 1 \in 1 .. Len(s) - 1 /\ (i - 1) + 1 = i
      BY <1>1
    <2> QED BY <1>1, <2>1
  <1>5. Len(s) = 1 => ToSet(s) = {Head(s)}
    BY <1>1 DEF ToSet
  <1>6. Len(s) > 1 => Tail(s) # <<>>
    <2> DEFINE t == Tail(s)
    <2>1. Len(t) = Len(s) - 1
      BY <1>1
    <2> HIDE DEF t
    <2>2. t = <<>> => Len(t) = 0
      OBVIOUS
    <2> QED BY <2>1, <2>2 DEF t
  <1>7. ToSet(s) \subseteq T
    BY <1>1, <1>2 DEF ToSet
  <1> QED BY <1>1, <1>3, <1>4, <1>5, <1>6, <1>7

LEMMA WithoutSet ==
  ASSUME NEW T, NEW s \in Seq(T), NEW S
  PROVE  Without(s, S) \in Seq(T) /\ ToSet(Without(s, S)) = ToSet(s) \ S
  <1>1. /\ Without(s, S) \in Seq(T)
        /\ \A k \in DOMAIN Without(s, S) :
              \E n \in DOMAIN s : s[n] \notin S /\ Without(s, S)[k] = s[n]
        /\ \A n \in DOMAIN s : s[n] \notin S =>
              \E k \in DOMAIN Without(s, S) : Without(s, S)[k] = s[n]
    BY WithoutMembers
  <1> QED BY ZenonT(60), <1>1 DEF ToSet

LEMMA AppendSet ==
  ASSUME NEW T, NEW s \in Seq(T), NEW x \in T
  PROVE  /\ Append(s, x) \in Seq(T) /\ Append(s, x) # <<>>
         /\ ToSet(Append(s, x)) = ToSet(s) \cup {x}
  <1>1. /\ Len(s) \in Nat /\ DOMAIN s = 1 .. Len(s) /\ Append(s, x) \in Seq(T)
        /\ DOMAIN Append(s, x) = 1 .. Len(s) + 1 /\ Append(s, x)[Len(s) + 1] = x
        /\ \A i \in 1 .. Len(s) : Append(s, x)[i] = s[i]
    OBVIOUS
  <1>2. Append(s, x) # <<>>
    <2>1. Len(<<>>) = 0 /\ Len(Append(s, x)) = Len(s) + 1
      OBVIOUS
    <2> QED BY <1>1, <2>1
  <1>3. ToSet(Append(s, x)) \subseteq ToSet(s) \cup {x}
    BY <1>1 DEF ToSet
  <1>4. ToSet(s) \cup {x} \subseteq ToSet(Append(s, x))
    <2>1. Len(s) + 1 \in 1 .. Len(s) + 1 /\ \A i \in 1 .. Len(s) : i \in 1 .. Len(s) + 1
      BY <1>1
    <2> QED BY <1>1, <2>1 DEF ToSet
  <1> QED BY <1>1, <1>2, <1>3, <1>4

\* A manifest has blobs, of which the config is the last.
LEMMA ContentBlobs ==
  ASSUME NEW m \in Contents
  PROVE  /\ m \in Seq(Blobs) /\ BlobsOf(m) = ToSet(m) /\ BlobsOf(m) \subseteq Blobs
         /\ Last(m) \in BlobsOf(m) /\ Last(m) \in Blobs /\ m # <<>>
         /\ Front(m) \in Seq(Blobs) /\ ToSet(Front(m)) \subseteq Blobs
         /\ BlobsOf(m) = ToSet(Front(m)) \cup {Last(m)}
  <1>1. /\ m \in Seq(Blobs) /\ m # <<>> /\ Len(m) \in Nat \ {0} /\ DOMAIN m = 1 .. Len(m)
        /\ \A i \in 1 .. Len(m) : m[i] \in Blobs
    BY ModelStoreAssumption
  <1>2. BlobsOf(m) = ToSet(m) /\ ToSet(m) \subseteq Blobs
    BY <1>1 DEF BlobsOf, Readable, ToSet
  <1>3. Last(m) \in ToSet(m)
    <2>1. Len(m) \in 1 .. Len(m)
      BY <1>1
    <2> QED BY <1>1, <2>1 DEF Last, ToSet
  <1>4. /\ Front(m) \in Seq(Blobs) /\ DOMAIN Front(m) = 1 .. Len(m) - 1
        /\ \A i \in 1 .. Len(m) - 1 : Front(m)[i] = m[i]
    <2> DEFINE n == Len(m) - 1
    <2>1. n \in Nat /\ n <= Len(m)
      BY <1>1
    <2>2. \A i \in 1 .. n : m[i] \in Blobs
      BY <1>1, <2>1
    <2> HIDE DEF n
    <2>3. SubSeq(m, 1, n) = [i \in 1 .. n |-> m[i]]
      BY <1>1, <2>1
    <2>4. [i \in 1 .. n |-> m[i]] \in Seq(Blobs)
      BY <2>1, <2>2
    <2> QED BY <2>3, <2>4 DEF Front, n
  <1>5. ASSUME NEW n \in Nat PROVE \A i \in 1 .. n : i = n \/ i \in 1 .. n - 1
    OBVIOUS
  <1>6. ASSUME NEW n \in Nat PROVE \A i \in 1 .. n - 1 : i \in 1 .. n
    OBVIOUS
  <1>7. ToSet(m) \subseteq ToSet(Front(m)) \cup {Last(m)}
    BY <1>1, <1>4, <1>5 DEF Last, ToSet
  <1>8. ToSet(Front(m)) \subseteq ToSet(m)
    BY <1>1, <1>4, <1>6 DEF ToSet
  <1> QED BY <1>1, <1>2, <1>3, <1>4, <1>7, <1>8

LEMMA AnyBlobs ==
  ASSUME NEW m \in Contents \cup {Absent, Torn}
  PROVE  BlobsOf(m) \subseteq Blobs /\ (m \notin Contents => BlobsOf(m) = {})
  BY ContentBlobs DEF BlobsOf, Readable

----------------------------------------------------------------------------
(* The invariant.                                                          *)

Ops == [at : {"idle", "stat", "fetch", "verify", "from", "make", "write", "encode", "unlink",
              "forget", "glob", "read", "remove", "refresh", "set"},
        kind : {"none", "pull", "create", "adrift", "copy", "delete"},
        name : Names \cup {Absent}, src : Names \cup {Absent},
        content : Contents \cup {Absent, Torn}, todo : Seq(Blobs),
        hits : SUBSET Blobs, old : SUBSET Blobs, del : SUBSET Blobs, toread : SUBSET Names,
        then : {"idle", "refresh", "make"}, missed : SUBSET Blobs, lost : SUBSET Blobs]

ScanSet == [at : {"idle", "glob", "read", "apply", "answer"}, toread : SUBSET Names,
            seen : [Names -> Contents \cup {Absent}], updates : SUBSET Names,
            stale : SUBSET Names, disturbed : SUBSET Names]

TypeInv ==
    /\ manifests \in [Names -> Contents \cup {Absent, Torn}]
    /\ blobs \in [Blobs -> {"none", "good", "bad"}]
    /\ op \in [Writers -> Ops]
    /\ entries \in [Names -> Contents \cup {Absent}]
    /\ hydrated \in {"no", "yes", "failed"}
    /\ scans \in [Scanners -> ScanSet]

\* A removal on the way to making the layers.
Dropping(o) == o.at \in {"glob", "read", "remove"} /\ o.then = "make"

\* What a request has where it is.
Shape(o) ==
    /\ o.at # "idle" => o.name \in Names
    /\ o.at \in {"stat", "fetch", "verify"} => o.kind = "pull" /\ o.content \in Contents
    /\ o.at = "from" => o.kind = "create" /\ o.src \in Names /\ o.content \in Contents
    /\ o.at \in {"stat", "fetch", "make"} => o.todo # <<>>
    /\ o.at = "make" => o.kind = "adrift" \/ (o.kind = "create" /\ o.content \in Contents)
    /\ o.at \in {"write", "encode"} =>
          \/ o.kind \in {"pull", "create"} /\ o.content \in Contents
          \/ o.kind = "copy" /\ o.src \in Names /\ o.content # Absent
    /\ Dropping(o) => /\ o.kind = "create" /\ o.content \in Contents /\ o.todo # <<>>
                      /\ o.del \cap BlobsOf(o.content) = {}
    /\ o.at = "remove" => o.toread = {}
    /\ o.at = "set" => o.content # Torn

\* The request is still at its layers.
Gathering(o) == o.at \in {"stat", "fetch"} \/ (o.at = "make" /\ o.kind = "create") \/ Dropping(o)

\* A request has found all of its blobs that are no longer to be looked at, others
\* have taken none of them but those in lost, and a pull has verified what it fetched.
Holds(o) ==
    /\ Gathering(o) => BlobsOf(o.content) \ (ToSet(o.todo) \cup o.lost) \subseteq Present
    /\ o.at \in {"verify", "write", "encode"} => BlobsOf(o.content) \ o.lost \subseteq Present
    /\ o.at = "verify" =>
          \A d \in BlobsOf(o.content) \ (o.hits \cup o.lost \cup ToSet(o.todo)) : blobs[d] = "good"
    /\ o.at \in {"write", "encode"} /\ o.kind = "pull" =>
          \A d \in BlobsOf(o.content) \ (o.hits \cup o.lost) : blobs[d] = "good"

\* What is still to be removed is in none of the manifests that have been read, unless
\* it came in later.
Spares(o) ==
    o.at \in {"read", "remove"} =>
        \A n \in Names \ o.toread : o.del \cap BlobsOf(manifests[n]) \subseteq o.missed

OwnInv(o) == Shape(o) /\ Holds(o) /\ Spares(o)
OpsInv    == \A w \in Writers : OwnInv(op[w])

\* What a list has read of the name, and does with it, is how things are.
Seen(n) ==
    LET c == scans["list"]
        m == manifests[n]
    IN /\ c.at \in {"read", "apply"} /\ n \notin c.toread =>
             c.seen[n] = IF Readable(m) THEN m ELSE Absent
       /\ c.at = "apply" =>
             /\ n \notin c.toread
             /\ n \in c.updates <=> c.seen[n] \notin {Absent, entries[n]} /\ Builds(c.seen[n])
             /\ n \in c.stale => ~Builds(c.seen[n])
       /\ c.at = "answer" => /\ Builds(m) => entries[n] = m
                             /\ ~Readable(m) => entries[n] = Absent

ListInv ==
    LET c == scans["list"]
    IN /\ c.at # "idle" =>
             /\ hydrated = "yes"
             /\ \A w \in Writers : op[w].at # "idle" => op[w].name \in c.disturbed
             /\ \A n \in Names \ c.disturbed : Seen(n)
       /\ c.at = "glob" => \A n \in Names : c.seen[n] = Absent
       /\ hydrated = "yes" => scans["hydrate"].at = "idle"

Inv == TypeInv /\ OpsInv /\ ListInv

----------------------------------------------------------------------------
(* A step of a request, whichever it is.                                   *)

\* No blob is lost by the step but those in gone, and none goes bad.
BlobsKeep(gone) ==
    \A d \in Blobs \ gone : /\ blobs[d] # "none" => blobs'[d] # "none"
                            /\ blobs[d] = "good" => blobs'[d] = "good"

\* Nothing enters a manifest by the step but what is in new.
ManifestsKeep(new) == \A n \in Names : BlobsOf(manifests'[n]) \subseteq BlobsOf(manifests[n]) \cup new

\* How the model and its entry are has changed for none but these names.
SameBut(names) ==
    \A n \in Names \ names : /\ manifests'[n] = manifests[n] /\ entries'[n] = entries[n]
                             /\ (Builds(manifests[n]))' <=> Builds(manifests[n])

Told(names) == Disturb(names) \/ (names = {} /\ UNCHANGED scans)

LEMMA OpFields ==
  ASSUME NEW o \in Ops
  PROVE  /\ o.name \in Names \cup {Absent} /\ o.src \in Names \cup {Absent}
         /\ o.content \in Contents \cup {Absent, Torn} /\ o.todo \in Seq(Blobs)
         /\ o.hits \subseteq Blobs /\ o.old \subseteq Blobs /\ o.del \subseteq Blobs
         /\ o.missed \subseteq Blobs /\ o.lost \subseteq Blobs /\ o.toread \subseteq Names
         /\ BlobsOf(o.content) \subseteq Blobs
  BY AnyBlobs DEF Ops

\* The request that goes on, and another that sees it.
Gone(next, found) == [next EXCEPT !.lost = @ \ found]
Sees(o, gone, new) ==
    [o EXCEPT !.lost = @ \cup (gone \cap BlobsOf(o.content)),
              !.missed = IF o.at \in {"read", "remove"} THEN @ \cup new ELSE @]

LEMMA GoesTypes ==
  ASSUME op \in [Writers -> Ops], NEW w \in Writers, NEW next \in Ops, NEW found, NEW gone,
         NEW new \in SUBSET Blobs, Goes(w, next, found, gone, new)
  PROVE  /\ op' \in [Writers -> Ops]
         /\ op'[w] = Gone(next, found)
         /\ \A v \in Writers \ {w} : \/ op[v].at = "idle" /\ op'[v] = op[v]
                                     \/ op'[v] = Sees(op[v], gone, new)
  <1>1. Gone(next, found) \in Ops
    BY DEF Ops, Gone
  <1>2. ASSUME NEW v \in Writers
        PROVE  Sees(op[v], gone, new) \in Ops
    <2>1. PICK o \in Ops : o = op[v]
      OBVIOUS
    <2>2. BlobsOf(o.content) \subseteq Blobs
      BY OpFields
    <2>3. PICK a \in SUBSET Blobs : a = o.lost \cup (gone \cap BlobsOf(o.content))
      BY <2>2 DEF Ops
    <2>4. PICK b \in SUBSET Blobs :
             b = IF o.at \in {"read", "remove"} THEN o.missed \cup new ELSE o.missed
      BY DEF Ops
    <2>5. [o EXCEPT !.lost = a, !.missed = b] \in Ops
      BY DEF Ops
    <2> QED BY <2>1, <2>3, <2>4, <2>5 DEF Sees
  <1>3. ASSUME NEW v \in Writers
        PROVE  op'[v] = IF v = w THEN Gone(next, found)
                        ELSE IF op[v].at = "idle" THEN op[v] ELSE Sees(op[v], gone, new)
    BY DEF Goes, Gone, Sees
  <1>4. ASSUME NEW v \in Writers PROVE op'[v] \in Ops
    BY <1>1, <1>2, <1>3
  <1>5. op' = [v \in Writers |-> op'[v]]
    BY DEF Goes
  <1> QED BY <1>3, <1>4, <1>5

\* What a request has stands the steps of others.
LEMMA OthersKeep ==
  ASSUME Inv, NEW w \in Writers, NEW v \in Writers \ {w}, NEW next \in Ops, NEW found, NEW gone,
         NEW new \in SUBSET Blobs, Goes(w, next, found, gone, new),
         BlobsKeep(gone), ManifestsKeep(new)
  PROVE  OwnInv(op[v])' /\ (op'[v].at = op[v].at /\ op'[v].name = op[v].name)
  <1>0. op \in [Writers -> Ops]
    BY DEF Inv, TypeInv
  <1>1. PICK o \in Ops : o = op[v]
    BY <1>0
  <1>2. PICK q \in Ops : q = op'[v]
    BY <1>0, GoesTypes
  <1>3. OwnInv(o)
    BY <1>1 DEF Inv, OpsInv
  <1>4. /\ q.at = o.at /\ q.kind = o.kind /\ q.name = o.name /\ q.src = o.src
        /\ q.content = o.content /\ q.todo = o.todo /\ q.hits = o.hits /\ q.del = o.del
        /\ q.toread = o.toread /\ q.then = o.then
        /\ o.lost \subseteq q.lost /\ o.missed \subseteq q.missed
        /\ o.at # "idle" => gone \cap BlobsOf(o.content) \subseteq q.lost
        /\ o.at \in {"read", "remove"} => new \subseteq q.missed
    <2>1. \/ o.at = "idle" /\ q = o
          \/ q = Sees(o, gone, new)
      BY <1>0, <1>1, <1>2, GoesTypes
    <2>2. CASE o.at = "idle" /\ q = o
      BY <2>2
    <2>3. CASE q = Sees(o, gone, new)
      <3>1. PICK a : a = o.lost \cup (gone \cap BlobsOf(o.content))
        OBVIOUS
      <3>2. PICK b : b = IF o.at \in {"read", "remove"} THEN o.missed \cup new ELSE o.missed
        OBVIOUS
      <3>3. q = [o EXCEPT !.lost = a, !.missed = b]
        BY <2>3, <3>1, <3>2 DEF Sees
      <3>4. /\ q.at = o.at /\ q.kind = o.kind /\ q.name = o.name /\ q.src = o.src
            /\ q.content = o.content /\ q.todo = o.todo /\ q.hits = o.hits /\ q.del = o.del
            /\ q.toread = o.toread /\ q.then = o.then
            /\ q.lost = a /\ q.missed = b
        BY <3>3 DEF Ops
      <3> QED BY <3>1, <3>2, <3>4
    <2> QED BY <2>1, <2>2, <2>3
  <1>5. Shape(q)
    BY <1>3, <1>4 DEF OwnInv, Shape, Dropping
  <1>6. BlobsOf(o.content) \subseteq Blobs /\ o.del \subseteq Blobs
    BY OpFields
  <1>7. Holds(q)'
    <2>1. \A d \in Blobs \ gone : d \in Present => d \in Present'
      BY DEF BlobsKeep, Present
    <2>2. Holds(o)
      BY <1>3 DEF OwnInv
    <2>3. o.at # "idle" => \A d \in BlobsOf(o.content) \ q.lost : d \in Blobs \ gone /\ d \notin o.lost
      BY <1>4, <1>6
    <2>4. (Gathering(q) => BlobsOf(q.content) \ (ToSet(q.todo) \cup q.lost) \subseteq Present)'
      <3>1. Gathering(q) => Gathering(o) /\ o.at # "idle"
        BY <1>4 DEF Gathering, Dropping
      <3>2. Gathering(o) => BlobsOf(o.content) \ (ToSet(o.todo) \cup o.lost) \subseteq Present
        BY <2>2 DEF Holds
      <3> QED BY <1>4, <2>1, <2>3, <3>1, <3>2
    <2>5. (q.at \in {"verify", "write", "encode"} => BlobsOf(q.content) \ q.lost \subseteq Present)'
      <3>2. o.at \in {"verify", "write", "encode"} => BlobsOf(o.content) \ o.lost \subseteq Present
        BY <2>2 DEF Holds
      <3> QED BY <1>4, <2>1, <2>3, <3>2
    <2>6. q.at = "verify" =>
            \A d \in BlobsOf(q.content) \ (q.hits \cup q.lost \cup ToSet(q.todo)) : blobs'[d] = "good"
      <3>2. o.at = "verify" =>
              \A d \in BlobsOf(o.content) \ (o.hits \cup o.lost \cup ToSet(o.todo)) : blobs[d] = "good"
        BY <2>2 DEF Holds
      <3> QED BY <1>4, <2>3, <3>2 DEF BlobsKeep
    <2>7. q.at \in {"write", "encode"} /\ q.kind = "pull" =>
            \A d \in BlobsOf(q.content) \ (q.hits \cup q.lost) : blobs'[d] = "good"
      <3>2. o.at \in {"write", "encode"} /\ o.kind = "pull" =>
              \A d \in BlobsOf(o.content) \ (o.hits \cup o.lost) : blobs[d] = "good"
        BY <2>2 DEF Holds
      <3> QED BY <1>4, <2>3, <3>2 DEF BlobsKeep
    <2> QED BY <2>4, <2>5, <2>6, <2>7 DEF Holds
  <1>8. Spares(q)'
    <2> SUFFICES ASSUME q.at \in {"read", "remove"}, NEW n \in Names \ q.toread
                 PROVE  q.del \cap BlobsOf(manifests'[n]) \subseteq q.missed
      BY DEF Spares
    <2>1. o.del \cap BlobsOf(manifests[n]) \subseteq o.missed
      BY <1>3, <1>4 DEF OwnInv, Spares
    <2>2. BlobsOf(manifests'[n]) \subseteq BlobsOf(manifests[n]) \cup new
      BY DEF ManifestsKeep
    <2> QED BY <1>4, <2>1, <2>2
  <1> QED BY <1>1, <1>2, <1>4, <1>5, <1>7, <1>8 DEF OwnInv

LEMMA BuildsSame ==
  ASSUME TypeInv, NEW n \in Names, manifests'[n] = manifests[n],
         \A d \in BlobsOf(manifests[n]) : blobs'[d] = blobs[d]
  PROVE  (Builds(manifests[n]))' <=> Builds(manifests[n])
  <1>1. CASE manifests[n] \in Contents
    <2>1. Last(manifests[n]) \in BlobsOf(manifests[n])
      BY <1>1, ContentBlobs
    <2> QED BY <2>1 DEF Builds, Readable
  <1>2. CASE manifests[n] \notin Contents
    BY <1>2 DEF Builds, Readable
  <1> QED BY <1>1, <1>2

\* What a list has read stands the steps of requests.
LEMMA ListKeeps ==
  ASSUME Inv, NEW w \in Writers, NEW names \in SUBSET Names, Told(names),
         op' \in [Writers -> Ops], hydrated' = hydrated,
         \A v \in Writers \ {w} : op'[v].at = op[v].at /\ op'[v].name = op[v].name,
         op'[w].at # "idle" => \/ op[w].at # "idle" /\ op'[w].name = op[w].name
                               \/ op'[w].name \in names,
         SameBut(names \cup IF op[w].at # "idle" THEN {op[w].name} ELSE {})
  PROVE  ListInv' /\ scans' \in [Scanners -> ScanSet]
  <1>0. /\ scans \in [Scanners -> ScanSet] /\ "list" \in Scanners /\ "hydrate" \in Scanners
        /\ op \in [Writers -> Ops]
    BY DEF Inv, TypeInv, Scanners
  <1> DEFINE c == scans["list"]
  <1>1. c \in ScanSet
    BY <1>0
  <1>2. CASE c.at = "idle"
    <2>1. scans' = scans
      BY <1>2 DEF Told, Disturb
    <2> QED BY <1>0, <1>2, <2>1 DEF ListInv, Inv
  <1>3. CASE c.at # "idle"
    <2>1. PICK e \in ScanSet : e = [c EXCEPT !.disturbed = @ \cup names]
      BY <1>1 DEF ScanSet
    <2>2. scans' = [scans EXCEPT !["list"] = e]
      <3>1. CASE Disturb(names)
        BY <1>0, <1>3, <2>1, <3>1 DEF Disturb
      <3>2. CASE names = {} /\ scans' = scans
        <4>1. e = c
          BY <1>1, <2>1, <3>2 DEF ScanSet
        <4> QED BY <1>0, <3>2, <4>1
      <3> QED BY <3>1, <3>2 DEF Told
    <2>3. /\ scans'["list"] = e /\ scans'["hydrate"] = scans["hydrate"]
          /\ scans' \in [Scanners -> ScanSet]
      BY <1>0, <2>2
    <2>4. /\ e.at = c.at /\ e.toread = c.toread /\ e.seen = c.seen /\ e.updates = c.updates
          /\ e.stale = c.stale /\ e.disturbed = c.disturbed \cup names
      BY <1>1, <2>1 DEF ScanSet
    <2> HIDE DEF c
    <2>5. /\ hydrated = "yes" /\ scans["hydrate"].at = "idle"
          /\ \A v \in Writers : op[v].at # "idle" => op[v].name \in c.disturbed
          /\ \A n \in Names \ c.disturbed : Seen(n)
          /\ c.at = "glob" => \A n \in Names : c.seen[n] = Absent
      BY <1>3 DEF Inv, ListInv, c
    <2>6. \A v \in Writers : op'[v].at # "idle" => op'[v].name \in e.disturbed
      BY <2>4, <2>5
    <2>7. ASSUME NEW n \in Names \ e.disturbed PROVE Seen(n)'
      <3>1. Seen(n) /\ n \notin names
        BY <2>4, <2>5
      <3>2. /\ manifests'[n] = manifests[n] /\ entries'[n] = entries[n]
            /\ (Builds(manifests[n]))' <=> Builds(manifests[n])
        BY <2>4, <2>5, <3>1 DEF SameBut
      <3>3. PICK m : m = c.seen[n]
        OBVIOUS
      <3>4. c.at = "apply" => ((Builds(m))' <=> Builds(m))
        <4> SUFFICES ASSUME c.at = "apply" PROVE (Builds(m))' <=> Builds(m)
          OBVIOUS
        <4>1. m = IF Readable(manifests[n]) THEN manifests[n] ELSE Absent
          BY <3>1, <3>3 DEF Seen, c
        <4>2. CASE Readable(manifests[n])
          <5>1. m = manifests[n] /\ m = manifests'[n]
            BY <4>1, <4>2, <3>2
          <5> QED BY <3>2, <5>1 DEF Builds
        <4>3. CASE ~Readable(manifests[n])
          <5>1. m = Absent /\ Absent \notin Contents
            BY <4>1, <4>3, ModelStoreAssumption
          <5> QED BY <5>1 DEF Builds, Readable
        <4> QED BY <4>2, <4>3
      <3>5. m = e.seen[n]
        BY <2>4, <3>3
      <3>6. (e.at \in {"read", "apply"} /\ n \notin e.toread) =>
               (m = IF Readable(manifests'[n]) THEN manifests'[n] ELSE Absent)
        BY <2>4, <3>1, <3>2, <3>3 DEF Seen, c, Readable
      <3>7. e.at = "apply" => n \notin e.toread
        BY <2>4, <3>1 DEF Seen, c
      <3>8. e.at = "apply" => (n \in e.updates <=> (m \notin {Absent, entries'[n]} /\ (Builds(m))'))
        <4>1. c.at = "apply" => (n \in c.updates <=> (m \notin {Absent, entries[n]} /\ Builds(m)))
          BY <3>1, <3>3 DEF Seen, c
        <4> QED BY <2>4, <3>2, <3>4, <4>1
      <3>9. e.at = "apply" => (n \in e.stale => ~(Builds(m))')
        <4>1. c.at = "apply" => (n \in c.stale => ~Builds(m))
          BY <3>1, <3>3 DEF Seen, c
        <4> QED BY <2>4, <3>4, <4>1
      <3>10. e.at = "answer" => /\ (Builds(manifests[n]))' => entries'[n] = manifests'[n]
                                /\ ~Readable(manifests'[n]) => entries'[n] = Absent
        <4>1. c.at = "answer" => /\ Builds(manifests[n]) => entries[n] = manifests[n]
                                 /\ ~Readable(manifests[n]) => entries[n] = Absent
          BY <3>1 DEF Seen, c
        <4> QED BY <2>4, <3>2, <4>1
      <3> QED BY <2>3, <3>5, <3>6, <3>7, <3>8, <3>9, <3>10 DEF Seen
    <2> QED BY <2>3, <2>4, <2>5, <2>6, <2>7 DEF ListInv
  <1> QED BY <1>2, <1>3

LEMMA RequestKeeps ==
  ASSUME Inv, NEW w \in Writers, NEW next \in Ops, NEW found, NEW gone, NEW new \in SUBSET Blobs,
         Goes(w, next, found, gone, new),
         NEW names \in SUBSET Names, Told(names), hydrated' = hydrated,
         manifests' \in [Names -> Contents \cup {Absent, Torn}],
         blobs' \in [Blobs -> {"none", "good", "bad"}],
         entries' \in [Names -> Contents \cup {Absent}],
         BlobsKeep(gone), ManifestsKeep(new),
         SameBut(names \cup IF op[w].at # "idle" THEN {op[w].name} ELSE {}),
         next.at # "idle" => (op[w].at # "idle" /\ next.name = op[w].name) \/ next.name \in names,
         OwnInv(Gone(next, found))'
  PROVE  Inv'
  <1>1. op \in [Writers -> Ops]
    BY DEF Inv, TypeInv
  <1>2. op' \in [Writers -> Ops] /\ op'[w] = Gone(next, found)
    BY <1>1, GoesTypes
  <1>3. op'[w].at = next.at /\ op'[w].name = next.name
    BY <1>2 DEF Ops, Gone
  <1>4. \A v \in Writers \ {w} : OwnInv(op[v])' /\ op'[v].at = op[v].at /\ op'[v].name = op[v].name
    BY OthersKeep
  <1>5. OpsInv'
    <2>1. OwnInv(op[w])'
      BY <1>2
    <2> QED BY <1>4, <2>1 DEF OpsInv
  <1>6. ListInv' /\ scans' \in [Scanners -> ScanSet]
    <2>1. next.at # "idle" => \/ op[w].at # "idle" /\ op'[w].name = op[w].name
                              \/ op'[w].name \in names
      BY <1>3
    <2> QED BY <1>2, <1>3, <1>4, <2>1, ListKeeps
  <1>7. TypeInv'
    BY <1>2, <1>6 DEF TypeInv, Inv
  <1> QED BY <1>5, <1>6, <1>7 DEF Inv

\* Steps that leave the files and the entries alone.
LEMMA SameWorld ==
  ASSUME TypeInv, UNCHANGED <<manifests, blobs, entries>>
  PROVE  /\ manifests' \in [Names -> Contents \cup {Absent, Torn}]
         /\ blobs' \in [Blobs -> {"none", "good", "bad"}]
         /\ entries' \in [Names -> Contents \cup {Absent}]
         /\ BlobsKeep({}) /\ ManifestsKeep({}) /\ \A names : SameBut(names)
  BY DEF TypeInv, BlobsKeep, ManifestsKeep, SameBut, Builds

LEMMA GoneNothing ==
  ASSUME NEW o \in Ops
  PROVE  Gone(o, {}) = o
  BY DEF Gone, Ops

LEMMA IdleOwn ==
  /\ NoOp \in Ops /\ OwnInv(NoOp) /\ OwnInv(NoOp)' /\ NoOp.at = "idle" /\ Gone(NoOp, {}) = NoOp
  <1>1. NoOp \in Ops
    <2>1. <<>> \in Seq(Blobs)
      OBVIOUS
    <2> QED BY <2>1 DEF NoOp, Ops
  <1>2. Gone(NoOp, {}) = NoOp
    BY <1>1, GoneNothing
  <1> QED BY <1>1, <1>2 DEF NoOp, OwnInv, Shape, Holds, Spares, Gathering, Dropping

LEMMA BeginKeeps ==
  ASSUME Inv, NEW w \in Writers, NEW next \in Ops, next.name \in Names, Begins(w, next),
         UNCHANGED <<manifests, blobs, entries, hydrated>>, OwnInv(next)
  PROVE  Inv'
  <1>1. Goes(w, next, {}, {}, {}) /\ Told({next.name})
    BY DEF Begins, Go, Told
  <1>2. OwnInv(Gone(next, {}))'
    <2>1. OwnInv(next)'
      BY DEF OwnInv, Holds, Spares, Present
    <2> QED BY <2>1, GoneNothing
  <1>3. TypeInv
    BY DEF Inv
  <1>4. {next.name} \in SUBSET Names
    OBVIOUS
  <1> QED BY <1>1, <1>2, <1>3, <1>4, SameWorld, RequestKeeps

LEMMA QuietKeeps ==
  ASSUME Inv, NEW w \in Writers, NEW next \in Ops, NEW found, Goes(w, next, found, {}, {}),
         op[w].at # "idle", next.at # "idle" => next.name = op[w].name,
         UNCHANGED <<manifests, blobs, entries, hydrated, scans>>, OwnInv(Gone(next, found))
  PROVE  Inv'
  <1>1. Told({})
    BY DEF Told
  <1>2. OwnInv(Gone(next, found))'
    BY DEF OwnInv, Holds, Spares, Present
  <1>3. TypeInv
    BY DEF Inv
  <1> QED BY <1>1, <1>2, <1>3, SameWorld, RequestKeeps

LEMMA GoKeeps ==
  ASSUME Inv, NEW w \in Writers, NEW next \in Ops, Go(w, next),
         op[w].at # "idle", next.at # "idle" => next.name = op[w].name,
         UNCHANGED <<manifests, blobs, entries, hydrated, scans>>, OwnInv(next)
  PROVE  Inv'
  <1>1. Goes(w, next, {}, {}, {}) /\ OwnInv(Gone(next, {}))
    BY GoneNothing DEF Go
  <1> QED BY <1>1, QuietKeeps

LEMMA UsersSame ==
  ASSUME TypeInv, NEW d, NEW quality, blobs' = [blobs EXCEPT ![d] = quality],
         UNCHANGED <<manifests, entries>>
  PROVE  /\ \A names : SameBut(Users(d) \cup names)
         /\ Users(d) \in SUBSET Names /\ ManifestsKeep({})
  <1>1. ASSUME NEW n \in Names \ Users(d)
        PROVE  (Builds(manifests[n]))' <=> Builds(manifests[n])
    <2>1. \A b \in BlobsOf(manifests[n]) : b # d /\ b \in Blobs
      BY <1>1, AnyBlobs DEF Users, TypeInv
    <2>2. \A b \in BlobsOf(manifests[n]) : blobs'[b] = blobs[b]
      BY <2>1 DEF TypeInv
    <2> QED BY <2>2, BuildsSame
  <1> QED BY <1>1 DEF SameBut, Users, ManifestsKeep

----------------------------------------------------------------------------
(* The beginnings of requests.                                             *)

LEMMA BeginsKeep ==
  ASSUME Inv, NEW w \in Writers, Begin(w)
  PROVE  Inv'
  <1>0. /\ TypeInv /\ \A m \in Names : manifests[m] \in Contents \cup {Absent, Torn}
        /\ \A m \in Names : BlobsOf(manifests[m]) \subseteq Blobs
    BY AnyBlobs DEF Inv, TypeInv
  <1>1. ASSUME NEW n \in Names, NEW content \in Contents, Pull(w, n, content)
        PROVE  Inv'
    <2> DEFINE next == [NoOp EXCEPT !.at = "stat", !.kind = "pull", !.name = n,
                                    !.content = content, !.todo = content,
                                    !.old = BlobsOf(manifests[n])]
    <2>1. /\ content \in Seq(Blobs) /\ content # <<>> /\ BlobsOf(content) = ToSet(content)
      BY ContentBlobs
    <2>2. next \in Ops
      BY <1>0, <2>1 DEF NoOp, Ops
    <2>3. OwnInv(next)
      BY <2>1 DEF NoOp, OwnInv, Shape, Holds, Spares, Gathering, Dropping
    <2>4. next.name \in Names
      BY DEF NoOp
    <2>5. Begins(w, next) /\ UNCHANGED <<manifests, blobs, entries, hydrated>>
      BY <1>1 DEF Pull
    <2> HIDE DEF next
    <2> QED BY <2>2, <2>3, <2>4, <2>5, BeginKeeps
  <1>2. ASSUME NEW n \in Names, NEW src \in Names, NEW content \in Contents,
               Create(w, n, src, content)
        PROVE  Inv'
    <2> DEFINE next == [NoOp EXCEPT !.at = "from", !.kind = "create", !.name = n, !.src = src,
                                    !.content = content, !.old = BlobsOf(manifests[n])]
    <2>1. <<>> \in Seq(Blobs)
      OBVIOUS
    <2>2. next \in Ops
      BY <1>0, <2>1 DEF NoOp, Ops
    <2>3. OwnInv(next)
      BY DEF NoOp, OwnInv, Shape, Holds, Spares, Gathering, Dropping
    <2>4. next.name \in Names
      BY DEF NoOp
    <2>5. Begins(w, next) /\ UNCHANGED <<manifests, blobs, entries, hydrated>>
      BY <1>2 DEF Create
    <2> HIDE DEF next
    <2> QED BY <2>2, <2>3, <2>4, <2>5, BeginKeeps
  <1>3. ASSUME NEW n \in Names, NEW src \in Names, Copy(w, src, n)
        PROVE  Inv'
    <2> DEFINE next == [NoOp EXCEPT !.at = "write", !.kind = "copy", !.name = n, !.src = src,
                                    !.content = manifests[src],
                                    !.lost = BlobsOf(manifests[src]) \ Present]
    <2>1. <<>> \in Seq(Blobs) /\ manifests[src] # Absent
      BY <1>3 DEF Copy
    <2>2. next \in Ops
      BY <1>0, <2>1 DEF NoOp, Ops
    <2>3. OwnInv(next)
      BY <2>1 DEF NoOp, OwnInv, Shape, Holds, Spares, Gathering, Dropping
    <2>4. next.name \in Names
      BY DEF NoOp
    <2>5. Begins(w, next) /\ UNCHANGED <<manifests, blobs, entries, hydrated>>
      BY <1>3 DEF Copy
    <2> HIDE DEF next
    <2> QED BY <2>2, <2>3, <2>4, <2>5, BeginKeeps
  <1>4. ASSUME NEW n \in Names, Delete(w, n)
        PROVE  Inv'
    <2> DEFINE next == [NoOp EXCEPT !.at = "unlink", !.kind = "delete", !.name = n,
                                    !.old = BlobsOf(manifests[n])]
    <2>1. <<>> \in Seq(Blobs)
      OBVIOUS
    <2>2. next \in Ops
      BY <1>0, <2>1 DEF NoOp, Ops
    <2>3. OwnInv(next)
      BY DEF NoOp, OwnInv, Shape, Holds, Spares, Gathering, Dropping
    <2>4. next.name \in Names
      BY DEF NoOp
    <2>5. Begins(w, next) /\ UNCHANGED <<manifests, blobs, entries, hydrated>>
      BY <1>4 DEF Delete
    <2> HIDE DEF next
    <2> QED BY <2>2, <2>3, <2>4, <2>5, BeginKeeps
  <1> QED BY <1>1, <1>2, <1>3, <1>4 DEF Begin

----------------------------------------------------------------------------
(* The layers of a pull.                                                   *)

Hits(o, hits) == [o EXCEPT !.hits = hits]

LEMMA NextLayerHas ==
  ASSUME NEW o \in Ops, o.at \in {"stat", "fetch"}, Shape(o), NEW hits \in SUBSET Blobs,
         NEW next, next = NextLayer(Hits(o, hits))
  PROVE  /\ next \in Ops /\ Shape(next) /\ next.at \in {"stat", "verify"}
         /\ next.kind = "pull" /\ next.name = o.name /\ next.content = o.content
         /\ next.lost = o.lost /\ next.hits = hits /\ o.content \in Contents
         /\ Head(o.todo) \in Blobs
         /\ next.at = "stat" => ToSet(o.todo) \subseteq {Head(o.todo)} \cup ToSet(next.todo)
         /\ next.at = "verify" => /\ ToSet(o.todo) = {Head(o.todo)}
                                  /\ ToSet(next.todo) = BlobsOf(o.content) \ hits
  <1>1. /\ o.kind = "pull" /\ o.content \in Contents /\ o.todo # <<>> /\ o.name \in Names
        /\ o.todo \in Seq(Blobs)
    BY OpFields DEF Shape
  <1>2. /\ Head(o.todo) \in Blobs /\ Tail(o.todo) \in Seq(Blobs) /\ Len(o.todo) \in Nat \ {0}
        /\ ToSet(o.todo) \subseteq {Head(o.todo)} \cup ToSet(Tail(o.todo))
        /\ Len(o.todo) = 1 => ToSet(o.todo) = {Head(o.todo)}
        /\ Len(o.todo) > 1 => Tail(o.todo) # <<>>
    BY <1>1, HeadTail
  <1>3. PICK t \in Seq(Blobs) : t = Tail(o.todo)
    BY <1>2
  <1>4. PICK u \in Seq(Blobs) : u = Without(o.content, hits) /\ ToSet(u) = BlobsOf(o.content) \ hits
    <2>1. o.content \in Seq(Blobs) /\ BlobsOf(o.content) = ToSet(o.content)
      BY <1>1, ContentBlobs
    <2> QED BY <2>1, WithoutSet
  <1>5. CASE Len(o.todo) > 1
    <2>1. next = [[o EXCEPT !.hits = hits] EXCEPT !.todo = t, !.at = "stat"]
      BY <1>3, <1>5 DEF NextLayer, Ops, Hits
    <2>2. next \in Ops /\ next.at = "stat" /\ next.todo = t /\ next.kind = o.kind
          /\ next.content = o.content /\ next.lost = o.lost /\ next.name = o.name
          /\ next.hits = hits
      BY ZenonT(60), <2>1 DEF Ops
    <2> QED BY <1>1, <1>2, <1>3, <1>5, <2>2 DEF Shape, Dropping
  <1>6. CASE ~(Len(o.todo) > 1)
    <2>1. next = [[o EXCEPT !.hits = hits] EXCEPT !.todo = u, !.at = "verify"]
      BY <1>4, <1>6 DEF NextLayer, Ops, Hits
    <2>2. next \in Ops /\ next.at = "verify" /\ next.todo = u /\ next.kind = o.kind
          /\ next.content = o.content /\ next.lost = o.lost /\ next.name = o.name
          /\ next.hits = hits
      BY ZenonT(60), <2>1 DEF Ops
    <2>3. Len(o.todo) = 1
      <3>1. PICK n : n = Len(o.todo)
        OBVIOUS
      <3>2. n \in Nat \ {0} /\ ~(n > 1)
        BY <1>2, <1>6, <3>1
      <3>3. n = 1
        BY <3>2
      <3> QED BY <3>1, <3>3
    <2> QED BY <1>1, <1>2, <1>4, <2>2, <2>3 DEF Shape, Dropping
  <1> QED BY <1>5, <1>6

\* A layer is found in the store or fetched into it.
LEMMA LayerKeeps ==
  ASSUME Inv, NEW w \in Writers, op[w].at \in {"stat", "fetch"}, NEW hits \in SUBSET Blobs,
         NEW d, d = Head(op[w].todo), NEW gone \in SUBSET {d},
         Goes(w, NextLayer(Hits(op[w], hits)), {d}, gone, {}),
         NEW names \in SUBSET Names, Told(names), UNCHANGED <<manifests, entries, hydrated>>,
         blobs' \in [Blobs -> {"none", "good", "bad"}], d \in Present',
         BlobsKeep(gone), SameBut(names \cup IF op[w].at # "idle" THEN {op[w].name} ELSE {})
  PROVE  Inv'
  <1>1. PICK o \in Ops : o = op[w]
    BY DEF Inv, TypeInv
  <1>2. PICK next : next = NextLayer(Hits(o, hits))
    OBVIOUS
  <1>3. Shape(o) /\ Holds(o) /\ o.at \in {"stat", "fetch"}
    BY <1>1 DEF Inv, OpsInv, OwnInv
  <1>4. /\ next \in Ops /\ Shape(next) /\ next.at \in {"stat", "verify"}
        /\ next.kind = "pull" /\ next.name = o.name /\ next.content = o.content
        /\ next.lost = o.lost /\ next.hits = hits /\ o.content \in Contents
        /\ Head(o.todo) \in Blobs
        /\ next.at = "stat" => ToSet(o.todo) \subseteq {Head(o.todo)} \cup ToSet(next.todo)
        /\ next.at = "verify" => /\ ToSet(o.todo) = {Head(o.todo)}
                                 /\ ToSet(next.todo) = BlobsOf(o.content) \ hits
    BY <1>2, <1>3, NextLayerHas
  <1>5. PICK last : last = Gone(next, {d})
    OBVIOUS
  <1>6. /\ last.at = next.at /\ last.kind = next.kind /\ last.name = next.name
        /\ last.src = next.src /\ last.content = next.content /\ last.todo = next.todo
        /\ last.hits = next.hits /\ last.del = next.del /\ last.toread = next.toread
        /\ last.then = next.then /\ last.lost = next.lost \ {d}
    BY <1>4, <1>5 DEF Gone, Ops
  <1>7. Shape(last)
    BY <1>4, <1>6 DEF Shape, Dropping
  <1>8. BlobsOf(o.content) \ (ToSet(next.todo) \cup last.lost) \subseteq Present' \/ next.at # "stat"
    <2> SUFFICES ASSUME next.at = "stat", NEW b \in BlobsOf(o.content), b \notin ToSet(next.todo),
                        b \notin last.lost
                 PROVE  b \in Present'
      OBVIOUS
    <2>1. CASE b = d
      BY <2>1
    <2>2. CASE b # d
      <3>1. b \notin o.lost /\ b \notin ToSet(o.todo)
        BY <1>1, <1>4, <1>6, <2>2
      <3>2. b \in Present
        BY <1>1, <1>3, <3>1 DEF Holds, Gathering
      <3> QED BY <2>2, <3>2 DEF BlobsKeep, Present
    <2> QED BY <2>1, <2>2
  <1>9. BlobsOf(o.content) \ last.lost \subseteq Present' \/ next.at # "verify"
    <2> SUFFICES ASSUME next.at = "verify", NEW b \in BlobsOf(o.content), b \notin last.lost
                 PROVE  b \in Present'
      OBVIOUS
    <2>1. CASE b = d
      BY <2>1
    <2>2. CASE b # d
      <3>1. b \notin o.lost /\ b \notin ToSet(o.todo)
        BY <1>1, <1>4, <1>6, <2>2
      <3>2. b \in Present
        BY <1>1, <1>3, <3>1 DEF Holds, Gathering
      <3> QED BY <2>2, <3>2 DEF BlobsKeep, Present
    <2> QED BY <2>1, <2>2
  <1>10. OwnInv(last)'
    BY <1>4, <1>6, <1>7, <1>8, <1>9 DEF OwnInv, Holds, Spares, Gathering, Dropping
  <1>11. ManifestsKeep({})
    BY DEF ManifestsKeep
  <1>12. Goes(w, next, {d}, gone, {}) /\ OwnInv(Gone(next, {d}))'
    BY <1>1, <1>2, <1>5, <1>10
  <1>13. gone \in SUBSET Blobs
    BY <1>1, <1>4
  <1>14. op[w].at # "idle" /\ next.name = op[w].name
    BY <1>1, <1>4
  <1> QED BY <1>4, <1>11, <1>12, <1>13, <1>14, RequestKeeps DEF Inv, TypeInv

LEMMA PullStatKeeps ==
  ASSUME Inv, NEW w \in Writers, PullStat(w)
  PROVE  Inv'
  <1>1. PICK o \in Ops : o = op[w]
    BY DEF Inv, TypeInv
  <1>2. PICK d : d = Head(o.todo)
    OBVIOUS
  <1>3. TypeInv /\ Shape(o) /\ Holds(o) /\ o.at = "stat"
    BY <1>1 DEF Inv, OpsInv, OwnInv, PullStat
  <1>4. d \in Blobs
    BY <1>2, <1>3, HeadTail, OpFields DEF Shape
  <1>5. CASE d \in Present
    <2>1. PICK hits \in SUBSET Blobs : hits = o.hits \cup {d}
      BY <1>4, OpFields
    <2>2. Goes(w, NextLayer(Hits(o, hits)), {d}, {}, {})
      BY <1>1, <1>2, <1>5, <2>1 DEF PullStat, Hits
    <2>3. UNCHANGED <<manifests, blobs, entries, hydrated, scans>>
      BY DEF PullStat
    <2>4. d \in Present'
      BY <1>5, <2>3 DEF Present
    <2>5. /\ blobs' \in [Blobs -> {"none", "good", "bad"}] /\ BlobsKeep({}) /\ Told({})
          /\ {} \in SUBSET {d} /\ {} \in SUBSET Names
      BY <1>3, <2>3, SameWorld DEF Told
    <2>6. SameBut({} \cup IF op[w].at # "idle" THEN {op[w].name} ELSE {})
      BY <1>3, <2>3, SameWorld
    <2>7. op[w].at \in {"stat", "fetch"} /\ d = Head(op[w].todo)
      BY <1>1, <1>2, <1>3
    <2>8. Goes(w, NextLayer(Hits(op[w], hits)), {d}, {}, {})
      BY <1>1, <2>2
    <2> QED BY <2>3, <2>4, <2>5, <2>6, <2>7, <2>8, LayerKeeps
  <1>6. CASE d \notin Present
    <2>1. PICK next : next = [o EXCEPT !.at = "fetch"]
      OBVIOUS
    <2>2. Go(w, next) /\ UNCHANGED <<manifests, blobs, entries, hydrated, scans>>
      BY <1>1, <1>2, <1>6, <2>1 DEF PullStat
    <2>3. next \in Ops /\ next.name = o.name
      BY <2>1 DEF Ops
    <2>4. OwnInv(next)
      BY <1>3, <2>1 DEF Ops, OwnInv, Shape, Holds, Spares, Gathering, Dropping
    <2> QED BY <1>1, <1>3, <2>2, <2>3, <2>4, GoKeeps
  <1> QED BY <1>5, <1>6

LEMMA PullFetchKeeps ==
  ASSUME Inv, NEW w \in Writers, PullFetch(w)
  PROVE  Inv'
  <1>1. PICK o \in Ops : o = op[w]
    BY DEF Inv, TypeInv
  <1>2. PICK d : d = Head(o.todo)
    OBVIOUS
  <1>3. TypeInv /\ Shape(o) /\ Holds(o) /\ o.at = "fetch"
    BY <1>1 DEF Inv, OpsInv, OwnInv, PullFetch
  <1>4. d \in Blobs
    BY <1>2, <1>3, HeadTail, OpFields DEF Shape
  <1>5. PICK hits \in SUBSET Blobs : hits = o.hits \ {d}
    BY OpFields
  <1>6. Goes(w, NextLayer(Hits(o, hits)), {d}, {d}, {})
    BY <1>1, <1>2, <1>5 DEF PullFetch, Hits
  <1>7. UNCHANGED <<manifests, entries, hydrated>> /\ Told(Users(d))
    BY <1>1, <1>2 DEF PullFetch, Told
  <1>8. PICK quality \in {"good", "bad"} : blobs' = [blobs EXCEPT ![d] = quality]
    BY <1>1, <1>2 DEF PullFetch
  <1>9. /\ blobs' \in [Blobs -> {"none", "good", "bad"}] /\ d \in Present'
        /\ BlobsKeep({d})
    BY <1>3, <1>4, <1>8 DEF TypeInv, Present, BlobsKeep
  <1>10. \A names : SameBut(Users(d) \cup names) /\ Users(d) \in SUBSET Names
    BY <1>3, <1>7, <1>8, UsersSame
  <1>11. {d} \in SUBSET {d} /\ op[w].at \in {"stat", "fetch"} /\ d = Head(op[w].todo)
    BY <1>1, <1>2, <1>3
  <1> QED BY <1>1, <1>6, <1>7, <1>9, <1>10, <1>11, LayerKeeps

LEMMA PullVerifyKeeps ==
  ASSUME Inv, NEW w \in Writers, PullVerify(w)
  PROVE  Inv'
  <1>1. PICK o \in Ops : o = op[w]
    BY DEF Inv, TypeInv
  <1>2. PICK d : d = Head(o.todo)
    OBVIOUS
  <1>3. TypeInv /\ Shape(o) /\ Holds(o) /\ o.at = "verify"
    BY <1>1 DEF Inv, OpsInv, OwnInv, PullVerify
  <1>4. UNCHANGED <<manifests, entries, hydrated>>
    BY DEF PullVerify
  <1>5. CASE o.todo = <<>>
    <2>1. PICK old \in SUBSET Blobs : old = o.old \ BlobsOf(o.content)
      BY OpFields
    <2>2. PICK next : next = [o EXCEPT !.at = "write", !.old = old]
      OBVIOUS
    <2>3. Go(w, next) /\ UNCHANGED <<blobs, scans>>
      BY <1>1, <1>5, <2>1, <2>2 DEF PullVerify
    <2>4. next \in Ops /\ next.name = o.name
      BY <2>2 DEF Ops
    <2>5. ToSet(o.todo) = {}
      BY <1>5 DEF ToSet
    <2>6. OwnInv(next)
      BY <1>3, <2>2, <2>5 DEF Ops, OwnInv, Shape, Holds, Spares, Gathering, Dropping
    <2> QED BY <1>1, <1>3, <1>4, <2>3, <2>4, <2>6, GoKeeps
  <1>6. CASE o.todo # <<>> /\ blobs[d] = "good"
    <2>1. PICK t \in Seq(Blobs) : /\ t = Tail(o.todo)
                                  /\ ToSet(o.todo) \subseteq {d} \cup ToSet(t)
      <3>1. o.todo \in Seq(Blobs)
        BY OpFields
      <3>2. Tail(o.todo) \in Seq(Blobs) /\ ToSet(o.todo) \subseteq {d} \cup ToSet(Tail(o.todo))
        BY <1>2, <1>6, <3>1, HeadTail
      <3> QED BY <3>2
    <2>2. PICK next : next = [o EXCEPT !.todo = t]
      OBVIOUS
    <2>3. Go(w, next) /\ UNCHANGED <<blobs, scans>>
      BY <1>1, <1>2, <1>6, <2>1, <2>2 DEF PullVerify
    <2>4. next \in Ops /\ next.name = o.name
      BY <2>2 DEF Ops
    <2>5. /\ next.at = "verify" /\ next.todo = t /\ next.content = o.content
          /\ next.hits = o.hits /\ next.lost = o.lost /\ next.kind = o.kind
      BY <1>3, <2>2 DEF Ops
    <2>6. \A b \in BlobsOf(o.content) \ (o.hits \cup o.lost \cup ToSet(t)) : blobs[b] = "good"
      BY <1>3, <1>6, <2>1 DEF Holds
    <2>7. OwnInv(next)
      BY <1>3, <2>4, <2>5, <2>6 DEF OwnInv, Shape, Holds, Spares, Gathering, Dropping
    <2> QED BY <1>1, <1>3, <1>4, <2>3, <2>4, <2>7, GoKeeps
  <1>7. CASE o.todo # <<>> /\ blobs[d] # "good"
    <2>1. d \in Blobs
      BY <1>2, <1>7, HeadTail, OpFields
    <2>2. /\ blobs' = [blobs EXCEPT ![d] = "none"] /\ Goes(w, NoOp, {}, {d}, {})
          /\ Told(Users(d))
      BY <1>1, <1>2, <1>7 DEF PullVerify, Told
    <2>3. blobs' \in [Blobs -> {"none", "good", "bad"}] /\ BlobsKeep({d})
      BY <1>3, <2>1, <2>2 DEF TypeInv, BlobsKeep
    <2>4. \A names : SameBut(Users(d) \cup names) /\ Users(d) \in SUBSET Names /\ ManifestsKeep({})
      BY <1>3, <1>4, <2>2, UsersSame
    <2>5. NoOp \in Ops /\ NoOp.at = "idle" /\ OwnInv(Gone(NoOp, {}))'
      BY IdleOwn
    <2> QED BY <1>3, <1>4, <2>2, <2>3, <2>4, <2>5, RequestKeeps DEF TypeInv
  <1> QED BY <1>5, <1>6, <1>7

LEMMA FailsKeep ==
  ASSUME Inv, NEW w \in Writers, PullFails(w) \/ CreateFails(w)
  PROVE  Inv'
  <1>1. /\ Go(w, NoOp) /\ UNCHANGED <<manifests, blobs, entries, hydrated, scans>>
        /\ op[w].at # "idle"
    BY DEF PullFails, CreateFails
  <1> QED BY <1>1, IdleOwn, GoKeeps

----------------------------------------------------------------------------
(* The layers of a create.                                                 *)

LEMMA CreateFromKeeps ==
  ASSUME Inv, NEW w \in Writers, CreateFrom(w)
  PROVE  Inv'
  <1>1. PICK o \in Ops : o = op[w]
    BY DEF Inv, TypeInv
  <1>2. TypeInv /\ Shape(o) /\ o.at = "from" /\ UNCHANGED <<manifests, blobs, entries, hydrated, scans>>
    BY <1>1 DEF Inv, OpsInv, OwnInv, CreateFrom
  <1>3. o.kind = "create" /\ o.name \in Names /\ o.src \in Names /\ o.content \in Contents
    BY <1>2 DEF Shape
  <1>4. PICK m : m = manifests[o.src]
    OBVIOUS
  <1>5. PICK layers \in Seq(Blobs) : layers = IF Readable(m) THEN Front(m) ELSE <<>>
    <2>1. Readable(m) => Front(m) \in Seq(Blobs)
      BY ContentBlobs DEF Readable
    <2>2. <<>> \in Seq(Blobs)
      OBVIOUS
    <2> QED BY <2>1, <2>2
  <1>6. PICK kept : kept = ToSet(layers) \cap BlobsOf(o.content)
    OBVIOUS
  <1>7. PICK drop \in SUBSET Blobs : drop = ToSet(layers) \ kept
    <2>1. ToSet(layers) \subseteq Blobs
      <3>1. CASE layers = <<>>
        BY <3>1 DEF ToSet
      <3>2. CASE layers # <<>>
        BY <3>2, HeadTail
      <3> QED BY <3>1, <3>2
    <2> QED BY <2>1
  <1>8. PICK todo \in Seq(Blobs) :
           /\ todo = Append(Without(Front(o.content), kept), Last(o.content))
           /\ todo # <<>> /\ BlobsOf(o.content) \ ToSet(todo) \subseteq kept
    <2>1. /\ Front(o.content) \in Seq(Blobs) /\ Last(o.content) \in Blobs
          /\ BlobsOf(o.content) = ToSet(Front(o.content)) \cup {Last(o.content)}
      BY <1>3, ContentBlobs
    <2>2. PICK f \in Seq(Blobs) : f = Without(Front(o.content), kept)
                                  /\ ToSet(f) = ToSet(Front(o.content)) \ kept
      BY <2>1, WithoutSet
    <2>3. /\ Append(f, Last(o.content)) \in Seq(Blobs) /\ Append(f, Last(o.content)) # <<>>
          /\ ToSet(Append(f, Last(o.content))) = ToSet(f) \cup {Last(o.content)}
      BY <2>1, AppendSet
    <2> QED BY <2>1, <2>2, <2>3
  <1>9. CASE Readable(m) /\ ToSet(layers) \subseteq Present
    <2>1. PICK at \in {"make", "glob"} : at = IF drop = {} THEN "make" ELSE "glob"
      OBVIOUS
    <2>2. PICK next : next = [o EXCEPT !.todo = todo, !.at = at, !.src = Absent, !.del = drop,
                                       !.then = "make"]
      OBVIOUS
    <2>3. [[o EXCEPT !.todo = todo] EXCEPT !.at = at, !.src = Absent, !.del = drop,
                                           !.then = "make"] = next
      BY <2>2 DEF Ops
    <2>4. Goes(w, [[o EXCEPT !.todo = todo] EXCEPT !.at = at, !.src = Absent, !.del = drop,
                                                   !.then = "make"], kept, {}, {})
      BY <1>1, <1>4, <1>5, <1>6, <1>7, <1>8, <1>9, <2>1 DEF CreateFrom
    <2>5. Goes(w, next, kept, {}, {})
      BY <2>3, <2>4
    <2>6. /\ next \in Ops /\ next.name = o.name /\ next.at = at /\ next.kind = "create"
          /\ next.content = o.content /\ next.todo = todo /\ next.del = drop /\ next.then = "make"
      BY <1>3, <2>2 DEF Ops
    <2>7. PICK last : last = Gone(next, kept)
      OBVIOUS
    <2>8. /\ last.at = at /\ last.kind = "create" /\ last.name = o.name /\ last.del = drop
          /\ last.content = o.content /\ last.todo = todo /\ last.then = "make"
      BY <2>6, <2>7 DEF Gone, Ops
    <2>9. drop \cap BlobsOf(o.content) = {}
      BY <1>6, <1>7
    <2>10. kept \subseteq Present
      BY <1>6, <1>9
    <2>11. OwnInv(last)
      BY <1>3, <1>8, <2>8, <2>9, <2>10 DEF OwnInv, Shape, Holds, Spares, Gathering, Dropping
    <2>12. OwnInv(Gone(next, kept))
      BY <2>7, <2>11
    <2> QED BY <1>1, <1>2, <2>5, <2>6, <2>12, QuietKeeps
  <1>10. CASE ~(Readable(m) /\ ToSet(layers) \subseteq Present)
    <2>1. PICK next : next = [NoOp EXCEPT !.at = "make", !.kind = "adrift", !.name = o.name,
                                          !.todo = todo]
      OBVIOUS
    <2>2. [o EXCEPT !.todo = todo].todo = todo
      BY DEF Ops
    <2>3. Go(w, next)
      BY <1>1, <1>4, <1>5, <1>6, <1>8, <1>10, <2>1, <2>2 DEF CreateFrom
    <2>4. /\ next \in Ops /\ next.name = o.name /\ next.at = "make" /\ next.kind = "adrift"
          /\ next.todo = todo
      BY <1>3, <2>1 DEF NoOp, Ops
    <2>5. OwnInv(next)
      BY <1>3, <1>8, <2>4 DEF OwnInv, Shape, Holds, Spares, Gathering, Dropping
    <2> QED BY <1>1, <1>2, <2>3, <2>4, <2>5, GoKeeps
  <1> QED BY <1>9, <1>10

LEMMA CreateLayerKeeps ==
  ASSUME Inv, NEW w \in Writers, CreateLayer(w)
  PROVE  Inv'
  <1>1. PICK o \in Ops : o = op[w]
    BY DEF Inv, TypeInv
  <1>2. /\ TypeInv /\ Shape(o) /\ Holds(o) /\ o.at = "make"
        /\ UNCHANGED <<manifests, entries, hydrated>>
    BY <1>1 DEF Inv, OpsInv, OwnInv, CreateLayer
  <1>3. /\ o.todo # <<>> /\ o.todo \in Seq(Blobs) /\ o.name \in Names
        /\ o.kind = "adrift" \/ (o.kind = "create" /\ o.content \in Contents)
    BY <1>2, OpFields DEF Shape
  <1>4. PICK d \in Blobs : d = Head(o.todo) /\ (Len(o.todo) = 1 => ToSet(o.todo) = {d})
    BY <1>3, HeadTail
  <1>5. PICK t \in Seq(Blobs) : /\ t = Tail(o.todo) /\ ToSet(o.todo) \subseteq {d} \cup ToSet(t)
                                /\ (Len(o.todo) > 1 => t # <<>>)
    <2>1. /\ Tail(o.todo) \in Seq(Blobs) /\ (Len(o.todo) > 1 => Tail(o.todo) # <<>>)
          /\ ToSet(o.todo) \subseteq {Head(o.todo)} \cup ToSet(Tail(o.todo))
      BY <1>3, HeadTail
    <2> QED BY <1>4, <2>1
  <1>6. Len(o.todo) > 1 \/ Len(o.todo) = 1
    <2>1. PICK n \in Nat \ {0} : n = Len(o.todo)
      BY <1>3, HeadTail
    <2>2. n > 1 \/ n = 1
      OBVIOUS
    <2> QED BY <2>1, <2>2
  <1>7. blobs' = [blobs EXCEPT ![d] = IF d \in Present THEN blobs[d] ELSE "good"]
    BY <1>1, <1>4 DEF CreateLayer
  <1>8. /\ blobs' \in [Blobs -> {"none", "good", "bad"}] /\ BlobsKeep({}) /\ d \in Present'
    BY <1>2, <1>7 DEF TypeInv, BlobsKeep, Present
  <1>9. PICK names \in SUBSET Names : Told(names) /\ \A more : SameBut(names \cup more)
    <2>1. CASE d \in Present
      <3>1. blobs' = blobs
        BY <1>2, <1>7, <2>1 DEF TypeInv
      <3>2. Told({})
        BY <1>1, <1>4, <2>1 DEF CreateLayer, Told
      <3>3. \A more : SameBut({} \cup more)
        BY <1>2, <3>1, SameWorld
      <3> QED BY <3>2, <3>3
    <2>2. CASE d \notin Present
      <3>1. Told(Users(d))
        BY <1>1, <1>4, <2>2 DEF CreateLayer, Told
      <3>2. (\A more : SameBut(Users(d) \cup more)) /\ Users(d) \in SUBSET Names
        BY <1>2, <1>7, UsersSame
      <3> QED BY <3>1, <3>2
    <2> QED BY <2>1, <2>2
  <1>10. ManifestsKeep({})
    BY <1>2 DEF ManifestsKeep
  <1>11. CASE Len(o.todo) = 1 /\ o.kind = "adrift"
    <2>1. Goes(w, NoOp, {d}, {}, {})
      BY <1>1, <1>4, <1>11 DEF CreateLayer
    <2>2. OwnInv(Gone(NoOp, {d}))'
      <3>1. Gone(NoOp, {d}) = NoOp
        <4>1. NoOp \in Ops /\ NoOp.lost \ {d} = NoOp.lost
          BY IdleOwn DEF NoOp
        <4> QED BY <4>1 DEF Gone, Ops
      <3> QED BY <3>1, IdleOwn
    <2> QED BY <1>2, <1>8, <1>9, <1>10, <2>1, <2>2, IdleOwn, RequestKeeps DEF TypeInv
  <1>12. CASE ~(Len(o.todo) = 1 /\ o.kind = "adrift")
    <2>1. PICK at \in {"make", "write"} : at = IF Len(o.todo) > 1 THEN "make" ELSE "write"
      OBVIOUS
    <2>2. PICK next : next = [o EXCEPT !.todo = t, !.at = at]
      OBVIOUS
    <2>3. Goes(w, next, {d}, {}, {})
      BY <1>1, <1>4, <1>5, <1>12, <2>1, <2>2 DEF CreateLayer
    <2>4. /\ next \in Ops /\ next.name = o.name /\ next.at = at /\ next.kind = o.kind
          /\ next.content = o.content /\ next.todo = t /\ next.lost = o.lost
      BY <2>2 DEF Ops
    <2>5. PICK last : last = Gone(next, {d})
      OBVIOUS
    <2>6. /\ last.name = o.name /\ last.at = at /\ last.kind = o.kind
          /\ last.content = o.content /\ last.todo = t /\ last.lost = o.lost \ {d}
      BY <2>4, <2>5 DEF Ops, Gone
    <2>7. at = "make" => t # <<>>
      BY <1>5, <2>1
    <2>8. at = "write" => o.kind = "create" /\ ToSet(o.todo) = {d}
      BY <1>3, <1>4, <1>6, <1>12, <2>1
    <2>9. Shape(last)
      BY <1>3, <2>1, <2>6, <2>7, <2>8 DEF Shape, Dropping
    <2>10. ASSUME o.kind = "create", NEW b \in BlobsOf(o.content), b \notin last.lost,
                  b \notin ToSet(t) \/ at = "write"
           PROVE  b \in Present'
      <3>1. CASE b = d
        BY <1>8, <3>1
      <3>2. CASE b # d
        <4>1. b \notin o.lost /\ b \notin ToSet(o.todo)
          BY <1>5, <2>6, <2>8, <2>10, <3>2
        <4>2. b \in Present
          BY <1>2, <2>10, <4>1 DEF Holds, Gathering
        <4> QED BY <1>8, <4>2 DEF BlobsKeep, Present
      <3> QED BY <3>1, <3>2
    <2>11. OwnInv(last)'
      BY <2>1, <2>6, <2>8, <2>9, <2>10 DEF OwnInv, Holds, Spares, Gathering, Dropping
    <2>12. OwnInv(Gone(next, {d}))'
      BY <2>5, <2>11
    <2>13. op[w].at # "idle" /\ next.name = op[w].name
      BY <1>1, <1>2, <2>4
    <2> QED BY <1>2, <1>8, <1>9, <1>10, <2>3, <2>4, <2>12, <2>13, RequestKeeps DEF TypeInv
  <1> QED BY <1>11, <1>12

----------------------------------------------------------------------------
(* Manifests are written and removed.                                      *)

LEMMA TruncateKeeps ==
  ASSUME Inv, NEW w \in Writers, Truncate(w)
  PROVE  Inv'
  <1>1. PICK o \in Ops : o = op[w]
    BY DEF Inv, TypeInv
  <1>2. /\ TypeInv /\ Shape(o) /\ Holds(o) /\ o.at = "write" /\ o.name \in Names
        /\ UNCHANGED <<blobs, entries, hydrated, scans>>
        /\ manifests' = [manifests EXCEPT ![o.name] = Torn]
    BY <1>1 DEF Inv, OpsInv, OwnInv, Truncate, Shape
  <1>3. PICK next : next = [o EXCEPT !.at = "encode"]
    OBVIOUS
  <1>4. Goes(w, next, {}, {}, {})
    BY <1>1, <1>3 DEF Truncate, Go
  <1>5. next \in Ops /\ next.name = o.name
    BY <1>3 DEF Ops
  <1>6. OwnInv(next)'
    BY <1>2, <1>3 DEF Ops, OwnInv, Shape, Holds, Spares, Gathering, Dropping, Present
  <1>7. OwnInv(Gone(next, {}))'
    BY <1>5, <1>6, GoneNothing
  <1>8. BlobsOf(Torn) = {}
    BY ModelStoreAssumption DEF BlobsOf, Readable
  <1>9. /\ manifests' \in [Names -> Contents \cup {Absent, Torn}]
        /\ blobs' \in [Blobs -> {"none", "good", "bad"}]
        /\ entries' \in [Names -> Contents \cup {Absent}]
        /\ BlobsKeep({}) /\ ManifestsKeep({}) /\ Told({}) /\ SameBut({} \cup {o.name})
    BY <1>2, <1>8 DEF TypeInv, BlobsKeep, ManifestsKeep, SameBut, Told, Builds
  <1>10. op[w].at # "idle" /\ next.name = op[w].name /\ o.name = op[w].name
    BY <1>1, <1>2, <1>5
  <1> QED BY <1>2, <1>4, <1>5, <1>7, <1>9, <1>10, RequestKeeps

LEMMA EncodeKeeps ==
  ASSUME Inv, NEW w \in Writers, Encode(w)
  PROVE  Inv'
  <1>1. PICK o \in Ops : o = op[w]
    BY DEF Inv, TypeInv
  <1>2. /\ TypeInv /\ Shape(o) /\ o.at = "encode" /\ o.name \in Names
        /\ UNCHANGED <<blobs, entries, hydrated, scans>>
    BY <1>1 DEF Inv, OpsInv, OwnInv, Encode, Shape
  <1>3. PICK next : next = [NoOp EXCEPT !.at = IF o.old = {} THEN "refresh" ELSE "glob",
                                        !.kind = IF o.kind = "pull" THEN "pull" ELSE "none",
                                        !.name = o.name, !.del = o.old, !.then = "refresh"]
    OBVIOUS
  <1>4. PICK m \in Written(o) : /\ manifests' = [manifests EXCEPT ![o.name] = m]
                                /\ Goes(w, next, {}, {}, BlobsOf(m))
    BY <1>1, <1>3 DEF Encode
  <1>5. m \in Contents \cup {Torn} /\ BlobsOf(m) \in SUBSET Blobs
    <2>1. m \in Contents \cup {Torn}
      BY <1>2, <1>4, OpFields DEF Written, Shape, TypeInv
    <2> QED BY <2>1, AnyBlobs
  <1>6. PICK at \in {"refresh", "glob"} : at = IF o.old = {} THEN "refresh" ELSE "glob"
    OBVIOUS
  <1>7. PICK kind \in {"pull", "none"} : kind = IF o.kind = "pull" THEN "pull" ELSE "none"
    OBVIOUS
  <1>8. PICK old \in SUBSET Blobs : old = o.old
    BY OpFields
  <1>9. next = [NoOp EXCEPT !.at = at, !.kind = kind, !.name = o.name, !.del = old,
                            !.then = "refresh"]
    BY <1>3, <1>6, <1>7, <1>8
  <1>10. next \in Ops /\ next.name = o.name /\ next.at = at /\ next.then = "refresh"
    <2>1. NoOp \in Ops
      BY IdleOwn
    <2> QED BY <1>2, <1>9, <2>1 DEF Ops
  <1>11. OwnInv(next)'
    BY <1>2, <1>6, <1>10 DEF OwnInv, Shape, Holds, Spares, Gathering, Dropping
  <1>12. OwnInv(Gone(next, {}))'
    BY <1>10, <1>11, GoneNothing
  <1>13. /\ manifests' \in [Names -> Contents \cup {Absent, Torn}]
         /\ blobs' \in [Blobs -> {"none", "good", "bad"}]
         /\ entries' \in [Names -> Contents \cup {Absent}]
         /\ BlobsKeep({}) /\ ManifestsKeep(BlobsOf(m)) /\ Told({}) /\ SameBut({} \cup {o.name})
    BY <1>2, <1>4, <1>5 DEF TypeInv, BlobsKeep, ManifestsKeep, SameBut, Told, Builds
  <1>14. op[w].at # "idle" /\ next.name = op[w].name /\ o.name = op[w].name
    BY <1>1, <1>2, <1>10
  <1> QED BY <1>2, <1>4, <1>5, <1>10, <1>12, <1>13, <1>14, RequestKeeps

LEMMA UnlinkKeeps ==
  ASSUME Inv, NEW w \in Writers, Unlink(w)
  PROVE  Inv'
  <1>1. PICK o \in Ops : o = op[w]
    BY DEF Inv, TypeInv
  <1>2. /\ TypeInv /\ Shape(o) /\ o.at = "unlink" /\ o.name \in Names
        /\ UNCHANGED <<blobs, entries, hydrated, scans>>
        /\ manifests' = [manifests EXCEPT ![o.name] = Absent]
    BY <1>1 DEF Inv, OpsInv, OwnInv, Unlink, Shape
  <1>3. PICK next \in {NoOp, [o EXCEPT !.at = "forget"]} : Goes(w, next, {}, {}, {})
    BY <1>1 DEF Unlink, Go
  <1>4. next \in Ops /\ (next.at # "idle" => next.name = o.name) /\ OwnInv(next)'
    <2>1. CASE next = NoOp
      BY <2>1, IdleOwn
    <2>2. CASE next = [o EXCEPT !.at = "forget"]
      <3>1. next \in Ops /\ next.name = o.name /\ next.at = "forget"
        BY <2>2 DEF Ops
      <3> QED BY <1>2, <3>1 DEF OwnInv, Shape, Holds, Spares, Gathering, Dropping
    <2> QED BY <1>3, <2>1, <2>2
  <1>5. OwnInv(Gone(next, {}))'
    BY <1>4, GoneNothing
  <1>6. BlobsOf(Absent) = {}
    BY ModelStoreAssumption DEF BlobsOf, Readable
  <1>7. /\ manifests' \in [Names -> Contents \cup {Absent, Torn}]
        /\ blobs' \in [Blobs -> {"none", "good", "bad"}]
        /\ entries' \in [Names -> Contents \cup {Absent}]
        /\ BlobsKeep({}) /\ ManifestsKeep({}) /\ Told({}) /\ SameBut({} \cup {o.name})
    BY <1>2, <1>6 DEF TypeInv, BlobsKeep, ManifestsKeep, SameBut, Told, Builds
  <1>8. op[w].at # "idle" /\ o.name = op[w].name
    BY <1>1, <1>2
  <1> QED BY <1>2, <1>3, <1>4, <1>5, <1>7, <1>8, RequestKeeps

\* The entry of the request's own name is changed.
LEMMA EntryKeeps ==
  ASSUME Inv, NEW w \in Writers, op[w].at # "idle", op[w].name \in Names,
         NEW entry \in Contents \cup {Absent}, entries' = [entries EXCEPT ![op[w].name] = entry],
         NEW next \in Ops, Go(w, next), next.at # "idle" => next.name = op[w].name,
         UNCHANGED <<manifests, blobs, hydrated, scans>>, OwnInv(next)
  PROVE  Inv'
  <1>1. TypeInv
    BY DEF Inv
  <1>2. /\ manifests' \in [Names -> Contents \cup {Absent, Torn}]
        /\ blobs' \in [Blobs -> {"none", "good", "bad"}]
        /\ entries' \in [Names -> Contents \cup {Absent}]
        /\ BlobsKeep({}) /\ ManifestsKeep({}) /\ Told({}) /\ SameBut({} \cup {op[w].name})
    BY <1>1 DEF TypeInv, BlobsKeep, ManifestsKeep, SameBut, Told, Builds
  <1>3. OwnInv(next)'
    BY DEF OwnInv, Holds, Spares, Present
  <1>4. OwnInv(Gone(next, {}))'
    BY <1>3, GoneNothing
  <1>5. Goes(w, next, {}, {}, {})
    BY DEF Go
  <1> QED BY <1>2, <1>4, <1>5, RequestKeeps

LEMMA ForgetKeeps ==
  ASSUME Inv, NEW w \in Writers, Forget(w)
  PROVE  Inv'
  <1>1. PICK o \in Ops : o = op[w]
    BY DEF Inv, TypeInv
  <1>2. /\ Shape(o) /\ o.at = "forget" /\ o.name \in Names
        /\ UNCHANGED <<manifests, blobs, hydrated, scans>>
        /\ entries' = [entries EXCEPT ![o.name] = Absent]
    BY <1>1 DEF Inv, OpsInv, OwnInv, Forget, Shape
  <1>3. PICK old \in SUBSET Blobs : old = o.old
    BY OpFields
  <1>4. PICK next : next = [NoOp EXCEPT !.at = "glob", !.name = o.name, !.del = old]
    OBVIOUS
  <1>5. Go(w, next)
    BY <1>1, <1>3, <1>4 DEF Forget
  <1>6. next \in Ops /\ next.name = o.name /\ next.at = "glob" /\ next.then = "idle"
    <2>1. NoOp \in Ops /\ NoOp.then = "idle"
      BY IdleOwn DEF NoOp
    <2> QED BY <1>2, <1>4, <2>1 DEF Ops
  <1>7. OwnInv(next)
    BY <1>2, <1>6 DEF OwnInv, Shape, Holds, Spares, Gathering, Dropping
  <1>8. op[w].at # "idle" /\ o.name = op[w].name
    BY <1>1, <1>2
  <1> QED BY <1>2, <1>5, <1>6, <1>7, <1>8, EntryKeeps

----------------------------------------------------------------------------
(* Blobs are removed.                                                      *)

LEMMA GlobKeeps ==
  ASSUME Inv, NEW w \in Writers, Glob(w)
  PROVE  Inv'
  <1>1. PICK o \in Ops : o = op[w]
    BY DEF Inv, TypeInv
  <1>2. /\ TypeInv /\ Shape(o) /\ Holds(o) /\ o.at = "glob" /\ o.name \in Names
        /\ UNCHANGED <<manifests, blobs, entries, hydrated, scans>>
    BY <1>1 DEF Inv, OpsInv, OwnInv, Glob, Shape
  <1>3. PICK names \in SUBSET Names : names = {n \in Names : manifests[n] # Absent}
    OBVIOUS
  <1>4. PICK next : next = [o EXCEPT !.at = "read", !.missed = {}, !.toread = names]
    OBVIOUS
  <1>5. Go(w, next)
    BY <1>1, <1>3, <1>4 DEF Glob
  <1>6. /\ next \in Ops /\ next.name = o.name /\ next.at = "read" /\ next.toread = names
        /\ next.kind = o.kind /\ next.content = o.content /\ next.todo = o.todo
        /\ next.del = o.del /\ next.then = o.then /\ next.lost = o.lost
    BY <1>4 DEF Ops
  <1>7. Shape(next) /\ Holds(next)
    BY <1>2, <1>6 DEF Shape, Holds, Gathering, Dropping
  <1>8. Spares(next)
    <2>1. BlobsOf(Absent) = {}
      BY ModelStoreAssumption DEF BlobsOf, Readable
    <2> QED BY <1>3, <1>6, <2>1 DEF Spares
  <1> QED BY <1>1, <1>2, <1>5, <1>6, <1>7, <1>8, GoKeeps DEF OwnInv

\* What follows the removals is in order.
LEMMA ThenOwn ==
  ASSUME NEW o \in Ops, Shape(o), Holds(o), o.at \in {"read", "remove"}
  PROVE  /\ Then(o) \in Ops /\ OwnInv(Then(o)) /\ Then(o).at \notin {"read", "remove"}
         /\ Then(o).at # "idle" => Then(o).name = o.name
         /\ Shape(Then(o))
         /\ o.then = "make" => /\ Then(o).at = "make" /\ Then(o).content = o.content
                               /\ Then(o).todo = o.todo /\ Then(o).lost = o.lost
         /\ o.then # "make" => Then(o).at \in {"idle", "refresh"}
  <1>1. o.then \in {"idle", "refresh", "make"} /\ o.name \in Names
    BY DEF Ops, Shape
  <1>2. CASE o.then = "idle"
    <2>1. Then(o) = NoOp
      BY <1>2 DEF Then
    <2> QED BY <1>2, <2>1, IdleOwn DEF OwnInv
  <1>3. CASE o.then = "refresh"
    <2>1. PICK next : next = [NoOp EXCEPT !.at = "refresh", !.kind = o.kind, !.name = o.name]
      OBVIOUS
    <2>2. Then(o) = next
      BY <1>3, <2>1 DEF Then
    <2>3. next \in Ops /\ next.at = "refresh" /\ next.name = o.name
      <3>1. NoOp \in Ops /\ o.kind \in {"none", "pull", "create", "adrift", "copy", "delete"}
        BY IdleOwn DEF Ops
      <3> QED BY <1>1, <2>1, <3>1 DEF Ops
    <2>4. OwnInv(next)
      BY <1>1, <2>3 DEF OwnInv, Shape, Holds, Spares, Gathering, Dropping
    <2> QED BY <1>3, <2>2, <2>3, <2>4 DEF OwnInv
  <1>4. CASE o.then = "make"
    <2>1. PICK next : next = [o EXCEPT !.at = "make", !.del = {}, !.toread = {}, !.missed = {}]
      OBVIOUS
    <2>2. Then(o) = next
      BY <1>4, <2>1 DEF Then
    <2>3. /\ next \in Ops /\ next.at = "make" /\ next.name = o.name /\ next.kind = o.kind
          /\ next.content = o.content /\ next.todo = o.todo /\ next.lost = o.lost
      BY <2>1 DEF Ops
    <2>4. OwnInv(next)
      BY <1>1, <1>4, <2>3 DEF OwnInv, Shape, Holds, Spares, Gathering, Dropping
    <2> QED BY <1>4, <2>2, <2>3, <2>4 DEF OwnInv
  <1> QED BY <1>1, <1>2, <1>3, <1>4

LEMMA ReadKeeps ==
  ASSUME Inv, NEW w \in Writers, Read(w)
  PROVE  Inv'
  <1>1. PICK o \in Ops : o = op[w]
    BY DEF Inv, TypeInv
  <1>2. /\ TypeInv /\ Shape(o) /\ Holds(o) /\ Spares(o) /\ o.at = "read" /\ o.name \in Names
        /\ UNCHANGED <<manifests, blobs, entries, hydrated, scans>>
    BY <1>1 DEF Inv, OpsInv, OwnInv, Read, Shape
  <1>3. op[w].at # "idle" /\ o.name = op[w].name
    BY <1>1, <1>2
  <1>4. CASE Go(w, Then(o))
    <2>1. Then(o) \in Ops /\ OwnInv(Then(o)) /\ (Then(o).at # "idle" => Then(o).name = o.name)
      BY <1>2, ThenOwn
    <2> QED BY <1>2, <1>3, <1>4, <2>1, GoKeeps
  <1>5. CASE o.toread = {} /\ Go(w, [o EXCEPT !.at = "remove"])
    <2>1. PICK next : next = [o EXCEPT !.at = "remove"]
      OBVIOUS
    <2>2. next \in Ops /\ next.name = o.name
      BY <2>1 DEF Ops
    <2>3. OwnInv(next)
      BY <1>2, <1>5, <2>1 DEF Ops, OwnInv, Shape, Holds, Spares, Gathering, Dropping
    <2> QED BY <1>2, <1>3, <1>5, <2>1, <2>2, <2>3, GoKeeps
  <1>6. ASSUME NEW n \in o.toread,
               Go(w, [o EXCEPT !.toread = @ \ {n}, !.del = @ \ BlobsOf(manifests[n])])
        PROVE  Inv'
    <2>1. PICK toread \in SUBSET Names : toread = o.toread \ {n}
      BY OpFields
    <2>2. PICK del \in SUBSET Blobs : del = o.del \ BlobsOf(manifests[n])
      BY OpFields
    <2>3. PICK next : next = [o EXCEPT !.toread = toread, !.del = del]
      OBVIOUS
    <2>4. Go(w, next)
      BY <1>6, <2>1, <2>2, <2>3
    <2>5. /\ next \in Ops /\ next.name = o.name /\ next.at = "read" /\ next.toread = toread
          /\ next.kind = o.kind /\ next.content = o.content /\ next.todo = o.todo
          /\ next.del = del /\ next.then = o.then /\ next.lost = o.lost /\ next.missed = o.missed
      BY <1>2, <2>3 DEF Ops
    <2>6. Shape(next) /\ Holds(next)
      BY <1>2, <2>2, <2>5 DEF Shape, Holds, Gathering, Dropping
    <2>7. Spares(next)
      BY <1>2, <2>1, <2>2, <2>5 DEF Spares
    <2> QED BY <1>2, <1>3, <2>4, <2>5, <2>6, <2>7, GoKeeps DEF OwnInv
  <1> QED BY <1>1, <1>4, <1>5, <1>6 DEF Read

LEMMA RemoveBlobKeeps ==
  ASSUME Inv, NEW w \in Writers, RemoveBlob(w)
  PROVE  Inv'
  <1>1. PICK o \in Ops : o = op[w]
    BY DEF Inv, TypeInv
  <1>2. /\ TypeInv /\ Shape(o) /\ Holds(o) /\ Spares(o) /\ o.at = "remove" /\ o.name \in Names
        /\ UNCHANGED <<manifests, entries, hydrated>>
    BY <1>1 DEF Inv, OpsInv, OwnInv, RemoveBlob, Shape
  <1>3. PICK d \in o.del :
           /\ blobs' = [blobs EXCEPT ![d] = "none"] /\ Told(Users(d))
           /\ Goes(w, IF o.del = {d} THEN Then(o) ELSE [o EXCEPT !.del = @ \ {d}], {}, {d}, {})
    BY <1>1 DEF RemoveBlob, Told
  <1>4. d \in Blobs /\ op[w].at # "idle" /\ o.name = op[w].name
    BY <1>1, <1>2, OpFields
  <1>5. blobs' \in [Blobs -> {"none", "good", "bad"}] /\ BlobsKeep({d}) /\ {d} \in SUBSET Blobs
    BY <1>2, <1>3, <1>4 DEF TypeInv, BlobsKeep
  <1>6. (\A names : SameBut(Users(d) \cup names)) /\ Users(d) \in SUBSET Names /\ ManifestsKeep({})
    BY <1>2, <1>3, UsersSame
  <1>7. o.then = "make" => BlobsOf(o.content) \ (ToSet(o.todo) \cup o.lost) \subseteq Present'
    <2> SUFFICES ASSUME o.then = "make", NEW b \in BlobsOf(o.content), b \notin ToSet(o.todo),
                        b \notin o.lost
                 PROVE  b \in Present'
      OBVIOUS
    <2>1. b \in Present /\ b # d
      BY <1>2, <1>3 DEF Shape, Holds, Gathering, Dropping
    <2> QED BY <1>5, <2>1 DEF BlobsKeep, Present
  <1>8. CASE o.del = {d}
    <2>1. Goes(w, Then(o), {}, {d}, {})
      BY <1>3, <1>8
    <2>2. /\ Then(o) \in Ops /\ (Then(o).at # "idle" => Then(o).name = o.name)
          /\ Shape(Then(o)) /\ Then(o).at \notin {"read", "remove"}
          /\ o.then = "make" => /\ Then(o).at = "make" /\ Then(o).content = o.content
                                /\ Then(o).todo = o.todo /\ Then(o).lost = o.lost
          /\ o.then # "make" => Then(o).at \in {"idle", "refresh"}
      BY <1>2, ThenOwn
    <2>3. PICK next \in Ops : next = Then(o)
      BY <2>2
    <2>4. OwnInv(next)'
      BY <1>7, <2>2, <2>3 DEF OwnInv, Holds, Spares, Gathering, Dropping
    <2>5. OwnInv(Gone(next, {}))'
      BY <2>4, GoneNothing
    <2> QED BY <1>2, <1>3, <1>4, <1>5, <1>6, <2>1, <2>2, <2>3, <2>5, RequestKeeps DEF TypeInv
  <1>9. CASE o.del # {d}
    <2>1. PICK del \in SUBSET Blobs : del = o.del \ {d}
      BY OpFields
    <2>2. PICK next : next = [o EXCEPT !.del = del]
      OBVIOUS
    <2>3. Goes(w, next, {}, {d}, {})
      BY <1>3, <1>9, <2>1, <2>2
    <2>4. /\ next \in Ops /\ next.name = o.name /\ next.at = "remove" /\ next.toread = o.toread
          /\ next.kind = o.kind /\ next.content = o.content /\ next.todo = o.todo
          /\ next.del = del /\ next.then = o.then /\ next.lost = o.lost /\ next.missed = o.missed
      BY <1>2, <2>2 DEF Ops
    <2>5. Shape(next)
      BY <1>2, <2>1, <2>4 DEF Shape, Dropping
    <2>6. Spares(next)'
      BY <1>2, <2>1, <2>4 DEF Spares
    <2>7. Holds(next)'
      BY <1>7, <2>4 DEF Holds, Gathering, Dropping
    <2>8. OwnInv(Gone(next, {}))'
      BY <2>4, <2>5, <2>6, <2>7, GoneNothing DEF OwnInv
    <2> QED BY <1>2, <1>3, <1>4, <1>5, <1>6, <2>3, <2>4, <2>8, RequestKeeps DEF TypeInv
  <1> QED BY <1>8, <1>9

----------------------------------------------------------------------------
(* The cache is refreshed.                                                 *)

LEMMA RefreshKeeps ==
  ASSUME Inv, NEW w \in Writers, RefreshReads(w) \/ RefreshSets(w)
  PROVE  Inv'
  <1>1. PICK o \in Ops : o = op[w]
    BY DEF Inv, TypeInv
  <1>2. /\ TypeInv /\ Shape(o) /\ o.at \in {"refresh", "set"} /\ o.name \in Names
        /\ op[w].at # "idle" /\ o.name = op[w].name
        /\ UNCHANGED <<manifests, blobs, hydrated, scans>>
    BY <1>1 DEF Inv, OpsInv, OwnInv, RefreshReads, RefreshSets, Shape
  <1>3. CASE RefreshReads(w)
    <2>1. PICK content \in Contents \cup {Absent} :
             content = IF Builds(manifests[o.name]) THEN manifests[o.name] ELSE Absent
      BY <1>2 DEF Builds, Readable
    <2>2. PICK next : next = [o EXCEPT !.at = "set", !.content = content]
      OBVIOUS
    <2>3. Go(w, next) /\ UNCHANGED entries
      BY <1>1, <1>3, <2>1, <2>2 DEF RefreshReads
    <2>4. next \in Ops /\ next.name = o.name /\ next.at = "set" /\ next.content = content
      BY <2>2 DEF Ops
    <2>5. OwnInv(next)
      BY <1>2, <2>1, <2>4, ModelStoreAssumption
         DEF OwnInv, Shape, Holds, Spares, Gathering, Dropping
    <2> QED BY <1>2, <2>3, <2>4, <2>5, GoKeeps
  <1>4. CASE RefreshSets(w)
    <2>1. o.content \in Contents \cup {Absent}
      BY <1>1, <1>2, <1>4, OpFields DEF RefreshSets, Shape
    <2>2. entries' = [entries EXCEPT ![op[w].name] = o.content] /\ Go(w, NoOp)
      BY <1>1, <1>4 DEF RefreshSets
    <2> QED BY <1>2, <2>1, <2>2, IdleOwn, EntryKeeps
  <1> QED BY <1>3, <1>4

----------------------------------------------------------------------------
(* The readers of all manifests.                                           *)

LEMMA ScannerTypes ==
  ASSUME TypeInv, NEW s \in Scanners
  PROVE  /\ scans[s] \in ScanSet
         /\ scans[s].toread \subseteq Names /\ scans[s].seen \in [Names -> Contents \cup {Absent}]
         /\ scans[s].disturbed \subseteq Names
         /\ "list" \in Scanners /\ "hydrate" \in Scanners /\ (s = "list" \/ s = "hydrate")
  BY DEF TypeInv, ScanSet, Scanners

LEMMA NoScanTypes ==
  NoScan \in ScanSet /\ NoScan.at = "idle" /\ \A n \in Names : NoScan.seen[n] = Absent
  BY DEF NoScan, ScanSet

LEMMA HydrateKeeps ==
  ASSUME Inv, UNCHANGED <<manifests, blobs, op>>, scans["hydrate"].at # "idle",
         NEW next \in ScanSet, Scans("hydrate", next),
         entries' \in [Names -> Contents \cup {Absent}], hydrated' \in {"no", "yes", "failed"},
         hydrated' = "yes" => next.at = "idle"
  PROVE  Inv'
  <1>1. TypeInv /\ scans \in [Scanners -> ScanSet] /\ "hydrate" \in Scanners /\ "list" \in Scanners
    BY DEF Inv, TypeInv, Scanners
  <1>2. /\ scans' \in [Scanners -> ScanSet] /\ scans'["hydrate"] = next
        /\ scans'["list"] = scans["list"]
    BY <1>1 DEF Scans
  <1>3. scans["list"].at = "idle"
    BY DEF Inv, ListInv
  <1>4. TypeInv'
    BY <1>1, <1>2 DEF TypeInv
  <1>5. OpsInv'
    BY DEF Inv, OpsInv, OwnInv, Holds, Spares, Present
  <1>6. ListInv'
    BY <1>2, <1>3 DEF ListInv
  <1> QED BY <1>4, <1>5, <1>6 DEF Inv

LEMMA ListScanKeeps ==
  ASSUME Inv, UNCHANGED <<manifests, blobs, op, hydrated>>, NEW next \in ScanSet,
         Scans("list", next), entries' \in [Names -> Contents \cup {Absent}],
         next.at # "idle" => hydrated = "yes",
         next.at # "idle" => \A w \in Writers : op[w].at # "idle" => op[w].name \in next.disturbed,
         next.at # "idle" => \A n \in Names \ next.disturbed : Seen(n)',
         next.at = "glob" => \A n \in Names : next.seen[n] = Absent
  PROVE  Inv'
  <1>1. TypeInv /\ scans \in [Scanners -> ScanSet] /\ "hydrate" \in Scanners /\ "list" \in Scanners
    BY DEF Inv, TypeInv, Scanners
  <1>2. /\ scans' \in [Scanners -> ScanSet] /\ scans'["list"] = next
        /\ scans'["hydrate"] = scans["hydrate"]
    BY <1>1 DEF Scans
  <1>3. hydrated = "yes" => scans["hydrate"].at = "idle"
    BY DEF Inv, ListInv
  <1>4. TypeInv'
    BY <1>1, <1>2 DEF TypeInv
  <1>5. OpsInv'
    BY DEF Inv, OpsInv, OwnInv, Holds, Spares, Present
  <1>6. ListInv'
    BY <1>2, <1>3 DEF ListInv
  <1> QED BY <1>4, <1>5, <1>6 DEF Inv

\* What a list keeps while it goes on.
LEMMA ListHas ==
  ASSUME Inv, scans["list"].at # "idle"
  PROVE  /\ hydrated = "yes" /\ scans["hydrate"].at = "idle"
         /\ \A w \in Writers : op[w].at # "idle" => op[w].name \in scans["list"].disturbed
         /\ \A n \in Names \ scans["list"].disturbed : Seen(n)
  BY DEF Inv, ListInv

LEMMA ScanGlobKeeps ==
  ASSUME Inv, NEW s \in Scanners, ScanGlob(s)
  PROVE  Inv'
  <1>1. PICK c \in ScanSet : c = scans[s]
    BY ScannerTypes DEF Inv
  <1>2. /\ TypeInv /\ c.at = "glob" /\ UNCHANGED <<manifests, blobs, op, entries, hydrated>>
        /\ s = "list" \/ s = "hydrate"
    BY <1>1, ScannerTypes DEF Inv, ScanGlob
  <1>3. PICK names \in SUBSET Names : names = {n \in Names : manifests[n] # Absent}
    OBVIOUS
  <1>4. PICK next : next = [c EXCEPT !.at = "read", !.toread = names]
    OBVIOUS
  <1>5. Scans(s, next)
    BY <1>1, <1>3, <1>4 DEF ScanGlob
  <1>6. /\ next \in ScanSet /\ next.at = "read" /\ next.toread = names /\ next.seen = c.seen
        /\ next.disturbed = c.disturbed
    BY <1>4 DEF ScanSet
  <1>7. CASE s = "hydrate"
    <2>1. scans["hydrate"].at # "idle" /\ hydrated # "yes"
      BY <1>1, <1>2, <1>7 DEF Inv, ListInv
    <2> QED BY <1>2, <1>5, <1>6, <1>7, <2>1, HydrateKeeps DEF TypeInv
  <1>8. CASE s = "list"
    <2>1. /\ hydrated = "yes" /\ \A n \in Names : c.seen[n] = Absent
          /\ \A w \in Writers : op[w].at # "idle" => op[w].name \in c.disturbed
      BY <1>1, <1>2, <1>8, ListHas DEF Inv, ListInv
    <2>2. scans'["list"] = next
      BY <1>2, <1>5, <1>8 DEF Scans, TypeInv, Scanners
    <2>3. ASSUME NEW n \in Names PROVE Seen(n)'
      <3>1. n \notin names => ~Readable(manifests[n])
        BY <1>3, ModelStoreAssumption DEF Readable
      <3>2. n \notin names => next.seen[n] = IF Readable(manifests'[n]) THEN manifests'[n] ELSE Absent
        BY <1>2, <1>6, <2>1, <3>1
      <3> QED BY <1>6, <2>2, <3>2 DEF Seen
    <2> QED BY <1>2, <1>5, <1>6, <1>8, <2>1, <2>3, ListScanKeeps DEF TypeInv
  <1> QED BY <1>2, <1>7, <1>8

LEMMA ScanReadKeeps ==
  ASSUME Inv, NEW s \in Scanners, ScanRead(s)
  PROVE  Inv'
  <1>1. PICK c \in ScanSet : c = scans[s]
    BY ScannerTypes DEF Inv
  <1>2. /\ TypeInv /\ c.at = "read" /\ UNCHANGED <<manifests, blobs, op, entries, hydrated>>
        /\ s = "list" \/ s = "hydrate"
    BY <1>1, ScannerTypes DEF Inv, ScanRead
  <1>3. c.toread \in SUBSET Names /\ c.seen \in [Names -> Contents \cup {Absent}]
    BY DEF ScanSet
  <1>4. PICK k \in c.toread :
           Scans(s, [c EXCEPT !.toread = @ \ {k},
                              !.seen[k] = IF Readable(manifests[k]) THEN manifests[k] ELSE Absent])
    BY <1>1 DEF ScanRead
  <1>5. PICK m \in Contents \cup {Absent} :
           m = IF Readable(manifests[k]) THEN manifests[k] ELSE Absent
    BY DEF Readable
  <1>6. PICK toread \in SUBSET Names : toread = c.toread \ {k}
    BY <1>3
  <1>7. PICK seen \in [Names -> Contents \cup {Absent}] : seen = [c.seen EXCEPT ![k] = m]
    BY <1>3
  <1>8. PICK next : next = [c EXCEPT !.toread = toread, !.seen = seen]
    OBVIOUS
  <1>9. Scans(s, next)
    <2>1. [c EXCEPT !.toread = @ \ {k},
                    !.seen[k] = IF Readable(manifests[k]) THEN manifests[k] ELSE Absent] = next
      BY <1>5, <1>6, <1>7, <1>8 DEF ScanSet
    <2> QED BY <1>4, <2>1
  <1>10. /\ next \in ScanSet /\ next.at = "read" /\ next.toread = toread /\ next.seen = seen
         /\ next.disturbed = c.disturbed
    BY <1>2, <1>8 DEF ScanSet
  <1>11. CASE s = "hydrate"
    <2>1. scans["hydrate"].at # "idle" /\ hydrated # "yes"
      BY <1>1, <1>2, <1>11 DEF Inv, ListInv
    <2> QED BY <1>2, <1>9, <1>10, <1>11, <2>1, HydrateKeeps DEF TypeInv
  <1>12. CASE s = "list"
    <2>1. /\ hydrated = "yes"
          /\ \A w \in Writers : op[w].at # "idle" => op[w].name \in c.disturbed
          /\ \A n \in Names \ c.disturbed : Seen(n)
      BY <1>1, <1>2, <1>12, ListHas
    <2>2. scans'["list"] = next
      BY <1>2, <1>9, <1>12 DEF Scans, TypeInv, Scanners
    <2>3. ASSUME NEW n \in Names \ c.disturbed PROVE Seen(n)'
      <3>1. n \notin toread =>
               next.seen[n] = IF Readable(manifests'[n]) THEN manifests'[n] ELSE Absent
        <4> SUFFICES ASSUME n \notin toread
                     PROVE  next.seen[n] = IF Readable(manifests'[n]) THEN manifests'[n] ELSE Absent
          OBVIOUS
        <4>1. CASE n = k
          BY <1>2, <1>3, <1>5, <1>7, <1>10, <4>1
        <4>2. CASE n # k
          <5>1. n \notin c.toread /\ seen[n] = c.seen[n]
            BY <1>3, <1>6, <1>7, <4>2
          <5>2. c.seen[n] = IF Readable(manifests[n]) THEN manifests[n] ELSE Absent
            BY <1>1, <1>2, <1>12, <2>1, <5>1 DEF Seen
          <5> QED BY <1>2, <1>10, <5>1, <5>2
        <4> QED BY <4>1, <4>2
      <3> QED BY <1>10, <2>2, <3>1 DEF Seen
    <2> QED BY <1>2, <1>9, <1>10, <1>12, <2>1, <2>3, ListScanKeeps DEF TypeInv
  <1> QED BY <1>2, <1>11, <1>12

LEMMA ScanFailsKeeps ==
  ASSUME Inv, NEW s \in Scanners, ScanFails(s)
  PROVE  Inv'
  <1>1. /\ TypeInv /\ scans[s].at = "read" /\ UNCHANGED <<manifests, blobs, op, entries>>
        /\ Scans(s, NoScan) /\ hydrated' = IF s = "hydrate" THEN "failed" ELSE hydrated
        /\ s = "list" \/ s = "hydrate"
    BY ScannerTypes DEF Inv, ScanFails
  <1>2. CASE s = "hydrate"
    BY <1>1, <1>2, NoScanTypes, HydrateKeeps DEF TypeInv
  <1>3. CASE s = "list"
    BY <1>1, <1>3, NoScanTypes, ListScanKeeps DEF TypeInv
  <1> QED BY <1>1, <1>2, <1>3

LEMMA HydrateSetsKeeps ==
  ASSUME Inv, HydrateSets
  PROVE  Inv'
  <1>1. "hydrate" \in Scanners
    BY DEF Scanners
  <1>2. PICK c \in ScanSet : c = scans["hydrate"]
    BY <1>1, ScannerTypes DEF Inv
  <1>3. TypeInv /\ c.at = "read" /\ UNCHANGED <<manifests, blobs, op>>
    BY <1>2 DEF Inv, HydrateSets
  <1>4. scans["hydrate"].at # "idle" /\ hydrated # "yes"
    BY <1>2, <1>3 DEF Inv, ListInv
  <1>5. CASE Scans("hydrate", NoScan) /\ hydrated' = "yes" /\ UNCHANGED entries
    BY <1>3, <1>4, <1>5, NoScanTypes, HydrateKeeps DEF TypeInv
  <1>6. ASSUME NEW n \in Names,
               entries' = IF Builds(c.seen[n]) THEN [entries EXCEPT ![n] = c.seen[n]] ELSE entries,
               Scans("hydrate", [c EXCEPT !.seen[n] = Absent]), UNCHANGED hydrated
        PROVE  Inv'
    <2>1. c.seen \in [Names -> Contents \cup {Absent}]
      BY DEF ScanSet
    <2>2. entries' \in [Names -> Contents \cup {Absent}]
      BY <1>3, <1>6, <2>1 DEF TypeInv
    <2>3. PICK seen \in [Names -> Contents \cup {Absent}] : seen = [c.seen EXCEPT ![n] = Absent]
      BY <2>1
    <2>4. PICK next : next = [c EXCEPT !.seen = seen]
      OBVIOUS
    <2>5. [c EXCEPT !.seen[n] = Absent] = next /\ next \in ScanSet
      BY <2>3, <2>4 DEF ScanSet
    <2>6. Scans("hydrate", next)
      BY <1>6, <2>5
    <2> QED BY <1>3, <1>4, <1>6, <2>2, <2>5, <2>6, HydrateKeeps DEF TypeInv
  <1> QED BY <1>2, <1>5, <1>6 DEF HydrateSets

LEMMA ListStarts ==
  ASSUME Inv, List
  PROVE  Inv'
  <1>1. /\ TypeInv /\ hydrated = "yes" /\ UNCHANGED <<manifests, blobs, op, entries, hydrated>>
    BY DEF Inv, List
  <1>2. \A w \in Writers : op[w].at # "idle" => op[w].name \in Names
    BY DEF Inv, OpsInv, OwnInv, Shape
  <1>3. PICK names \in SUBSET Names : names = {op[w].name : w \in Others(Absent)}
    BY <1>2 DEF Others
  <1>4. \A w \in Writers : op[w].at # "idle" => op[w].name \in names
    BY <1>3, ModelStoreAssumption DEF Others
  <1>5. PICK next : next = [NoScan EXCEPT !.at = "glob", !.disturbed = names]
    OBVIOUS
  <1>6. Scans("list", next)
    BY <1>3, <1>5 DEF List
  <1>7. /\ next \in ScanSet /\ next.at = "glob" /\ next.disturbed = names
        /\ next.seen = NoScan.seen
    BY <1>5, NoScanTypes DEF ScanSet
  <1>8. scans'["list"] = next
    BY <1>1, <1>6 DEF Scans, TypeInv, Scanners
  <1>9. \A n \in Names : Seen(n)'
    BY <1>7, <1>8 DEF Seen
  <1>10. \A n \in Names : next.seen[n] = Absent
    BY <1>7, NoScanTypes
  <1> QED BY <1>1, <1>4, <1>6, <1>7, <1>9, <1>10, ListScanKeeps DEF TypeInv

LEMMA SyncPlansKeeps ==
  ASSUME Inv, SyncPlans
  PROVE  Inv'
  <1>1. "list" \in Scanners
    BY DEF Scanners
  <1>2. PICK c \in ScanSet : c = scans["list"]
    BY <1>1, ScannerTypes DEF Inv
  <1>3. /\ TypeInv /\ c.at = "read" /\ c.toread = {}
        /\ UNCHANGED <<manifests, blobs, op, entries, hydrated>>
    BY <1>2 DEF Inv, SyncPlans
  <1>4. PICK differ : differ = {n \in Names : c.seen[n] # Absent /\ c.seen[n] # entries[n]}
    OBVIOUS
  <1>5. PICK updates \in SUBSET Names : updates = {n \in differ : Builds(c.seen[n])}
    BY <1>4
  <1>6. PICK stale \in SUBSET Names :
           stale = {n \in differ : ~Builds(c.seen[n]) /\ entries[n] # Absent}
    BY <1>4
  <1>7. PICK next : next = [c EXCEPT !.at = "apply", !.updates = updates, !.stale = stale]
    OBVIOUS
  <1>8. Scans("list", next)
    BY <1>2, <1>4, <1>5, <1>6, <1>7 DEF SyncPlans
  <1>9. /\ next \in ScanSet /\ next.at = "apply" /\ next.toread = {} /\ next.seen = c.seen
        /\ next.updates = updates /\ next.stale = stale /\ next.disturbed = c.disturbed
    BY <1>3, <1>7 DEF ScanSet
  <1>10. scans'["list"] = next
    BY <1>3, <1>8 DEF Scans, TypeInv, Scanners
  <1>11. /\ hydrated = "yes"
         /\ \A w \in Writers : op[w].at # "idle" => op[w].name \in c.disturbed
         /\ \A n \in Names \ c.disturbed : Seen(n)
    BY <1>2, <1>3, ListHas
  <1>12. ASSUME NEW n \in Names \ c.disturbed PROVE Seen(n)'
    <2>1. c.seen[n] = IF Readable(manifests[n]) THEN manifests[n] ELSE Absent
      BY <1>2, <1>3, <1>11 DEF Seen
    <2>2. n \in updates <=> (c.seen[n] \notin {Absent, entries[n]} /\ Builds(c.seen[n]))
      BY <1>4, <1>5
    <2>3. n \in stale => ~Builds(c.seen[n])
      BY <1>6
    <2>4. PICK m : m = c.seen[n]
      OBVIOUS
    <2>5. (Builds(m))' <=> Builds(m)
      BY <1>3 DEF Builds
    <2>6. (n \in updates <=> (m \notin {Absent, entries'[n]} /\ (Builds(m))')) /\
          (n \in stale => ~(Builds(m))')
      BY <1>3, <2>2, <2>3, <2>4, <2>5
    <2>7. next.seen[n] = m /\ m = IF Readable(manifests'[n]) THEN manifests'[n] ELSE Absent
      BY <1>3, <1>9, <2>1, <2>4
    <2> QED BY <1>9, <1>10, <2>6, <2>7 DEF Seen
  <1> QED BY <1>3, <1>8, <1>9, <1>11, <1>12, ListScanKeeps DEF TypeInv

LEMMA SyncAppliesKeeps ==
  ASSUME Inv, SyncApplies
  PROVE  Inv'
  <1>1. "list" \in Scanners
    BY DEF Scanners
  <1>2. PICK c \in ScanSet : c = scans["list"]
    BY <1>1, ScannerTypes DEF Inv
  <1>3. /\ TypeInv /\ c.at = "apply" /\ UNCHANGED <<manifests, blobs, op, hydrated>>
        /\ c.seen \in [Names -> Contents \cup {Absent}]
    BY <1>2 DEF Inv, SyncApplies, ScanSet
  <1>4. entries' = [n \in Names |-> IF n \in c.updates THEN c.seen[n]
                                    ELSE IF c.seen[n] = Absent \/ n \in c.stale THEN Absent
                                    ELSE entries[n]]
    BY <1>2 DEF SyncApplies
  <1>5. entries' \in [Names -> Contents \cup {Absent}]
    BY <1>3, <1>4 DEF TypeInv
  <1>6. PICK next : next = [NoScan EXCEPT !.at = "answer", !.disturbed = c.disturbed]
    OBVIOUS
  <1>7. Scans("list", next)
    BY <1>2, <1>6 DEF SyncApplies
  <1>8. next \in ScanSet /\ next.at = "answer" /\ next.disturbed = c.disturbed
    <2>1. c.disturbed \in SUBSET Names
      BY DEF ScanSet
    <2> QED BY <1>6, <2>1, NoScanTypes DEF ScanSet
  <1>9. scans'["list"] = next
    BY <1>3, <1>7 DEF Scans, TypeInv, Scanners
  <1>10. /\ hydrated = "yes"
         /\ \A w \in Writers : op[w].at # "idle" => op[w].name \in c.disturbed
         /\ \A n \in Names \ c.disturbed : Seen(n)
    BY <1>2, <1>3, ListHas
  <1>11. ASSUME NEW n \in Names \ c.disturbed PROVE Seen(n)'
    <2>1. PICK m : m = manifests[n]
      OBVIOUS
    <2>2. /\ c.seen[n] = IF Readable(m) THEN m ELSE Absent
          /\ n \in c.updates <=> (c.seen[n] \notin {Absent, entries[n]} /\ Builds(c.seen[n]))
          /\ n \in c.stale => ~Builds(c.seen[n])
      BY <1>2, <1>3, <1>10, <2>1 DEF Seen
    <2>3. entries'[n] = IF n \in c.updates THEN c.seen[n]
                        ELSE IF c.seen[n] = Absent \/ n \in c.stale THEN Absent
                        ELSE entries[n]
      BY <1>4
    <2>4. Builds(m) => entries'[n] = m
      <3> SUFFICES ASSUME Builds(m) PROVE entries'[n] = m
        OBVIOUS
      <3>1. c.seen[n] = m /\ m # Absent
        BY <2>2, ModelStoreAssumption DEF Builds, Readable
      <3>2. Builds(c.seen[n])
        BY <3>1
      <3> QED BY <2>2, <2>3, <3>1, <3>2
    <2>5. ~Readable(m) => entries'[n] = Absent
      BY <2>2, <2>3
    <2>6. (Builds(m))' => entries'[n] = manifests'[n]
      BY <1>3, <2>1, <2>4 DEF Builds
    <2>7. ((Builds(manifests[n]))' => entries'[n] = manifests'[n])
          /\ (~Readable(manifests'[n]) => entries'[n] = Absent)
      BY <1>3, <2>1, <2>4, <2>5 DEF Builds
    <2> QED BY <1>8, <1>9, <2>7 DEF Seen
  <1> QED BY <1>3, <1>5, <1>7, <1>8, <1>10, <1>11, ListScanKeeps DEF TypeInv

LEMMA ListAnswersKeeps ==
  ASSUME Inv, ListAnswers
  PROVE  Inv'
  <1>1. TypeInv /\ Scans("list", NoScan) /\ UNCHANGED <<manifests, blobs, op, entries, hydrated>>
    BY DEF Inv, ListAnswers
  <1> QED BY <1>1, NoScanTypes, ListScanKeeps DEF TypeInv

----------------------------------------------------------------------------
(* The start of the server.                                                *)

LEMMA RestartKeeps ==
  ASSUME Inv, Restart
  PROVE  Inv'
  <1>1. /\ TypeInv /\ UNCHANGED manifests /\ op' = [w \in Writers |-> NoOp]
        /\ entries' = [n \in Names |-> Absent] /\ hydrated' = "no"
        /\ scans' = [s \in Scanners |-> IF s = "hydrate" THEN [NoScan EXCEPT !.at = "glob"]
                                        ELSE NoScan]
    BY DEF Inv, Restart
  <1>2. PICK gone : blobs' = [d \in Blobs |-> IF d \in gone THEN "none" ELSE blobs[d]]
    BY DEF Restart
  <1>3. blobs' \in [Blobs -> {"none", "good", "bad"}]
    BY <1>1, <1>2 DEF TypeInv
  <1>4. [NoScan EXCEPT !.at = "glob"] \in ScanSet /\ NoScan \in ScanSet
    BY NoScanTypes DEF ScanSet
  <1>5. scans' \in [Scanners -> ScanSet] /\ scans'["list"].at = "idle"
    BY <1>1, <1>4, NoScanTypes DEF Scanners
  <1>6. op' \in [Writers -> Ops] /\ \A w \in Writers : op'[w] = NoOp
    BY <1>1, IdleOwn
  <1>7. TypeInv'
    BY <1>1, <1>3, <1>5, <1>6 DEF TypeInv
  <1>8. OpsInv'
    BY <1>6, IdleOwn DEF OpsInv
  <1>9. ListInv'
    BY <1>1, <1>5 DEF ListInv
  <1> QED BY <1>7, <1>8, <1>9 DEF Inv

LEMMA InitInv == Init => Inv
  <1> SUFFICES ASSUME Init PROVE Inv
    OBVIOUS
  <1>1. [NoScan EXCEPT !.at = "glob"] \in ScanSet /\ NoScan \in ScanSet
    BY NoScanTypes DEF ScanSet
  <1>2. scans \in [Scanners -> ScanSet] /\ scans["list"].at = "idle"
    BY <1>1, NoScanTypes DEF Init, Scanners
  <1>3. op \in [Writers -> Ops] /\ \A w \in Writers : op[w] = NoOp
    BY IdleOwn DEF Init
  <1>4. manifests \in [Names -> Contents \cup {Absent, Torn}]
    BY ModelStoreAssumption DEF Init
  <1>5. TypeInv
    BY <1>2, <1>3, <1>4 DEF Init, TypeInv
  <1>6. OpsInv
    BY <1>3, IdleOwn DEF OpsInv
  <1>7. ListInv
    BY <1>2 DEF Init, ListInv
  <1> QED BY <1>5, <1>6, <1>7 DEF Inv

LEMMA NextInv ==
  ASSUME Inv, [Next]_vars
  PROVE  Inv'
  <1>1. ASSUME NEW w \in Writers, Begin(w)
        PROVE  Inv'
    BY <1>1, BeginsKeep
  <1>2. ASSUME NEW w \in Writers, Step(w)
        PROVE  Inv'
    BY <1>2, PullStatKeeps, PullFetchKeeps, FailsKeep, PullVerifyKeeps, CreateFromKeeps,
       CreateLayerKeeps, TruncateKeeps, EncodeKeeps, UnlinkKeeps, ForgetKeeps, GlobKeeps,
       ReadKeeps, RemoveBlobKeeps, RefreshKeeps DEF Step
  <1>3. CASE Cache
    BY <1>3, ScanGlobKeeps, ScanReadKeeps, ScanFailsKeeps, HydrateSetsKeeps, ListStarts,
       SyncPlansKeeps, SyncAppliesKeeps, ListAnswersKeeps DEF Cache
  <1>4. CASE Restart
    BY <1>4, RestartKeeps
  <1>5. CASE UNCHANGED vars
    BY <1>5 DEF vars, Inv, TypeInv, OpsInv, OwnInv, Holds, Spares, Present, ListInv, Seen, Builds
  <1> QED BY <1>1, <1>2, <1>3, <1>4, <1>5 DEF Next, Finished

----------------------------------------------------------------------------
(* No step takes a blob away from a model, but in the races.               *)

LEMMA StaysComplete ==
  ASSUME TypeInv, Complete, BlobsKeep({}), NEW new \in SUBSET Blobs, ManifestsKeep(new),
         \A d \in new : d \in Present
  PROVE  Complete'
  <1>1. \A d \in Present : d \in Present'
    BY DEF BlobsKeep, Present
  <1>2. ASSUME NEW n \in Names, NEW d \in BlobsOf(manifests'[n])
        PROVE  d \in Present
    <2>1. d \in BlobsOf(manifests[n]) \/ d \in new
      BY <1>2 DEF ManifestsKeep
    <2>2. BlobsOf(manifests[n]) \subseteq Referenced
      BY DEF Referenced
    <2> QED BY <2>1, <2>2 DEF Complete
  <1> QED BY <1>1, <1>2 DEF Complete, Referenced

LEMMA EncodeCompletes ==
  ASSUME Inv, Complete, NEW w \in Writers, Encode(w)
  PROVE  Complete' \/ PublishesLost
  <1>1. PICK o \in Ops : o = op[w]
    BY DEF Inv, TypeInv
  <1>2. TypeInv /\ Shape(o) /\ Holds(o) /\ o.at = "encode" /\ o.name \in Names /\ UNCHANGED blobs
    BY <1>1 DEF Inv, OpsInv, OwnInv, Encode, Shape
  <1>3. PICK next : next = [NoOp EXCEPT !.at = IF o.old = {} THEN "refresh" ELSE "glob",
                                        !.kind = IF o.kind = "pull" THEN "pull" ELSE "none",
                                        !.name = o.name, !.del = o.old, !.then = "refresh"]
    OBVIOUS
  <1>4. PICK m \in Written(o) : /\ manifests' = [manifests EXCEPT ![o.name] = m]
                                /\ Goes(w, next, {}, {}, BlobsOf(m))
    BY <1>1, <1>3 DEF Encode
  <1>5. m \in Contents \cup {Torn} /\ BlobsOf(m) \in SUBSET Blobs
    <2>1. m \in Contents \cup {Torn}
      BY <1>2, <1>4, OpFields DEF Written, Shape, TypeInv
    <2> QED BY <2>1, AnyBlobs
  <1>6. CASE \A d \in BlobsOf(m) : d \in Present
    <2>1. BlobsKeep({}) /\ ManifestsKeep(BlobsOf(m))
      BY <1>2, <1>4 DEF BlobsKeep, ManifestsKeep, TypeInv
    <2> QED BY <1>2, <1>5, <1>6, <2>1, StaysComplete
  <1>7. CASE ~\A d \in BlobsOf(m) : d \in Present
    <2>1. m = o.content
      <3> SUFFICES ASSUME m # o.content PROVE FALSE
        OBVIOUS
      <3>1. m = manifests[o.src] /\ o.src \in Names
        BY <1>2, <1>4 DEF Written, Shape
      <3>2. BlobsOf(manifests[o.src]) \subseteq Referenced
        BY <3>1 DEF Referenced
      <3> QED BY <1>7, <3>1, <3>2 DEF Complete
    <2>2. o.lost # {}
      BY <1>2, <1>7, <2>1 DEF Holds
    <2>3. op'[w] # op[w]
      <3>1. op'[w] = [next EXCEPT !.lost = @ \ {}]
        BY <1>4 DEF Goes
      <3>2. NoOp \in Ops
        BY IdleOwn
      <3>3. op'[w].at \in {"refresh", "glob"}
        BY <1>3, <3>1, <3>2 DEF Ops
      <3> QED BY <1>1, <1>2, <3>3
    <2> QED BY <1>1, <1>2, <2>2, <2>3 DEF PublishesLost
  <1> QED BY <1>6, <1>7

LEMMA RemoveBlobCompletes ==
  ASSUME Inv, Complete, NEW w \in Writers, RemoveBlob(w)
  PROVE  Complete' \/ RemovesMissed
  <1>1. PICK o \in Ops : o = op[w]
    BY DEF Inv, TypeInv
  <1>2. /\ TypeInv /\ Shape(o) /\ Holds(o) /\ Spares(o) /\ o.at = "remove" /\ o.toread = {}
        /\ UNCHANGED manifests
    BY <1>1 DEF Inv, OpsInv, OwnInv, RemoveBlob, Shape
  <1>3. PICK d \in o.del :
           /\ blobs' = [blobs EXCEPT ![d] = "none"]
           /\ Goes(w, IF o.del = {d} THEN Then(o) ELSE [o EXCEPT !.del = @ \ {d}], {}, {d}, {})
    BY <1>1 DEF RemoveBlob
  <1>4. d \in Blobs
    BY OpFields
  <1>5. CASE d \notin Referenced
    <2>1. ASSUME NEW n \in Names, NEW b \in BlobsOf(manifests'[n])
          PROVE  b \in Present'
      <3>1. b \in Referenced /\ b # d
        BY <1>2, <1>5, <2>1 DEF Referenced
      <3>2. b \in Present
        BY <3>1 DEF Complete
      <3> QED BY <1>2, <1>3, <3>1, <3>2 DEF Present, TypeInv
    <2> QED BY <2>1 DEF Complete, Referenced
  <1>6. CASE d \in Referenced
    <2>1. d \in o.missed
      BY <1>2, <1>6 DEF Referenced, Spares
    <2>2. blobs'[d] # blobs[d]
      BY <1>2, <1>3, <1>4, <1>6 DEF Complete, Present, TypeInv
    <2>3. op'[w] # op[w]
      <3>1. CASE o.del = {d}
        <4>1. Then(o) \in Ops /\ Then(o).at \notin {"read", "remove"}
          BY <1>2, ThenOwn
        <4>2. op'[w] = Gone(Then(o), {})
          BY <1>3, <3>1 DEF Goes, Gone
        <4>3. op'[w] = Then(o)
          BY <4>1, <4>2, GoneNothing
        <4> QED BY <1>1, <1>2, <4>1, <4>3
      <3>2. CASE o.del # {d}
        <4>1. PICK next : next = [o EXCEPT !.del = @ \ {d}]
          OBVIOUS
        <4>2. op'[w] = Gone(next, {})
          BY <1>3, <3>2, <4>1 DEF Goes, Gone
        <4>3. op'[w].del = o.del \ {d}
          BY <4>1, <4>2 DEF Ops, Gone
        <4> QED BY <1>1, <1>3, <4>3
      <3> QED BY <3>1, <3>2
    <2> QED BY <1>1, <2>1, <2>2, <2>3 DEF RemovesMissed
  <1> QED BY <1>5, <1>6

LEMMA PullVerifyCompletes ==
  ASSUME Inv, Complete, NEW w \in Writers, PullVerify(w)
  PROVE  Complete' \/ RemovesBad
  <1>1. PICK o \in Ops : o = op[w]
    BY DEF Inv, TypeInv
  <1>2. PICK d : d = Head(o.todo)
    OBVIOUS
  <1>3. TypeInv /\ UNCHANGED manifests
    BY DEF Inv, PullVerify
  <1>4. ManifestsKeep({})
    BY <1>3 DEF ManifestsKeep
  <1>5. CASE UNCHANGED blobs
    <2>1. BlobsKeep({})
      BY <1>5 DEF BlobsKeep
    <2> QED BY <1>3, <1>4, <2>1, StaysComplete
  <1>6. CASE o.todo # <<>> /\ blobs[d] # "good" /\ blobs' = [blobs EXCEPT ![d] = "none"]
    <2>1. d \in Blobs
      BY <1>2, <1>6, HeadTail, OpFields
    <2>2. CASE blobs[d] = "bad"
      BY <1>3, <1>6, <2>1, <2>2 DEF RemovesBad, TypeInv
    <2>3. CASE blobs[d] = "none"
      <3>1. BlobsKeep({})
        BY <1>3, <1>6, <2>1, <2>3 DEF BlobsKeep, TypeInv
      <3> QED BY <1>3, <1>4, <3>1, StaysComplete
    <2> QED BY <1>3, <1>6, <2>1, <2>2, <2>3 DEF TypeInv
  <1> QED BY <1>1, <1>2, <1>5, <1>6 DEF PullVerify

LEMMA NextCompletes ==
  ASSUME Inv, [Next]_vars, Complete
  PROVE  Complete' \/ RemovesMissed \/ RemovesBad \/ PublishesLost
  <1>0. TypeInv
    BY DEF Inv
  <1>1. ASSUME UNCHANGED <<manifests, blobs>>
        PROVE  Complete'
    BY <1>1 DEF Complete, Referenced, Present
  <1>2. ASSUME NEW w \in Writers, PullFetch(w) \/ CreateLayer(w)
        PROVE  Complete'
    <2>1. PICK d : d = Head(op[w].todo)
      OBVIOUS
    <2>2. UNCHANGED manifests
      BY <1>2 DEF PullFetch, CreateLayer
    <2>3. \A b \in Blobs : blobs[b] # "none" => blobs'[b] # "none"
      <3>1. CASE PullFetch(w)
        <4>1. PICK quality \in {"good", "bad"} : blobs' = [blobs EXCEPT ![d] = quality]
          BY <2>1, <3>1 DEF PullFetch
        <4> QED BY <1>0, <4>1 DEF TypeInv
      <3>2. CASE CreateLayer(w)
        <4>1. blobs' = [blobs EXCEPT ![d] = IF d \in Present THEN blobs[d] ELSE "good"]
          BY <2>1, <3>2 DEF CreateLayer
        <4> QED BY <1>0, <4>1 DEF TypeInv
      <3> QED BY <1>2, <3>1, <3>2
    <2> QED BY <2>2, <2>3 DEF Complete, Referenced, Present
  <1>3. ASSUME NEW w \in Writers, Truncate(w) \/ Unlink(w)
        PROVE  Complete'
    <2>1. BlobsOf(Torn) = {} /\ BlobsOf(Absent) = {}
      BY ModelStoreAssumption DEF BlobsOf, Readable
    <2>2. BlobsKeep({}) /\ ManifestsKeep({})
      BY <1>0, <1>3, <2>1 DEF Truncate, Unlink, BlobsKeep, ManifestsKeep, TypeInv
    <2> QED BY <1>0, <2>2, StaysComplete
  <1>4. CASE Restart
    <2>1. PICK gone \in SUBSET Prunable :
             blobs' = [d \in Blobs |-> IF d \in gone THEN "none" ELSE blobs[d]]
      BY <1>4 DEF Restart
    <2>2. \A d \in Referenced : d \notin gone
      BY <2>1 DEF Prunable
    <2>3. UNCHANGED manifests
      BY <1>4 DEF Restart
    <2> QED BY <2>1, <2>2, <2>3 DEF Complete, Referenced, Present
  <1>5. ASSUME NEW w \in Writers, Begin(w)
        PROVE  Complete'
    BY <1>1, <1>5 DEF Begin, Pull, Create, Copy, Delete
  <1>6. ASSUME NEW w \in Writers, Step(w)
        PROVE  Complete' \/ RemovesMissed \/ RemovesBad \/ PublishesLost
    <2>1. CASE PullFails(w) \/ PullStat(w) \/ CreateFrom(w) \/ CreateFails(w) \/ Forget(w)
               \/ Glob(w) \/ Read(w) \/ RefreshReads(w) \/ RefreshSets(w)
      BY <1>1, <2>1 DEF PullFails, PullStat, CreateFrom, CreateFails, Forget, Glob, Read,
                        RefreshReads, RefreshSets
    <2> QED BY <1>2, <1>3, <1>6, <2>1, EncodeCompletes, RemoveBlobCompletes, PullVerifyCompletes
            DEF Step
  <1>7. CASE Cache
    BY <1>1, <1>7 DEF Cache, ScanGlob, ScanRead, ScanFails, HydrateSets, List, SyncPlans,
                      SyncApplies, ListAnswers
  <1>8. CASE UNCHANGED vars
    BY <1>1, <1>8 DEF vars
  <1> QED BY <1>4, <1>5, <1>6, <1>7, <1>8 DEF Next, Finished

----------------------------------------------------------------------------
(* The theorems.                                                           *)

\* The inductive invariant: what a request has at each of its steps, that what it
\* found is in the store unless another took it, that what it is about to remove is in
\* none of the manifests it has read, and that what a list has read is how things are.
THEOREM Invariance == Spec => []Inv
  BY InitInv, NextInv, PTL DEF Spec

\* The files, the cache and the requests keep their types, for any number of names,
\* blobs, models, requests and crashes.
THEOREM TypeCorrect == Spec => []TypeOK
  <1>1. Inv => TypeOK
    <2> SUFFICES ASSUME Inv PROVE TypeOK
      OBVIOUS
    <2>1. TypeInv
      BY DEF Inv
    <2>2. ASSUME NEW w \in Writers
          PROVE  /\ ToSet(op[w].todo) \subseteq Blobs
                 /\ op[w].old \cup op[w].del \cup op[w].hits \subseteq Blobs
      <3>1. PICK o \in Ops : o = op[w]
        BY <2>1 DEF TypeInv
      <3>2. ToSet(o.todo) \subseteq Blobs
        <4>1. CASE o.todo = <<>>
          BY <4>1 DEF ToSet
        <4>2. CASE o.todo # <<>>
          BY <4>2, HeadTail, OpFields
        <4> QED BY <4>1, <4>2
      <3> QED BY <3>1, <3>2, OpFields
    <2>3. \A s \in Scanners : scans[s].disturbed \subseteq Names
      BY <2>1, ScannerTypes
    <2> QED BY <2>1, <2>2, <2>3 DEF TypeInv, TypeOK
  <1> QED BY <1>1, Invariance, PTL

\* What a list may answer (syncManifests, then List) is right for every name that no
\* request has worked on since the list began.
THEOREM ListIsExact == Spec => []ListExact
  <1>1. Inv => ListExact
    <2> SUFFICES ASSUME Inv, scans["list"].at = "answer",
                        NEW n \in Names \ scans["list"].disturbed
                 PROVE  /\ Builds(manifests[n]) => entries[n] = manifests[n]
                        /\ ~Readable(manifests[n]) => entries[n] = Absent
      BY DEF ListExact
    <2> QED BY ListHas DEF Seen
  <1> QED BY <1>1, Invariance, PTL

\* No request and no start of the server takes a blob away from a model that can be
\* read (RemoveLayers, deleteUnusedLayers, PruneLayers), but in the races of two
\* requests that the property names.
THEOREM BlobsAreKept == Spec => KeepsBlobs
  BY Invariance, NextCompletes, PTL DEF Spec, KeepsBlobs

\* A pull that writes its manifest has verified what it fetched (verifyBlob).
THEOREM FetchesAreVerified == Spec => FetchedIsVerified
  <1>1. ASSUME Inv, NEW w \in Writers, op[w].kind = "pull", op[w].at = "encode"
        PROVE  \A d \in BlobsOf(op[w].content) \ (op[w].hits \cup op[w].lost) : blobs[d] = "good"
    BY <1>1 DEF Inv, OpsInv, OwnInv, Holds
  <1>2. Inv => \A w \in Writers :
                 LET o == op[w]
                 IN o.kind = "pull" /\ o.at = "encode" /\ op'[w].at \in {"glob", "refresh"} =>
                      \A d \in BlobsOf(o.content) \ (o.hits \cup o.lost) : blobs[d] = "good"
    BY <1>1
  <1> QED BY <1>2, Invariance, PTL DEF FetchedIsVerified

=============================================================================
