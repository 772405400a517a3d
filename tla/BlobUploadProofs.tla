-------------------------- MODULE BlobUploadProofs --------------------------
(* Theorems about BlobUpload, for all values of its constants.             *)
EXTENDS BlobUpload, DataProofs

----------------------------------------------------------------------------
(* The inductive invariant.                                                *)

Call   == [pc : {"new", "load", "prepare", "acquire", "wait", "sent", "failed", "gone"},
           up : Uploads \cup {None}, left : BOOLEAN]
Upload == [pc : {"none", "prepare", "start", "loop", "take", "commit", "exit", "over", "dead",
                 "panicked"},
           next : 0 .. NumParts, url : BOOLEAN, count : Int, refs : Int, stop : BOOLEAN,
           cancelled : BOOLEAN, tries : Nat, err : BOOLEAN, done : BOOLEAN]
Piece  == [st : {"idle", "patch", "put", "ok", "failed"}, read : 0 .. 1, tries : Nat]

TypeInv == /\ push \in [Pushes -> Call]
           /\ up \in [Uploads -> Upload]
           /\ part \in [Uploads -> [Parts -> Piece]]
           /\ entry \in Uploads \cup {None}
           /\ stored \in [{Repo[p] : p \in Pushes} -> BOOLEAN]
           /\ faults \in Nat

\* The progress writers of all parts.
Reads(u) == [i \in Parts |-> part[u][i].read]

\* Nobody works for the upload of a push that has not prepared it yet.
Untouched(u) == /\ up[u].pc \in {"none", "prepare", "over", "panicked"}
                /\ up[u].count = 0 /\ ~up[u].done /\ ~up[u].err
                /\ \A i \in Parts : part[u][i] = NewPart

Arrived(p) == \/ stored[Repo[p]]
              \/ push[p].up # None /\ Repo[push[p].up] # Repo[p]

PushOwn(p) ==
    /\ push[p].pc \in {"new", "load", "prepare"} => Untouched(p)
    /\ push[p].pc \in {"prepare", "acquire", "wait"} => push[p].up \in Uploads
    /\ push[p].pc = "sent" => Arrived(p)

\* The goroutines of parts exist while Run waits for them, and one that is through has
\* read its part.
PartOwn(u, i) ==
    /\ part[u][i].st \in {"patch", "put"} => up[u].pc = "loop"
    /\ part[u][i].st = "ok" => part[u][i].read = 1

UpOwn(u) ==
    /\ up[u].pc = "start" => \A i \in Parts : part[u][i] = NewPart
    /\ up[u].pc \in {"start", "loop", "take", "commit"} /\ ~up[u].done =>
          up[u].count = Total(Reads(u), Parts)
    /\ up[u].pc = "commit" /\ ~up[u].done => \A i \in Parts : part[u][i].st = "ok"
    /\ up[u].done /\ ~up[u].err => stored[Repo[u]]

PushInv == \A p \in Pushes : PushOwn(p)
PartInv == \A u \in Uploads : \A i \in Parts : PartOwn(u, i)
UpInv   == \A u \in Uploads : UpOwn(u)

Inv == TypeInv /\ PushInv /\ PartInv /\ UpInv

----------------------------------------------------------------------------
(* Facts.                                                                  *)

USE DEF Uploads

LEMMA PartsFinite == IsFiniteSet(Parts) /\ Cardinality(Parts) = NumParts
  <1>1. NumParts \in Nat \ {0}
    BY UploadAssumption
  <1> QED BY <1>1, FS_Interval DEF Parts

\* Nothing is read of parts that nobody works for, everything of those that are through.
LEMMA NothingRead ==
  ASSUME NEW u \in Uploads, \A i \in Parts : part[u][i].read = 0
  PROVE  Total(Reads(u), Parts) = 0
  BY PartsFinite, TotalZero DEF Reads

LEMMA AllRead ==
  ASSUME NEW u \in Uploads, \A i \in Parts : part[u][i].read = 1
  PROVE  Total(Reads(u), Parts) = NumParts
  BY PartsFinite, TotalOnes DEF Reads

\* A step that lets the progress writers of an upload alone lets their sum alone.
LEMMA SameReads ==
  ASSUME NEW u \in Uploads, \A i \in Parts : part'[u][i].read = part[u][i].read
  PROVE  Reads(u)' = Reads(u)
  BY DEF Reads

\* What one progress writer counts, the sum does.
LEMMA ReadsChange ==
  ASSUME TypeInv, TypeInv', NEW u \in Uploads, NEW i \in Parts,
         \A j \in Parts \ {i} : part'[u][j].read = part[u][j].read
  PROVE  /\ Total(Reads(u), Parts) \in Int
         /\ Total(Reads(u)', Parts)
              = Total(Reads(u), Parts) + (part'[u][i].read - part[u][i].read)
  <1> DEFINE f == Reads(u)
             g == Reads(u)'
  <1>1. \A j \in Parts : /\ f[j] = part[u][j].read /\ f[j] \in Int
                         /\ g[j] = part'[u][j].read /\ g[j] \in Int
    BY DEF Reads, TypeInv, Piece
  <1>2. \A j \in Parts \ {i} : g[j] = f[j]
    BY <1>1
  <1> HIDE DEF f, g
  <1>3. Total(f, Parts) \in Int
    BY <1>1, PartsFinite, TotalRemove
  <1>4. Total(g, Parts) = Total(f, Parts) + (g[i] - f[i])
    BY <1>1, <1>2, PartsFinite, TotalChange
  <1>5. Total(g, Parts) = Total(f, Parts) + (part'[u][i].read - part[u][i].read)
    BY <1>1, <1>4
  <1> QED BY <1>3, <1>5 DEF f, g

LEMMA InitInv == Init => Inv
  <1> SUFFICES ASSUME Init PROVE Inv
    OBVIOUS
  <1>1. NumParts \in Nat \ {0} /\ None \notin Pushes
    BY UploadAssumption
  <1>2. TypeInv
    BY <1>1 DEF Init, TypeInv, Call, Upload, Piece, NewUpload, NewPart
  <1>3. PushInv /\ PartInv /\ UpInv
    BY DEF Init, PushInv, PushOwn, Untouched, PartInv, PartOwn, UpInv, UpOwn, NewUpload, NewPart,
           Uploads
  <1> QED BY <1>2, <1>3 DEF Inv

----------------------------------------------------------------------------
(* The end of the server.                                                  *)

LEMMA DiesInv ==
  ASSUME Inv, NEW u \in Uploads, Dies(u)
  PROVE  Inv'
  <1>a. ASSUME NEW p \in Pushes
        PROVE  /\ push'[p] \in Call
               /\ push'[p].up = push[p].up
               /\ \/ push'[p].pc = "new" /\ push[p].pc = "new"
                  \/ push'[p].pc = "gone"
    BY DEF Inv, TypeInv, Call, Dies
  <1>b. ASSUME NEW v \in Uploads
        PROVE  /\ up'[v] \in Upload
               /\ up'[v].pc \in {"over", "panicked"}
               /\ up'[v].count = up[v].count
               /\ up'[v].done = up[v].done /\ up'[v].err = up[v].err
    BY ZenonT(60) DEF Inv, TypeInv, Upload, Dies
  <1>1. TypeInv'
    <2>1. push' \in [Pushes -> Call]
      BY <1>a DEF Dies
    <2>2. up' \in [Uploads -> Upload]
      BY <1>b DEF Dies
    <2>3. part' \in [Uploads -> [Parts -> Piece]]
      BY DEF Dies, Piece, NewPart
    <2> QED BY <2>1, <2>2, <2>3 DEF Inv, TypeInv, Dies
  <1>2. PushInv'
    BY <1>a, <1>b DEF Inv, PushInv, PushOwn, Untouched, Dies
  <1>3. PartInv'
    BY DEF Inv, PartInv, PartOwn, Dies, NewPart
  <1>4. UpInv'
    BY <1>b DEF Inv, UpInv, UpOwn, Dies
  <1> QED BY <1>1, <1>2, <1>3, <1>4 DEF Inv

----------------------------------------------------------------------------
(* Pushes.                                                                 *)

\* A step that changes no part, and of the uploads no more than who waits for them and
\* who is told to stop, keeps what is known of uploads and of parts.
LEMMA CalmStep ==
  ASSUME Inv, TypeInv', UNCHANGED <<part, stored>>,
         \A u \in Uploads : /\ up'[u].pc = up[u].pc \/ up'[u].pc \in {"none", "prepare", "dead", "over"}
                            /\ up'[u].count = up[u].count
                            /\ up'[u].done = up[u].done /\ up'[u].err = up[u].err
                            /\ up[u].pc = "loop" => up'[u].pc = "loop"
  PROVE  PartInv' /\ UpInv'
  <1>1. PartInv'
    BY DEF Inv, PartInv, PartOwn
  <1>2. ASSUME NEW u \in Uploads PROVE UpOwn(u)'
    <2>1. Reads(u)' = Reads(u)
      BY DEF Reads
    <2> QED BY <2>1 DEF Inv, UpInv, UpOwn
  <1> QED BY <1>1, <1>2 DEF UpInv

LEMMA HeadInv ==
  ASSUME Inv, NEW p \in Pushes, HeadBlob(p) \/ HeadFails(p)
  PROVE  Inv'
  <1>1. TypeInv'
    <2>1. push' \in [Pushes -> Call]
      <3>1. PICK pc \in {"sent", "load", "failed"} : push' = [push EXCEPT ![p].pc = pc]
        BY DEF HeadBlob, HeadFails
      <3> QED BY <3>1 DEF Inv, TypeInv, Call
    <2>2. faults' \in Nat
      BY DEF Inv, TypeInv, HeadBlob, HeadFails, Fault
    <2> QED BY <2>1, <2>2 DEF Inv, TypeInv, HeadBlob, HeadFails
  <1>2. PushInv'
    BY DEF Inv, TypeInv, Call, PushInv, PushOwn, Untouched, Arrived, HeadBlob, HeadFails
  <1>3. PartInv' /\ UpInv'
    BY <1>1, CalmStep DEF HeadBlob, HeadFails
  <1> QED BY <1>1, <1>2, <1>3 DEF Inv

LEMMA LoadOrStoreInv ==
  ASSUME Inv, NEW p \in Pushes, LoadOrStore(p)
  PROVE  Inv'
  <1>0. Untouched(p)
    BY DEF Inv, PushInv, PushOwn, LoadOrStore
  <1>1. CASE entry = None
    <2>a. /\ push' = [push EXCEPT ![p].pc = "prepare", ![p].up = p]
          /\ up' = [up EXCEPT ![p].pc = "prepare"]
          /\ entry' = p /\ UNCHANGED <<part, stored, faults>>
      BY <1>1 DEF LoadOrStore
    <2>1. TypeInv'
      <3>1. push' \in [Pushes -> Call]
        BY ZenonT(60), <2>a DEF Inv, TypeInv, Call
      <3>2. up' \in [Uploads -> Upload]
        BY SMTT(60), <2>a DEF Inv, TypeInv, Upload
      <3> QED BY <2>a, <3>1, <3>2 DEF Inv, TypeInv
    <2>2. \A u \in Uploads : /\ up'[u].pc = up[u].pc \/ (u = p /\ up'[u].pc = "prepare")
                            /\ up'[u].count = up[u].count
                            /\ up'[u].done = up[u].done /\ up'[u].err = up[u].err
      BY <2>a DEF Inv, TypeInv, Upload
    <2>3. \A q \in Pushes : \/ push'[q] = push[q]
                           \/ (q = p /\ push'[q].pc = "prepare" /\ push'[q].up = p)
      BY <2>a DEF Inv, TypeInv, Call
    <2>4. PushInv'
      <3>1. \A q \in Pushes : Untouched(q) => Untouched(q)'
        BY <2>a, <2>2 DEF Untouched
      <3>2. \A q \in Pushes : Arrived(q) /\ push'[q] = push[q] => Arrived(q)'
        BY <2>a DEF Arrived
      <3> QED BY <1>0, <2>3, <3>1, <3>2 DEF Inv, PushInv, PushOwn
    <2>5. PartInv' /\ UpInv'
      BY <1>0, <2>a, <2>1, <2>2, CalmStep DEF Untouched
    <2> QED BY <2>1, <2>4, <2>5 DEF Inv
  <1>2. CASE entry # None
    <2>a. /\ push' = [push EXCEPT ![p].pc = "acquire", ![p].up = entry]
          /\ UNCHANGED <<up, entry, part, stored, faults>>
          /\ entry \in Uploads
      BY <1>2 DEF LoadOrStore, Inv, TypeInv
    <2>1. TypeInv'
      <3>1. push' \in [Pushes -> Call]
        BY ZenonT(60), <2>a DEF Inv, TypeInv, Call
      <3> QED BY <2>a, <3>1 DEF Inv, TypeInv
    <2>2. \A q \in Pushes : \/ push'[q] = push[q]
                           \/ (push'[q].pc = "acquire" /\ push'[q].up \in Uploads)
      <3>1. PICK e \in Uploads : e = entry
        BY <2>a
      <3>2. push' = [push EXCEPT ![p].pc = "acquire", ![p].up = e]
        BY <2>a, <3>1
      <3>3. \A q \in Pushes : q # p => push'[q] = push[q]
        BY <3>2 DEF Inv, TypeInv
      <3>4. push'[p] = [push[p] EXCEPT !.pc = "acquire", !.up = e]
        BY <3>2 DEF Inv, TypeInv
      <3>5. push'[p].pc = "acquire" /\ push'[p].up \in Uploads
        BY <3>4 DEF Inv, TypeInv, Call
      <3> QED BY <3>3, <3>5
    <2>3. PushInv'
      BY ZenonT(60), <2>a, <2>2 DEF Inv, PushInv, PushOwn, Untouched, Arrived
    <2>4. PartInv' /\ UpInv'
      BY <2>a, <2>1, CalmStep
    <2> QED BY <2>1, <2>3, <2>4 DEF Inv
  <1> QED BY <1>1, <1>2

LEMMA PrepareInv ==
  ASSUME Inv, NEW p \in Pushes, Prepare(p) \/ PrepareMounts(p)
  PROVE  Inv'
  <1>0. Untouched(p) /\ p \in Uploads /\ push[p].pc = "prepare"
    BY DEF Inv, PushInv, PushOwn, Prepare, PrepareMounts
  <1>1. /\ \A u \in Uploads \ {p} : up'[u] = up[u]
        /\ up'[p].pc = "start" /\ up'[p].err = up[p].err
        /\ \/ ~up'[p].done /\ up'[p].count = 0 /\ stored' = stored
           \/ up'[p].done /\ stored' = [stored EXCEPT ![Repo[p]] = TRUE]
        /\ UNCHANGED <<part, entry, faults>>
        /\ push' = [push EXCEPT ![p].pc = "acquire"]
    <2>1. CASE Prepare(p)
      BY <1>0, <2>1 DEF Inv, TypeInv, Upload, Untouched, Prepare, Prepared
    <2>2. CASE PrepareMounts(p)
      BY <1>0, <2>2 DEF Inv, TypeInv, Upload, Untouched, PrepareMounts, Prepared
    <2> QED BY <2>1, <2>2
  <1>2. TypeInv'
    <2>1. NumParts \in Nat
      BY UploadAssumption
    <2>2. up' \in [Uploads -> Upload]
      <3>1. CASE Prepare(p)
        BY ZenonT(60), <1>0, <3>1 DEF Inv, TypeInv, Upload, Prepare, Prepared
      <3>2. CASE PrepareMounts(p)
        <4> DEFINE m == [up[p] EXCEPT !.next = NumParts, !.count = NumParts, !.done = TRUE]
                   u == [m EXCEPT !.pc = "start"]
        <4>1. up' = [up EXCEPT ![p] = u]
          BY <3>2 DEF PrepareMounts, Prepared
        <4>2. m \in Upload
          <5>1. NumParts \in 0 .. NumParts /\ NumParts \in Int /\ up[p] \in Upload
            BY <2>1 DEF Inv, TypeInv
          <5> QED BY <5>1 DEF Upload
        <4> HIDE DEF m
        <4>3. u \in Upload
          BY <4>2 DEF Upload
        <4> HIDE DEF u
        <4> QED BY <4>1, <4>3 DEF Inv, TypeInv
      <3> QED BY <3>1, <3>2
    <2>3. stored' \in [{Repo[q] : q \in Pushes} -> BOOLEAN]
      BY <1>1 DEF Inv, TypeInv
    <2>4. push' \in [Pushes -> Call]
      <3>1. push' = [push EXCEPT ![p].pc = "acquire"]
        BY <1>1
      <3> QED BY <3>1 DEF Inv, TypeInv, Call
    <2> QED BY <1>1, <2>2, <2>3, <2>4 DEF Inv, TypeInv
  <1>3. \A q \in Pushes : stored[Repo[q]] => stored'[Repo[q]]
    BY <1>1 DEF Inv, TypeInv
  <1>4. PushInv'
    <2>1. push[p].up \in Uploads
      BY <1>0 DEF Inv, PushInv, PushOwn
    <2>2. \A q \in Pushes : /\ push'[q].up = push[q].up
                           /\ IF q = p THEN push'[q].pc = "acquire" ELSE push'[q] = push[q]
      <3>1. push' = [push EXCEPT ![p].pc = "acquire"]
        BY <1>1
      <3> QED BY <3>1 DEF Inv, TypeInv, Call
    <2>3. \A q \in Pushes : q # p => up'[q] = up[q]
      BY <1>1
    <2>4. UNCHANGED part
      BY <1>1
    <2>5. \A q \in Pushes : q # p /\ Untouched(q) => Untouched(q)'
      BY <2>3, <2>4 DEF Untouched
    <2>6. \A q \in Pushes : Arrived(q) /\ push'[q] = push[q] => Arrived(q)'
      BY <1>3 DEF Arrived
    <2> QED BY <2>1, <2>2, <2>5, <2>6 DEF Inv, PushInv, PushOwn
  <1>5. PartInv'
    BY <1>0, <1>1 DEF Inv, PartInv, PartOwn, Untouched, NewPart
  <1>6. ASSUME NEW u \in Uploads PROVE UpOwn(u)'
    <2>1. Reads(u)' = Reads(u)
      BY <1>1 DEF Reads
    <2>2. CASE u # p
      BY <1>1, <1>3, <2>1, <2>2 DEF Inv, UpInv, UpOwn
    <2>3. CASE u = p
      <3>1. Total(Reads(u), Parts) = 0
        BY <1>0, <2>3, NothingRead DEF Untouched, NewPart
      <3>2. up'[p].done => stored'[Repo[p]]
        BY <1>1 DEF Inv, TypeInv
      <3> QED BY <1>0, <1>1, <2>1, <2>3, <3>1, <3>2 DEF UpOwn, Untouched
    <2> QED BY <2>2, <2>3
  <1> QED BY <1>2, <1>4, <1>5, <1>6 DEF Inv, UpInv

LEMMA PrepareFailsInv ==
  ASSUME Inv, NEW p \in Pushes, PrepareFails(p)
  PROVE  Inv'
  <1>0. Untouched(p) /\ p \in Uploads
    BY DEF Inv, PushInv, PushOwn, PrepareFails
  <1>1. TypeInv'
    <2>1. push' \in [Pushes -> Call]
      BY DEF Inv, TypeInv, Call, PrepareFails
    <2>2. up' \in [Uploads -> Upload]
      <3>1. up' = [up EXCEPT ![p].pc = "dead"]
        BY DEF PrepareFails
      <3> QED BY SMTT(60), <3>1 DEF Inv, TypeInv, Upload
    <2>3. faults' \in Nat
      BY DEF Inv, TypeInv, PrepareFails, Fault
    <2> QED BY <2>1, <2>2, <2>3 DEF Inv, TypeInv, PrepareFails
  <1>2. PushInv'
    BY <1>0 DEF Inv, TypeInv, Call, Upload, PushInv, PushOwn, Untouched, Arrived, PrepareFails
  <1>3. PartInv' /\ UpInv'
    <2>1. \A u \in Uploads : /\ up'[u].pc = up[u].pc \/ (u = p /\ up'[u].pc = "dead")
                            /\ up'[u].count = up[u].count
                            /\ up'[u].done = up[u].done /\ up'[u].err = up[u].err
      <3>1. up' = [up EXCEPT ![p].pc = "dead"]
        BY DEF PrepareFails
      <3> QED BY <3>1 DEF Inv, TypeInv, Upload
    <2> QED BY <1>0, <1>1, <2>1, CalmStep DEF PrepareFails, Untouched
  <1> QED BY <1>1, <1>2, <1>3 DEF Inv

LEMMA AcquireInv ==
  ASSUME Inv, NEW p \in Pushes, Acquire(p)
  PROVE  Inv'
  <1>0. push[p].up \in Uploads
    BY DEF Inv, PushInv, PushOwn, Acquire
  <1>1. TypeInv'
    <2>1. push' \in [Pushes -> Call]
      BY DEF Inv, TypeInv, Call, Acquire
    <2>2. up' \in [Uploads -> Upload]
      <3>1. PICK v \in Uploads : v = push[p].up
        BY <1>0
      <3>2. up' = [up EXCEPT ![v].refs = @ + 1]
        BY <3>1 DEF Acquire
      <3>3. \A w \in Uploads : up[w].refs + 1 \in Int
        BY DEF Inv, TypeInv, Upload
      <3> QED BY ZenonT(60), <3>2, <3>3 DEF Inv, TypeInv, Upload
    <2> QED BY <2>1, <2>2 DEF Inv, TypeInv, Acquire
  <1>2. PushInv'
    BY <1>0 DEF Inv, TypeInv, Call, Upload, PushInv, PushOwn, Untouched, Arrived, Acquire
  <1>3. PartInv' /\ UpInv'
    <2>1. \A u \in Uploads : /\ up'[u].pc = up[u].pc /\ up'[u].count = up[u].count
                            /\ up'[u].done = up[u].done /\ up'[u].err = up[u].err
      <3>1. PICK v \in Uploads : v = push[p].up
        BY <1>0
      <3>2. up' = [up EXCEPT ![v].refs = @ + 1]
        BY <3>1 DEF Acquire
      <3> QED BY <3>2 DEF Inv, TypeInv, Upload
    <2> QED BY <1>1, <2>1, CalmStep DEF Acquire
  <1> QED BY <1>1, <1>2, <1>3 DEF Inv

LEMMA LeaveInv ==
  ASSUME Inv, NEW p \in Pushes, Leave(p)
  PROVE  Inv'
  <1>1. TypeInv'
    BY DEF Inv, TypeInv, Call, Leave
  <1>2. PushInv'
    BY DEF Inv, TypeInv, Call, PushInv, PushOwn, Untouched, Arrived, Leave
  <1>3. PartInv' /\ UpInv'
    BY <1>1, CalmStep DEF Leave
  <1> QED BY <1>1, <1>2, <1>3 DEF Inv

\* A push that goes away may take the server with it.
LEMMA ReleaseInv ==
  ASSUME Inv, NEW p \in Pushes, push[p].pc = "wait", NEW pc \in {"sent", "failed", "gone"},
         pc = "sent" => Arrived(p), Release(p, pc)
  PROVE  Inv'
  <1> DEFINE u == push[p].up
  <1>0. u \in Uploads
    BY DEF Inv, PushInv, PushOwn
  <1>1. CASE Dies(u)
    BY <1>0, <1>1, DiesInv
  <1>2. CASE /\ push' = [push EXCEPT ![p].pc = pc]
             /\ up' = [up EXCEPT ![u].refs = @ - 1, ![u].cancelled = @ \/ up[u].refs = 1]
             /\ UNCHANGED <<part, entry, stored, faults>>
    <2> HIDE DEF u
    <2>1. TypeInv'
      <3>1. push' \in [Pushes -> Call]
        BY <1>2 DEF Inv, TypeInv, Call
      <3>2. up' \in [Uploads -> Upload]
        <4>1. up' = [up EXCEPT ![u].refs = @ - 1, ![u].cancelled = @ \/ up[u].refs = 1]
          BY <1>2
        <4>2. ASSUME NEW v \in Uploads PROVE up'[v] \in Upload
          <5>1. CASE v # u
            BY <4>1, <5>1 DEF Inv, TypeInv
          <5>2. CASE v = u
            <6>1. up'[u] = [up[u] EXCEPT !.refs = @ - 1, !.cancelled = @ \/ up[u].refs = 1]
              BY <1>0, <4>1 DEF Inv, TypeInv
            <6>2. up[u] \in Upload /\ (up[u].cancelled \/ up[u].refs = 1) \in BOOLEAN
                  /\ up[u].refs - 1 \in Int
              BY <1>0 DEF Inv, TypeInv, Upload
            <6> QED BY <5>2, <6>1, <6>2 DEF Upload
          <5> QED BY <5>1, <5>2
        <4> QED BY <4>1, <4>2 DEF Inv, TypeInv
      <3> QED BY <1>2, <3>1, <3>2 DEF Inv, TypeInv
    <2>2. PushInv'
      BY <1>0, <1>2 DEF Inv, TypeInv, Call, Upload, PushInv, PushOwn, Untouched, Arrived
    <2>3. PartInv' /\ UpInv'
      <3>1. \A v \in Uploads : /\ up'[v].pc = up[v].pc /\ up'[v].count = up[v].count
                              /\ up'[v].done = up[v].done /\ up'[v].err = up[v].err
        BY <1>0, <1>2 DEF Inv, TypeInv, Upload
      <3> QED BY <1>2, <2>1, <3>1, CalmStep
    <2> QED BY <2>1, <2>2, <2>3 DEF Inv
  <1> QED BY <1>1, <1>2 DEF Release

LEMMA GetsInv ==
  ASSUME Inv, NEW p \in Pushes, Gets(p) \/ Abandon(p)
  PROVE  Inv'
  <1>1. CASE Gets(p)
    <2>1. push[p].up \in Uploads /\ push[p].up # None
      BY <1>1, UploadAssumption DEF Inv, PushInv, PushOwn, Gets
    <2>2. ~up[push[p].up].err => Arrived(p)
      BY <1>1, <2>1 DEF Inv, UpInv, UpOwn, Gets, Arrived
    <2> QED BY <1>1, <2>2, ReleaseInv DEF Gets
  <1>2. CASE Abandon(p)
    BY <1>2, ReleaseInv DEF Abandon
  <1> QED BY <1>1, <1>2

----------------------------------------------------------------------------
(* Run.                                                                    *)

\* What a step of Run keeps, when it changes only its upload and reads nothing.
LEMMA RunStep ==
  ASSUME Inv, TypeInv', NEW u \in Uploads, UNCHANGED push,
         up[u].pc \in {"start", "loop", "take", "commit", "exit"},
         \A v \in Uploads \ {u} : up'[v] = up[v] /\ part'[v] = part[v],
         \A p \in Pushes : stored[Repo[p]] => stored'[Repo[p]],
         \A i \in Parts : part'[u][i].read = part[u][i].read /\ PartOwn(u, i)',
         Reads(u)' = Reads(u) => UpOwn(u)'
  PROVE  Inv'
  <1>1. PushInv'
    <2>1. \A p \in Pushes : Untouched(p) => p # u
      BY DEF Untouched
    <2>2. \A p \in Pushes : Untouched(p) => Untouched(p)'
      BY <2>1 DEF Untouched
    <2>3. \A p \in Pushes : Arrived(p) => Arrived(p)'
      BY DEF Arrived
    <2> QED BY <2>2, <2>3 DEF Inv, PushInv, PushOwn
  <1>2. PartInv'
    BY DEF Inv, PartInv, PartOwn
  <1>3. UpInv'
    <2>1. \A v \in Uploads : Reads(v)' = Reads(v)
      BY SameReads
    <2>2. \A v \in Uploads \ {u} : UpOwn(v)'
      BY <2>1 DEF Inv, UpInv, UpOwn
    <2> QED BY <2>1, <2>2 DEF UpInv
  <1> QED BY <1>1, <1>2, <1>3 DEF Inv

\* Most of them change nothing but the upload.
LEMMA RunAlone ==
  ASSUME Inv, NEW u \in Uploads, NEW x \in Upload, up' = [up EXCEPT ![u] = x],
         up[u].pc \in {"start", "loop", "take", "commit", "exit"},
         UNCHANGED <<push, part>>, entry' \in Uploads \cup {None}, faults' \in Nat,
         stored' = stored \/ \E b \in BOOLEAN : stored' = [stored EXCEPT ![Repo[u]] = @ \/ b],
         up[u].pc = "loop" => x.pc = "loop" \/ \A i \in Parts : part[u][i].st \notin {"patch", "put"},
         x.pc = "start" => up[u].pc = "start",
         x.count = up[u].count,
         x.done = up[u].done \/ x.done,
         x.pc \in {"start", "loop", "take", "commit"} => 
            up[u].pc \in {"start", "loop", "take", "commit"} /\ x.done = up[u].done,
         x.pc = "commit" /\ ~x.done => \A i \in Parts : part[u][i].st = "ok",
         x.done /\ ~x.err => stored'[Repo[u]]
  PROVE  Inv'
  <1>1. /\ up'[u] = x
        /\ \A v \in Uploads \ {u} : up'[v] = up[v]
        /\ up' \in [Uploads -> Upload]
    BY DEF Inv, TypeInv
  <1>2. /\ stored' \in [{Repo[p] : p \in Pushes} -> BOOLEAN]
        /\ \A p \in Pushes : stored[Repo[p]] => stored'[Repo[p]]
    BY ZenonT(60) DEF Inv, TypeInv
  <1>3. TypeInv'
    BY <1>1, <1>2 DEF Inv, TypeInv
  <1>4. \A i \in Parts : PartOwn(u, i)'
    BY <1>1 DEF Inv, PartInv, PartOwn
  <1>5. Reads(u)' = Reads(u) => UpOwn(u)'
    BY <1>1 DEF Inv, UpInv, UpOwn
  <1> QED BY <1>1, <1>2, <1>3, <1>4, <1>5, RunStep

LEMMA RunStartInv ==
  ASSUME Inv, NEW u \in Uploads, RunStart(u) \/ RunFails(u)
  PROVE  Inv'
  <1>1. up[u] \in Upload /\ up[u].pc = "start" /\ up[u].count \in Int
    BY DEF Inv, TypeInv, Upload, RunStart, RunFails
  <1>2. CASE RunStart(u)
    <2> DEFINE x == [up[u] EXCEPT !.pc = "loop", !.stop = TRUE]
    <2>1. up' = [up EXCEPT ![u] = x]
      BY <1>2 DEF RunStart
    <2>2. x \in Upload /\ x.pc = "loop" /\ x.count = up[u].count /\ x.done = up[u].done
          /\ x.err = up[u].err
      BY <1>1 DEF Upload
    <2> HIDE DEF x
    <2>3. x.done /\ ~x.err => stored'[Repo[u]]
      BY <1>2, <2>2 DEF Inv, UpInv, UpOwn, RunStart
    <2>4. entry' \in Uploads \cup {None} /\ faults' \in Nat
      BY <1>2 DEF Inv, TypeInv, RunStart
    <2> QED BY <1>1, <1>2, <2>1, <2>2, <2>3, <2>4, RunAlone DEF RunStart
  <1>3. CASE RunFails(u)
    <2> DEFINE x == [up[u] EXCEPT !.pc = "exit", !.stop = TRUE, !.err = TRUE]
    <2>1. up' = [up EXCEPT ![u] = x]
      BY <1>3 DEF RunFails
    <2>2. x \in Upload /\ x.pc = "exit" /\ x.count = up[u].count /\ x.done = up[u].done
          /\ x.err
      BY <1>1 DEF Upload
    <2> HIDE DEF x
    <2>3. entry' \in Uploads \cup {None} /\ faults' \in Nat
      BY <1>3 DEF Inv, TypeInv, RunFails, Fault
    <2> QED BY <1>1, <1>3, <2>1, <2>2, <2>3, RunAlone DEF RunFails
  <1> QED BY <1>2, <1>3

LEMMA RunNextInv ==
  ASSUME Inv, NEW u \in Uploads, RunNext(u)
  PROVE  Inv'
  <1>1. /\ up[u] \in Upload /\ up[u].pc = "loop" /\ up[u].next \in Nat
        /\ up[u].next < NumParts /\ NumParts \in Nat /\ up[u].count \in Int
    BY UploadAssumption DEF Inv, TypeInv, Upload, RunNext
  <1>2. \/ up' = [up EXCEPT ![u].next = @ + 1]
        \/ up' = [up EXCEPT ![u].next = @ + 1, ![u].url = FALSE]
    BY DEF RunNext
  <1>3. up[u].next + 1 \in 0 .. NumParts
    BY <1>1
  <1>4. /\ up'[u] \in Upload /\ up'[u].pc = "loop" /\ up'[u].count = up[u].count
        /\ up'[u].done = up[u].done /\ up'[u].err = up[u].err
    <2>1. CASE up' = [up EXCEPT ![u].next = @ + 1]
      <3>1. up'[u] = [up[u] EXCEPT !.next = @ + 1]
        BY <2>1 DEF Inv, TypeInv
      <3> QED BY <1>1, <1>3, <3>1 DEF Upload
    <2>2. CASE up' = [up EXCEPT ![u].next = @ + 1, ![u].url = FALSE]
      <3>1. up'[u] = [up[u] EXCEPT !.next = @ + 1, !.url = FALSE]
        BY <2>2 DEF Inv, TypeInv
      <3> QED BY <1>1, <1>3, <3>1 DEF Upload
    <2> QED BY <1>2, <2>1, <2>2
  <1>5. /\ \A v \in Uploads \ {u} : up'[v] = up[v]
        /\ up' \in [Uploads -> Upload]
    <2>1. \A v \in Uploads \ {u} : up'[v] = up[v]
      BY <1>2 DEF Inv, TypeInv
    <2>2. up' = [v \in Uploads |-> up'[v]]
      BY <1>2 DEF Inv, TypeInv
    <2> QED BY <1>4, <2>1, <2>2 DEF Inv, TypeInv
  <1>6. /\ part' \in [Uploads -> [Parts -> Piece]]
        /\ \A v \in Uploads \ {u} : part'[v] = part[v]
        /\ \A i \in Parts : /\ part'[u][i].read = part[u][i].read
                            /\ part'[u][i].st = part[u][i].st \/ part'[u][i].st = "patch"
    <2>1. CASE UNCHANGED part
      BY <2>1 DEF Inv, TypeInv
    <2>2. CASE part' = [part EXCEPT ![u][up[u].next].st = "patch"]
      <3>1. PICK n \in Parts : n = up[u].next
        BY <1>1 DEF Parts
      <3>2. part' = [part EXCEPT ![u][n].st = "patch"]
        BY <2>2, <3>1
      <3>3. part' \in [Uploads -> [Parts -> Piece]]
        <4>1. \A v \in Uploads : part[v] \in [Parts -> Piece]
          BY DEF Inv, TypeInv
        <4>2. [part[u][n] EXCEPT !.st = "patch"] \in Piece
          BY <4>1 DEF Piece
        <4>3. part' = [part EXCEPT ![u] = [part[u] EXCEPT ![n] = [part[u][n] EXCEPT !.st = "patch"]]]
          BY <3>2
        <4> QED BY <4>1, <4>2, <4>3 DEF Inv, TypeInv
      <3>4. \A v \in Uploads \ {u} : part'[v] = part[v]
        BY <3>2 DEF Inv, TypeInv
      <3>5. part'[u] = [part[u] EXCEPT ![n] = [@ EXCEPT !.st = "patch"]]
        BY <3>2 DEF Inv, TypeInv
      <3>6. part[u] \in [Parts -> Piece]
        BY DEF Inv, TypeInv
      <3>7. ASSUME NEW i \in Parts
            PROVE  /\ part'[u][i].read = part[u][i].read
                   /\ part'[u][i].st = part[u][i].st \/ part'[u][i].st = "patch"
        <4>1. CASE i # n
          BY <3>5, <3>6, <4>1
        <4>2. CASE i = n
          <5>1. part'[u][n] = [part[u][n] EXCEPT !.st = "patch"]
            BY <3>5, <3>6
          <5>2. part[u][n] \in Piece
            BY <3>6
          <5> QED BY <4>2, <5>1, <5>2 DEF Piece
        <4> QED BY <4>1, <4>2
      <3> QED BY <3>3, <3>4, <3>7
    <2> QED BY <2>1, <2>2 DEF RunNext
  <1>7. TypeInv' /\ UNCHANGED <<push, stored>>
    BY <1>5, <1>6 DEF Inv, TypeInv, RunNext
  <1>8. \A i \in Parts : PartOwn(u, i)'
    BY <1>4, <1>5, <1>6 DEF Inv, PartInv, PartOwn
  <1>9. Reads(u)' = Reads(u) => UpOwn(u)'
    BY <1>1, <1>4, <1>5, <1>7 DEF Inv, UpInv, UpOwn
  <1> QED BY <1>1, <1>5, <1>6, <1>7, <1>8, <1>9, RunStep

LEMMA RunWaitedInv ==
  ASSUME Inv, NEW u \in Uploads, RunWaited(u)
  PROVE  Inv'
  <1>1. up[u] \in Upload /\ up[u].pc = "loop" /\ up[u].count \in Int
    BY DEF Inv, TypeInv, Upload, RunWaited
  <1> DEFINE x == IF \E i \in Parts : part[u][i].st = "failed"
                  THEN [up[u] EXCEPT !.pc = "exit", !.err = TRUE]
                  ELSE [up[u] EXCEPT !.pc = "take"]
  <1>2. up' = [up EXCEPT ![u] = x]
    BY DEF RunWaited, Inv, TypeInv
  <1>3. /\ x \in Upload /\ x.pc \in {"exit", "take"} /\ x.count = up[u].count
        /\ x.done = up[u].done /\ (x.err = up[u].err \/ x.err)
    <2>1. x = [up[u] EXCEPT !.pc = "exit", !.err = TRUE] \/ x = [up[u] EXCEPT !.pc = "take"]
      OBVIOUS
    <2> HIDE DEF x
    <2> QED BY <1>1, <2>1 DEF Upload
  <1> HIDE DEF x
  <1>4. x.done /\ ~x.err => stored'[Repo[u]]
    BY <1>3 DEF Inv, UpInv, UpOwn, RunWaited
  <1>5. entry' \in Uploads \cup {None} /\ faults' \in Nat
    BY DEF Inv, TypeInv, RunWaited
  <1> QED BY <1>1, <1>2, <1>3, <1>4, <1>5, RunAlone DEF RunWaited

LEMMA RunTakesInv ==
  ASSUME Inv, NEW u \in Uploads, RunTakes(u)
  PROVE  Inv'
  <1>1. up[u] \in Upload /\ up[u].pc = "take" /\ up[u].count \in Int
    BY DEF Inv, TypeInv, Upload, RunTakes
  <1>2. CASE Dies(u)
    BY <1>2, DiesInv
  <1>3. CASE /\ \A i \in Planned(u) : part[u][i].st = "ok"
             /\ up' = [up EXCEPT ![u].pc = "commit", ![u].url = FALSE]
             /\ UNCHANGED <<push, part, entry, stored, faults>>
    <2> DEFINE x == [up[u] EXCEPT !.pc = "commit", !.url = FALSE]
    <2>1. up' = [up EXCEPT ![u] = x]
      BY <1>3
    <2>2. /\ x \in Upload /\ x.pc = "commit" /\ x.count = up[u].count
          /\ x.done = up[u].done /\ x.err = up[u].err
      BY <1>1 DEF Upload
    <2> HIDE DEF x
    <2>3. x.done /\ ~x.err => stored'[Repo[u]]
      BY <1>3, <2>2 DEF Inv, UpInv, UpOwn
    <2>4. ~x.done => \A i \in Parts : part[u][i].st = "ok"
      BY <1>3, <2>2 DEF Planned
    <2>5. entry' \in Uploads \cup {None} /\ faults' \in Nat
      BY <1>3 DEF Inv, TypeInv
    <2> QED BY <1>1, <1>3, <2>1, <2>2, <2>3, <2>4, <2>5, RunAlone
  <1> QED BY <1>2, <1>3 DEF RunTakes

LEMMA RunCommitsInv ==
  ASSUME Inv, NEW u \in Uploads, RunCommits(u) \/ RunDeletes(u)
  PROVE  Inv'
  <1>1. up[u] \in Upload /\ up[u].count \in Int
    BY DEF Inv, TypeInv, Upload
  <1>2. CASE RunCommits(u)
    <2> DEFINE x == [up[u] EXCEPT !.pc = "exit", !.done = TRUE]
    <2>1. up' = [up EXCEPT ![u] = x]
      BY <1>2 DEF RunCommits
    <2>2. x \in Upload /\ x.pc = "exit" /\ x.count = up[u].count /\ x.done
      BY <1>1 DEF Upload
    <2> HIDE DEF x
    <2>3. /\ stored'[Repo[u]]
          /\ \E b \in BOOLEAN : stored' = [stored EXCEPT ![Repo[u]] = @ \/ b]
      <3>1. stored' = [stored EXCEPT ![Repo[u]] = TRUE]
        BY <1>2 DEF RunCommits
      <3>2. stored' = [stored EXCEPT ![Repo[u]] = @ \/ TRUE]
        BY <3>1
      <3> QED BY ZenonT(60), <3>1, <3>2 DEF Inv, TypeInv
    <2>4. entry' \in Uploads \cup {None} /\ faults' \in Nat
      BY <1>2 DEF Inv, TypeInv, RunCommits
    <2>5. up[u].pc = "commit" /\ UNCHANGED <<push, part>>
      BY <1>2 DEF RunCommits
    <2> QED BY <2>1, <2>2, <2>3, <2>4, <2>5, RunAlone
  <1>3. CASE RunDeletes(u)
    <2> DEFINE x == [up[u] EXCEPT !.pc = "over"]
    <2>1. up' = [up EXCEPT ![u] = x]
      BY <1>3 DEF RunDeletes
    <2>2. /\ x \in Upload /\ x.pc = "over" /\ x.count = up[u].count
          /\ x.done = up[u].done /\ x.err = up[u].err
      BY <1>1 DEF Upload
    <2> HIDE DEF x
    <2>3. x.done /\ ~x.err => stored'[Repo[u]]
      BY <1>3, <2>2 DEF Inv, UpInv, UpOwn, RunDeletes
    <2>4. entry' \in Uploads \cup {None} /\ faults' \in Nat
      BY <1>3 DEF Inv, TypeInv, RunDeletes
    <2>5. up[u].pc = "exit" /\ UNCHANGED <<push, part, stored>>
      BY <1>3 DEF RunDeletes
    <2> QED BY <2>1, <2>2, <2>3, <2>4, <2>5, RunAlone
  <1> QED BY <1>2, <1>3

LEMMA CommitFailsInv ==
  ASSUME Inv, NEW u \in Uploads, CommitFails(u)
  PROVE  Inv'
  <1>1. up[u] \in Upload /\ up[u].count \in Int /\ up[u].pc = "commit" /\ up[u].tries \in Nat
    BY DEF Inv, TypeInv, Upload, CommitFails
  <1> DEFINE x == IF up[u].cancelled \/ up[u].tries + 1 = MaxRetries THEN CommitEnds(u)
                  ELSE [up[u] EXCEPT !.tries = @ + 1]
  <1>2. up' = [up EXCEPT ![u] = x]
    BY DEF CommitFails
  <1>3. x = CommitEnds(u) \/ x = [up[u] EXCEPT !.tries = @ + 1]
    OBVIOUS
  <1> HIDE DEF x
  <1>4. PICK taken \in BOOLEAN : stored' = [stored EXCEPT ![Repo[u]] = @ \/ taken]
    BY DEF CommitFails
  <1>5. entry' \in Uploads \cup {None} /\ faults' \in Nat /\ UNCHANGED <<push, part>>
    BY DEF Inv, TypeInv, CommitFails, Fault
  <1>6. CASE x = CommitEnds(u)
    <2>1. x \in Upload /\ x.pc = "exit" /\ x.count = up[u].count /\ x.err /\ x.done
      BY <1>1, <1>6 DEF Upload, CommitEnds
    <2>2. \E b \in BOOLEAN : stored' = [stored EXCEPT ![Repo[u]] = @ \/ b]
      BY <1>4
    <2> QED BY <1>1, <1>2, <1>5, <2>1, <2>2, RunAlone
  <1>7. CASE x = [up[u] EXCEPT !.tries = @ + 1]
    <2>1. /\ x \in Upload /\ x.pc = "commit" /\ x.count = up[u].count
          /\ x.done = up[u].done /\ x.err = up[u].err
      BY <1>1, <1>7 DEF Upload
    <2>2. x.done /\ ~x.err => stored'[Repo[u]]
      BY <1>4, <2>1 DEF Inv, TypeInv, UpInv, UpOwn
    <2>3. ~x.done => \A i \in Parts : part[u][i].st = "ok"
      BY <1>1, <2>1 DEF Inv, UpInv, UpOwn
    <2> QED BY <1>1, <1>2, <1>4, <1>5, <2>1, <2>2, <2>3, RunAlone
  <1> QED BY <1>3, <1>6, <1>7

----------------------------------------------------------------------------
(* uploadPart.                                                             *)

\* The goroutine of a part counts for its upload what its progress writer does.
LEMMA PartStep ==
  ASSUME Inv, NEW u \in Uploads, NEW i \in Parts, NEW x \in Piece, NEW y \in Upload,
         part' = [part EXCEPT ![u] = [part[u] EXCEPT ![i] = x]],
         up' = [up EXCEPT ![u] = y],
         UNCHANGED <<push, entry, stored>>, faults' \in Nat,
         part[u][i].st \in {"patch", "put"}, x.st = "ok" => x.read = 1,
         y.pc = up[u].pc, y.done = up[u].done, y.err = up[u].err,
         y.count = up[u].count + (x.read - part[u][i].read)
  PROVE  Inv'
  <1>1. /\ up'[u] = y /\ up' \in [Uploads -> Upload]
        /\ \A v \in Uploads \ {u} : up'[v] = up[v]
    BY DEF Inv, TypeInv
  <1>2. /\ part'[u][i] = x
        /\ \A j \in Parts \ {i} : part'[u][j] = part[u][j]
        /\ \A v \in Uploads \ {u} : part'[v] = part[v]
        /\ part' \in [Uploads -> [Parts -> Piece]]
    <2>1. part[u] \in [Parts -> Piece]
      BY DEF Inv, TypeInv
    <2> QED BY <2>1 DEF Inv, TypeInv
  <1>3. TypeInv'
    BY <1>1, <1>2 DEF Inv, TypeInv
  <1>4. up[u].pc = "loop"
    BY DEF Inv, PartInv, PartOwn
  <1>5. PushInv'
    <2>1. \A p \in Pushes : Untouched(p) => p # u
      BY <1>4 DEF Untouched
    <2>2. \A p \in Pushes : Untouched(p) => Untouched(p)'
      BY <1>1, <1>2, <2>1 DEF Untouched
    <2>3. \A p \in Pushes : Arrived(p) => Arrived(p)'
      BY DEF Arrived
    <2> QED BY <2>2, <2>3 DEF Inv, PushInv, PushOwn
  <1>6. PartInv'
    <2>1. \A j \in Parts : PartOwn(u, j)'
      BY <1>1, <1>2, <1>4 DEF Inv, PartInv, PartOwn
    <2>2. \A v \in Uploads \ {u} : \A j \in Parts : PartOwn(v, j)'
      BY <1>1, <1>2 DEF Inv, PartInv, PartOwn
    <2> QED BY <2>1, <2>2 DEF PartInv
  <1>7. ASSUME NEW v \in Uploads \ {u} PROVE UpOwn(v)'
    <2>1. Reads(v)' = Reads(v)
      BY <1>2 DEF Reads
    <2> QED BY <1>1, <1>2, <2>1 DEF Inv, UpInv, UpOwn
  <1>8. UpOwn(u)'
    <2>1. /\ Total(Reads(u), Parts) \in Int
          /\ Total(Reads(u)', Parts)
               = Total(Reads(u), Parts) + (x.read - part[u][i].read)
      BY <1>2, <1>3, ReadsChange DEF Inv
    <2>2. ~up[u].done => up[u].count = Total(Reads(u), Parts)
      BY <1>4 DEF Inv, UpInv, UpOwn
    <2>3. ~y.done => y.count = Total(Reads(u)', Parts)
      BY <2>1, <2>2
    <2>4. y.done /\ ~y.err => stored[Repo[u]]
      BY DEF Inv, UpInv, UpOwn
    <2> QED BY <1>1, <1>4, <2>3, <2>4 DEF UpOwn
  <1> QED BY <1>3, <1>5, <1>6, <1>7, <1>8 DEF Inv, UpInv

LEMMA PartInvStep ==
  ASSUME Inv, NEW u \in Uploads, NEW i \in Parts, Part(u, i)
  PROVE  Inv'
  <1>1. /\ up[u] \in Upload /\ up[u].count \in Int
        /\ part[u][i] \in Piece /\ part[u][i].read \in 0 .. 1 /\ part[u][i].tries \in Nat
        /\ entry \in Uploads \cup {None} /\ faults \in Nat
    BY DEF Inv, TypeInv, Upload, Piece
  <1> DEFINE c == up[u]
             a == part[u][i]
  <1>2. CASE PartReads(u, i)
    <2> DEFINE x == [a EXCEPT !.read = 1]
               y == [c EXCEPT !.count = @ + 1]
    <2>1. x \in Piece /\ x.st = a.st /\ x.read = 1
      BY <1>1 DEF Piece
    <2>2. /\ y \in Upload /\ y.pc = c.pc /\ y.done = c.done /\ y.err = c.err
          /\ y.count = c.count + 1
      BY <1>1 DEF Upload
    <2>3. /\ part' = [part EXCEPT ![u] = [part[u] EXCEPT ![i] = x]]
          /\ up' = [up EXCEPT ![u] = y]
          /\ a.st \in {"patch", "put"} /\ a.read = 0
          /\ UNCHANGED <<push, entry, stored, faults>>
      BY <1>2 DEF PartReads
    <2> HIDE DEF x, y
    <2>4. y.count = c.count + (x.read - a.read)
      BY <2>1, <2>2, <2>3
    <2> QED BY <1>1, <2>1, <2>2, <2>3, <2>4, PartStep
  <1>3. CASE PartPatched(u, i)
    <2> DEFINE x == [a EXCEPT !.st = "ok"]
               y == [c EXCEPT !.url = TRUE]
    <2>1. x \in Piece /\ x.read = a.read
      BY <1>1 DEF Piece
    <2>2. /\ y \in Upload /\ y.pc = c.pc /\ y.done = c.done /\ y.err = c.err
          /\ y.count = c.count
      BY <1>1 DEF Upload
    <2>3. /\ part' = [part EXCEPT ![u] = [part[u] EXCEPT ![i] = x]]
          /\ up' = [up EXCEPT ![u] = y]
          /\ a.st \in {"patch", "put"} /\ a.read = 1
          /\ UNCHANGED <<push, entry, stored, faults>>
      BY <1>3 DEF PartPatched
    <2> HIDE DEF x, y
    <2>4. y.count = c.count + (x.read - a.read)
      BY <1>1, <2>1, <2>2
    <2> QED BY <1>1, <2>1, <2>2, <2>3, <2>4, PartStep
  <1>4. CASE PartRedirected(u, i)
    <2> DEFINE x == [st |-> "put", read |-> 0, tries |-> 0]
               b == Rollback(u, i)
               y == [b EXCEPT !.url = TRUE]
    <2>1. x \in Piece /\ x.st = "put" /\ x.read = 0
      BY DEF Piece
    <2>2. /\ y \in Upload /\ y.pc = c.pc /\ y.done = c.done /\ y.err = c.err
          /\ y.count = c.count + (0 - a.read)
      <3>1. /\ b \in Upload /\ b.pc = c.pc /\ b.done = c.done /\ b.err = c.err
            /\ b.count = c.count + (0 - a.read)
        BY <1>1 DEF Upload, Rollback
      <3> HIDE DEF b
      <3> QED BY <3>1 DEF Upload
    <2>3. /\ part' = [part EXCEPT ![u] = [part[u] EXCEPT ![i] = x]]
          /\ up' = [up EXCEPT ![u] = y]
          /\ a.st \in {"patch", "put"}
          /\ UNCHANGED <<push, entry, stored, faults>>
      BY <1>4 DEF PartRedirected
    <2> HIDE DEF x, y
    <2> QED BY <1>1, <2>1, <2>2, <2>3, PartStep
  <1>5. CASE PartPut(u, i)
    <2> DEFINE x == [a EXCEPT !.st = "ok"]
    <2>1. x \in Piece /\ x.read = a.read
      BY <1>1 DEF Piece
    <2>2. /\ part' = [part EXCEPT ![u] = [part[u] EXCEPT ![i] = x]]
          /\ up' = [up EXCEPT ![u] = c]
          /\ a.st \in {"patch", "put"} /\ a.read = 1
          /\ UNCHANGED <<push, entry, stored, faults>>
      BY <1>5 DEF PartPut, Inv, TypeInv
    <2> HIDE DEF x
    <2>3. c.count = c.count + (x.read - a.read)
      BY <1>1, <2>1
    <2> QED BY <1>1, <2>1, <2>2, <2>3, PartStep
  <1>6. CASE PartFails(u, i)
    <2> DEFINE x == IF InnerDone(u) \/ a.tries + 1 = MaxRetries
                    THEN [a EXCEPT !.st = "failed", !.read = 0]
                    ELSE [a EXCEPT !.read = 0, !.tries = @ + 1]
               y == Rollback(u, i)
    <2>1. x \in Piece /\ x.st \in {a.st, "failed"} /\ x.read = 0
      <3>1. \/ x = [a EXCEPT !.st = "failed", !.read = 0]
            \/ x = [a EXCEPT !.read = 0, !.tries = @ + 1]
        OBVIOUS
      <3> DEFINE f == [a EXCEPT !.st = "failed"]
                 r == [a EXCEPT !.read = 0]
      <3>2. x = [f EXCEPT !.read = 0] \/ x = [r EXCEPT !.tries = @ + 1]
        BY <3>1
      <3>3. f \in Piece /\ f.st = "failed" /\ r \in Piece /\ r.st = a.st /\ r.read = 0
        BY <1>1 DEF Piece
      <3> HIDE DEF f, r, x
      <3>4. CASE x = [f EXCEPT !.read = 0]
        BY <3>3, <3>4 DEF Piece
      <3>5. CASE x = [r EXCEPT !.tries = @ + 1]
        BY <3>3, <3>5 DEF Piece
      <3> QED BY <3>2, <3>4, <3>5
    <2>2. /\ y \in Upload /\ y.pc = c.pc /\ y.done = c.done /\ y.err = c.err
          /\ y.count = c.count + (0 - a.read)
      BY <1>1 DEF Upload, Rollback
    <2>3. /\ part' = [part EXCEPT ![u] = [part[u] EXCEPT ![i] = x]]
          /\ up' = [up EXCEPT ![u] = y]
          /\ a.st \in {"patch", "put"}
          /\ UNCHANGED <<push, entry, stored>>
      BY <1>6 DEF PartFails
    <2>4. faults' \in Nat
      BY <1>1, <1>6 DEF PartFails, Fault
    <2> HIDE DEF x, y
    <2>5. x.st # "ok"
      BY <2>1, <2>3
    <2> QED BY <1>1, <2>1, <2>2, <2>3, <2>4, <2>5, PartStep
  <1> QED BY <1>2, <1>3, <1>4, <1>5, <1>6 DEF Part

----------------------------------------------------------------------------
(* Theorems.                                                               *)

LEMMA NextInv ==
  ASSUME Inv, [Next]_vars
  PROVE  Inv'
  <1>1. CASE UNCHANGED vars
    <2>1. TypeInv'
      BY <1>1 DEF Inv, TypeInv, vars
    <2>2. PartInv' /\ UpInv'
      BY <1>1, <2>1, CalmStep DEF vars
    <2>3. PushInv'
      BY <1>1 DEF Inv, PushInv, PushOwn, Untouched, Arrived, vars
    <2> QED BY <2>1, <2>2, <2>3 DEF Inv
  <1>2. ASSUME NEW p \in Pushes,
               Waiter(p) \/ HeadFails(p) \/ Prepares(p) \/ Leave(p) \/ Abandon(p)
        PROVE  Inv'
    BY <1>2, HeadInv, LoadOrStoreInv, PrepareInv, PrepareFailsInv, AcquireInv, LeaveInv, GetsInv
       DEF Waiter, Prepares
  <1>3. ASSUME NEW u \in Uploads, Run(u) \/ RunFails(u)
        PROVE  Inv'
    BY <1>3, RunStartInv, RunNextInv, RunWaitedInv, RunTakesInv, RunCommitsInv, CommitFailsInv
       DEF Run
  <1> QED BY <1>1, <1>2, <1>3, PartInvStep DEF Next

\* The inductive invariant holds of every behaviour: nobody works for an upload that its
\* push has not prepared, a part that is through has read its part, the count of an upload
\* is the sum of what its parts have read, and one that is done without an error has
\* given its repository the blob.
THEOREM Invariance == Spec => []Inv
  <1>1. Inv /\ [Next]_vars => Inv'
    BY NextInv
  <1> QED BY <1>1, InitInv, PTL DEF Spec

\* The progress that Wait reports is what has been sent: the count that the goroutines
\* of the parts keep for their upload, through retries and redirects, is the sum of what
\* their progress writers have read, and the size of the blob when the commit is made.
THEOREM ProgressIsExact == Spec => []ProgressExact
  <1>1. Inv => ProgressExact
    <2> SUFFICES ASSUME Inv, NEW u \in Uploads,
                        up[u].pc \in {"loop", "take", "commit"}, ~up[u].done
                 PROVE  /\ up[u].count = Total(Reads(u), Parts)
                        /\ up[u].pc = "commit" => up[u].count = NumParts
      BY DEF ProgressExact, Reads
    <2>1. up[u].count = Total(Reads(u), Parts)
      BY DEF Inv, UpInv, UpOwn
    <2>2. up[u].pc = "commit" => \A i \in Parts : part[u][i].read = 1
      BY DEF Inv, UpInv, UpOwn, PartInv, PartOwn
    <2> QED BY <2>1, <2>2, AllRead
  <1> QED BY <1>1, Invariance, PTL

\* A push goes on to its manifest only when its repository has the blob, or when it
\* joined the upload of another repository, whatever failed or was cancelled on the way.
THEOREM PushedBlobArrives == Spec => []BlobArrives
  <1>1. Inv => BlobArrives
    BY DEF Inv, PushInv, PushOwn, Arrived, BlobArrives
  <1> QED BY <1>1, Invariance, PTL

\* The variables keep to their sets.
THEOREM TypeCorrect == Spec => []TypeInv
  <1>1. Inv => TypeInv
    BY DEF Inv
  <1> QED BY <1>1, Invariance, PTL
=============================================================================
