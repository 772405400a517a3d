----------------------------- MODULE ModelStore -----------------------------
(***************************************************************************)
(* The model store: manifests by name, blobs by digest, and the handlers   *)
(* that change them (PullHandler, CreateHandler, CopyHandler and           *)
(* DeleteHandler of server/routes.go and server/create.go, with PullModel  *)
(* and CopyModel of server/images.go and the package manifest), the prune  *)
(* at the start of the server, and the cache behind ListHandler            *)
(* (server/model_list_cache.go).                                           *)
(*                                                                         *)
(* The files are the only thing that the handlers share: no lock is held   *)
(* over an operation.  An action is one access to the files or to the      *)
(* cache; how a blob is downloaded is the subject of BlobDownload.         *)
(***************************************************************************)
EXTENDS Integers, FiniteSets, Sequences, SequencesExt, Selection

CONSTANTS
    Names,      \* names of models
    Blobs,      \* digests
    Contents,   \* manifests: the digests of the layers, that of the config last
    Stores,     \* the manifests that the server may start with
    Writers,    \* requests that write the store at a time
    Absent,     \* no such file, no such entry
    Torn,       \* a manifest that does not decode: created or cut off, not yet written
    MaxOps,     \* bound: writing requests
    MaxLists,   \* bound: requests to list
    MaxCrashes, \* bound: crashes of the server
    MaxEvents   \* bound: all of these together

ASSUME ModelStoreAssumption ==
    /\ IsFiniteSet(Names) /\ IsFiniteSet(Blobs) /\ IsFiniteSet(Writers) /\ Absent \notin Writers
    /\ Contents \subseteq Seq(Blobs) \ {<<>>}
    /\ Stores \subseteq [Names -> Contents \cup {Absent}]
    /\ {Absent, Torn} \cap Contents = {} /\ Absent # Torn
    /\ {MaxOps, MaxLists, MaxCrashes, MaxEvents} \subseteq Nat

VARIABLES
    manifests,  \* [Names -> Absent, Torn or the content]
    blobs,      \* [Blobs -> "none", "good" or "bad" (its content is not what it is named for)]
    op,         \* the requests that write
    entries,    \* modelListCache.entries: the digest of the manifest, by name
    hydrated,   \* modelListCache.ready and hydrateErr
    scans,      \* what hydrate and a request to list have read
    count       \* requests and crashes so far

store == <<manifests, blobs>>
vars == <<manifests, blobs, op, entries, hydrated, scans, count>>

Readable(m)  == m \in Contents
BlobsOf(m)   == IF Readable(m) THEN ToSet(m) ELSE {}
Present      == {d \in Blobs : blobs[d] # "none"}
Referenced   == UNION {BlobsOf(manifests[n]) : n \in Names}

\* buildModelListSummary fails on a config that is not there or does not decode.
Builds(m) == Readable(m) /\ blobs[Last(m)] = "good"

\* A request that writes.  todo: blobs still to be looked at; hits: found in the
\* store by a pull; old: the blobs of the manifest that it replaces; del, toread:
\* blobs to be removed unless a manifest still to be read has them, and then what
\* to do next.  The last two are history: blobs in manifests written since its
\* listing of the manifests began, and blobs of its content that were not there, or
\* that others removed or replaced, when or since it found them.
NoOp == [at |-> "idle", kind |-> "none", name |-> Absent, src |-> Absent, content |-> Absent,
         todo |-> <<>>, hits |-> {}, old |-> {}, del |-> {}, toread |-> {}, then |-> "idle",
         missed |-> {}, lost |-> {}]

\* A reader of all manifests for the cache.  disturbed is history, kept for a list: the
\* names that a request has written, or whose blobs have changed, since it began.
NoScan == [at |-> "idle", toread |-> {}, seen |-> [n \in Names |-> Absent], updates |-> {},
           stale |-> {}, disturbed |-> {}]

Scanners == {"hydrate", "list"}

\* The server starts on a store that earlier runs left complete.
Init ==
    /\ manifests \in Stores
    /\ blobs = [d \in Blobs |-> IF d \in Referenced THEN "good" ELSE "none"]
    /\ op = [w \in Writers |-> NoOp]
    /\ entries = [n \in Names |-> Absent]
    /\ hydrated = "no"
    /\ scans = [s \in Scanners |-> IF s = "hydrate" THEN [NoScan EXCEPT !.at = "glob"] ELSE NoScan]
    /\ count = [ops |-> 0, lists |-> 0, crashes |-> 0]

----------------------------------------------------------------------------
(* Bookkeeping of the histories.                                           *)

Disturb(names) ==
    scans' = IF scans["list"].at = "idle" THEN scans
             ELSE [scans EXCEPT !["list"].disturbed = @ \cup names]

Users(d) == {n \in Names : d \in BlobsOf(manifests[n])}

\* The request goes on as next, having found the blobs in found; those in gone were
\* removed or replaced by this step, those in new are in a manifest that it wrote.
Goes(w, next, found, gone, new) ==
    op' = [v \in Writers |->
             IF v = w THEN [next EXCEPT !.lost = @ \ found]
             ELSE IF op[v].at = "idle" THEN op[v]
             ELSE [op[v] EXCEPT !.lost = @ \cup (gone \cap BlobsOf(op[v].content)),
                                !.missed = IF op[v].at \in {"read", "remove"} THEN @ \cup new ELSE @]]

Go(w, next) == Goes(w, next, {}, {}, {})

Within == count.ops + count.lists + count.crashes < MaxEvents

Begins(w, next) ==
    /\ op[w].at = "idle" /\ Within /\ count.ops < MaxOps
    /\ count' = [count EXCEPT !.ops = @ + 1]
    /\ Go(w, next)
    /\ Disturb({next.name})

----------------------------------------------------------------------------
(* PullModel.                                                              *)

\* The manifest in the store is read, then the one of the registry.
Pull(w, n, content) ==
    /\ Begins(w, [NoOp EXCEPT !.at = "stat", !.kind = "pull", !.name = n, !.content = content,
                              !.todo = content, !.old = BlobsOf(manifests[n])])
    /\ UNCHANGED <<manifests, blobs, entries, hydrated>>

\* The next layer, or the verification of those that were not found in the store.
NextLayer(o) ==
    IF Len(o.todo) > 1 THEN [o EXCEPT !.todo = Tail(o.todo), !.at = "stat"]
    ELSE [o EXCEPT !.todo = Without(o.content, o.hits), !.at = "verify"]

\* downloadBlob: a blob in the store is taken as it is.
PullStat(w) ==
    LET o == op[w]
        d == Head(o.todo)
    IN /\ o.at = "stat"
       /\ IF d \in Present THEN Goes(w, NextLayer([o EXCEPT !.hits = @ \cup {d}]), {d}, {}, {})
          ELSE Go(w, [o EXCEPT !.at = "fetch"])
       /\ UNCHANGED <<manifests, blobs, entries, hydrated, scans, count>>

\* The download ends: what arrives is what was asked for, or not.
PullFetch(w) ==
    LET o == op[w]
        d == Head(o.todo)
    IN /\ o.at = "fetch"
       /\ \E quality \in {"good", "bad"} : blobs' = [blobs EXCEPT ![d] = quality]
       /\ Goes(w, NextLayer([o EXCEPT !.hits = @ \ {d}]), {d}, {d}, {})
       /\ Disturb(Users(d))
       /\ UNCHANGED <<manifests, entries, hydrated, count>>

\* An error of the registry or of the disk, or a client that leaves: nobody takes the
\* next progress the goroutine reports, and it waits for ever where it is.
PullFails(w) ==
    /\ op[w].kind = "pull" /\ op[w].at \in {"stat", "fetch", "verify", "write", "glob", "refresh"}
    /\ Go(w, NoOp)
    /\ UNCHANGED <<manifests, blobs, entries, hydrated, scans, count>>

\* Mutant of PullVerify: a mismatch is reported and the pull goes on.
PullVerifyLax(w) ==
    LET o == op[w]
        d == Head(o.todo)
    IN /\ o.at = "verify"
       /\ IF o.todo = <<>> THEN Go(w, [o EXCEPT !.at = "write", !.old = @ \ BlobsOf(o.content)])
          ELSE IF blobs[d] = "none" THEN Go(w, NoOp)
          ELSE Go(w, [o EXCEPT !.todo = Tail(@)])
       /\ UNCHANGED <<manifests, blobs, entries, hydrated, scans, count>>

\* verifyBlob of one layer: a mismatch removes the blob, any error ends the pull.
PullVerify(w) ==
    LET o == op[w]
        d == Head(o.todo)
    IN /\ o.at = "verify"
       /\ IF o.todo = <<>>
          THEN /\ Go(w, [o EXCEPT !.at = "write", !.old = @ \ BlobsOf(o.content)])
               /\ UNCHANGED <<blobs, scans>>
          ELSE IF blobs[d] = "good" THEN Go(w, [o EXCEPT !.todo = Tail(@)]) /\ UNCHANGED <<blobs, scans>>
          ELSE /\ blobs' = [blobs EXCEPT ![d] = "none"]
               /\ Goes(w, NoOp, {}, {d}, {})
               /\ Disturb(Users(d))
       /\ UNCHANGED <<manifests, entries, hydrated, count>>

----------------------------------------------------------------------------
(* CreateHandler, for a model made from another one in the store.          *)

Create(w, n, src, content) ==
    /\ Begins(w, [NoOp EXCEPT !.at = "from", !.kind = "create", !.name = n, !.src = src,
                              !.content = content, !.old = BlobsOf(manifests[n])])
    /\ UNCHANGED <<manifests, blobs, entries, hydrated>>

\* parseFromModel: the layers of the source must be in the store.  Those that the
\* request replaces are removed (removeLayer), those that it adds are made, and so
\* is its config, always.  When the source cannot be read the handler reports it and goes
\* on without its layers ("adrift").  A source that is not there is pulled first: a
\* pull that succeeds is a Pull before the Create, one that fails is this case.
CreateFrom(w) ==
    LET o      == op[w]
        layers == IF Readable(manifests[o.src]) THEN Front(manifests[o.src]) ELSE <<>>
        kept   == ToSet(layers) \cap BlobsOf(o.content)
        drop   == ToSet(layers) \ kept
        made   == [o EXCEPT !.todo = Append(Without(Front(o.content), kept), Last(o.content))]
    IN /\ o.at = "from"
       /\ IF Readable(manifests[o.src]) /\ ToSet(layers) \subseteq Present
          THEN Goes(w, [made EXCEPT !.at = IF drop = {} THEN "make" ELSE "glob",
                                    !.src = Absent, !.del = drop, !.then = "make"], kept, {}, {})
          ELSE Go(w, [NoOp EXCEPT !.at = "make", !.kind = "adrift", !.name = o.name,
                                    !.todo = made.todo])
       /\ UNCHANGED <<manifests, blobs, entries, hydrated, scans, count>>

\* NewLayer: a blob in the store is taken as it is.  A request that is adrift waits
\* for ever, after the last, for a client that was answered long ago.
CreateLayer(w) ==
    LET o == op[w]
        d == Head(o.todo)
    IN /\ o.at = "make"
       /\ blobs' = [blobs EXCEPT ![d] = IF d \in Present THEN @ ELSE "good"]
       /\ Goes(w, IF Len(o.todo) = 1 /\ o.kind = "adrift" THEN NoOp
                  ELSE [o EXCEPT !.todo = Tail(@),
                                 !.at = IF Len(o.todo) > 1 THEN "make" ELSE "write"],
               {d}, {}, {})
       /\ IF d \in Present THEN UNCHANGED scans ELSE Disturb(Users(d))
       /\ UNCHANGED <<manifests, entries, hydrated, count>>

\* A bad template, a wrong parameter, a failed quantization, a client that leaves.
CreateFails(w) ==
    /\ op[w].at = "make" \/ (op[w].kind = "create" /\ op[w].at = "write")
    /\ Go(w, NoOp)
    /\ UNCHANGED <<manifests, blobs, entries, hydrated, scans, count>>

----------------------------------------------------------------------------
(* CopyModel.                                                              *)

\* The source is opened, whatever it holds; the destination is then created.
Copy(w, src, dst) ==
    /\ src # dst /\ manifests[src] # Absent
    /\ Begins(w, [NoOp EXCEPT !.at = "write", !.kind = "copy", !.name = dst, !.src = src,
                              !.content = manifests[src],
                              !.lost = BlobsOf(manifests[src]) \ Present])
    /\ UNCHANGED <<manifests, blobs, entries, hydrated>>

----------------------------------------------------------------------------
(* The manifest is created or cut off (os.Create, os.WriteFile), then      *)
(* written.                                                                *)

Truncate(w) ==
    /\ op[w].at = "write"
    /\ manifests' = [manifests EXCEPT ![op[w].name] = Torn]
    /\ Go(w, [op[w] EXCEPT !.at = "encode"])
    /\ UNCHANGED <<blobs, entries, hydrated, scans, count>>

\* A copy takes what its source, which it has open, holds now.
Written(o) == IF o.kind = "copy" THEN {o.content, manifests[o.src]} \ {Absent} ELSE {o.content}

\* Blobs of the replaced manifest are removed next, if there was one.
Encode(w) ==
    LET o == op[w]
    IN /\ o.at = "encode"
       /\ \E m \in Written(o) :
            /\ manifests' = [manifests EXCEPT ![o.name] = m]
            /\ Goes(w, [NoOp EXCEPT !.at = IF o.old = {} THEN "refresh" ELSE "glob",
                                    !.kind = IF o.kind = "pull" THEN "pull" ELSE "none",
                                    !.name = o.name, !.del = o.old, !.then = "refresh"],
                    {}, {}, BlobsOf(m))
       /\ UNCHANGED <<blobs, entries, hydrated, scans, count>>

----------------------------------------------------------------------------
(* DeleteHandler.  A name without a manifest, or with a torn one, ends it. *)

Delete(w, n) ==
    /\ Readable(manifests[n])
    /\ Begins(w, [NoOp EXCEPT !.at = "unlink", !.kind = "delete", !.name = n,
                              !.old = BlobsOf(manifests[n])])
    /\ UNCHANGED <<manifests, blobs, entries, hydrated>>

Others(w) == {v \in Writers \ {w} : op[v].at # "idle"}

\* Manifest.Remove: PruneDirectory, which follows, may fail on what another request
\* does in the directory, and the handler gives up.
Unlink(w) ==
    /\ op[w].at = "unlink"
    /\ manifests' = [manifests EXCEPT ![op[w].name] = Absent]
    /\ \/ manifests[op[w].name] # Absent /\ Go(w, [op[w] EXCEPT !.at = "forget"])
       \/ (manifests[op[w].name] = Absent \/ Others(w) # {}) /\ Go(w, NoOp)
    /\ UNCHANGED <<blobs, entries, hydrated, scans, count>>

\* deleteModelListCache, then RemoveLayers.
Forget(w) ==
    /\ op[w].at = "forget"
    /\ entries' = [entries EXCEPT ![op[w].name] = Absent]
    /\ Go(w, [NoOp EXCEPT !.at = "glob", !.name = op[w].name, !.del = op[w].old])
    /\ UNCHANGED <<manifests, blobs, hydrated, scans, count>>

----------------------------------------------------------------------------
(* RemoveLayers, deleteUnusedLayers and Layer.Remove: all manifests are    *)
(* read, then the blobs that none of them has are removed.                 *)

Glob(w) ==
    /\ op[w].at = "glob"
    /\ Go(w, [op[w] EXCEPT !.at = "read", !.missed = {},
                           !.toread = {n \in Names : manifests[n] # Absent}])
    /\ UNCHANGED <<manifests, blobs, entries, hydrated, scans, count>>

\* What follows the removals.
Then(o) == CASE o.then = "idle"    -> NoOp
             [] o.then = "refresh" -> [NoOp EXCEPT !.at = "refresh", !.kind = o.kind, !.name = o.name]
             [] o.then = "make"    -> [o EXCEPT !.at = "make", !.del = {}, !.toread = {},
                                                !.missed = {}]

\* Mutant of Read: the manifest of the request's own name is not looked at.
ReadOthers(w) ==
    LET o == op[w]
    IN /\ o.at = "read"
       /\ IF o.toread \ {o.name} = {}
          THEN Go(w, IF o.del = {} THEN Then(o) ELSE [o EXCEPT !.at = "remove"])
          ELSE \E n \in o.toread \ {o.name} :
                 \/ Go(w, [o EXCEPT !.toread = @ \ {n}, !.del = @ \ BlobsOf(manifests[n])])
                 \/ manifests[n] = Absent /\ Go(w, Then(o))
       /\ UNCHANGED <<manifests, blobs, entries, hydrated, scans, count>>

\* A manifest that is torn is passed over.  One that has gone since the listing of
\* the directory is passed over or ends the removal, if it goes before it is stat'ed.
Read(w) ==
    LET o == op[w]
    IN /\ o.at = "read"
       /\ IF o.toread = {} THEN Go(w, IF o.del = {} THEN Then(o) ELSE [o EXCEPT !.at = "remove"])
          ELSE \E n \in o.toread :
                 \/ Go(w, [o EXCEPT !.toread = @ \ {n}, !.del = @ \ BlobsOf(manifests[n])])
                 \/ manifests[n] = Absent /\ Go(w, Then(o))
       /\ UNCHANGED <<manifests, blobs, entries, hydrated, scans, count>>

RemoveBlob(w) ==
    LET o == op[w]
    IN /\ o.at = "remove"
       /\ \E d \in o.del :
            /\ blobs' = [blobs EXCEPT ![d] = "none"]
            /\ Goes(w, IF o.del = {d} THEN Then(o) ELSE [o EXCEPT !.del = @ \ {d}], {}, {d}, {})
            /\ Disturb(Users(d))
       /\ UNCHANGED <<manifests, entries, hydrated, count>>

----------------------------------------------------------------------------
(* refreshModelListCache.                                                  *)

\* Mutant of RefreshReads: whatever is there becomes the entry.
RefreshTakes(w) ==
    /\ op[w].at = "refresh"
    /\ Go(w, [op[w] EXCEPT !.at = "set", !.content = manifests[op[w].name]])
    /\ UNCHANGED <<manifests, blobs, entries, hydrated, scans, count>>

RefreshReads(w) ==
    LET m == manifests[op[w].name]
    IN /\ op[w].at = "refresh"
       /\ Go(w, [op[w] EXCEPT !.at = "set", !.content = IF Builds(m) THEN m ELSE Absent])
       /\ UNCHANGED <<manifests, blobs, entries, hydrated, scans, count>>

RefreshSets(w) ==
    /\ op[w].at = "set"
    /\ entries' = [entries EXCEPT ![op[w].name] = op[w].content]
    /\ Go(w, NoOp)
    /\ UNCHANGED <<manifests, blobs, hydrated, scans, count>>

----------------------------------------------------------------------------
(* The list cache.  hydrate reads the manifests when the server starts.    *)

Scans(s, next) == scans' = [scans EXCEPT ![s] = next]

ScanGlob(s) ==
    /\ scans[s].at = "glob"
    /\ Scans(s, [scans[s] EXCEPT !.at = "read", !.toread = {n \in Names : manifests[n] # Absent}])
    /\ UNCHANGED <<manifests, blobs, op, entries, hydrated, count>>

ScanRead(s) ==
    LET c == scans[s]
    IN /\ c.at = "read" /\ c.toread # {}
       /\ \E n \in c.toread :
            Scans(s, [c EXCEPT !.toread = @ \ {n},
                               !.seen[n] = IF Readable(manifests[n]) THEN manifests[n] ELSE Absent])
       /\ UNCHANGED <<manifests, blobs, op, entries, hydrated, count>>

\* A manifest has gone between the listing of the directory and its stat.
ScanFails(s) ==
    LET c == scans[s]
    IN /\ c.at = "read" /\ \E n \in c.toread : manifests[n] = Absent
       /\ Scans(s, NoScan)
       /\ hydrated' = IF s = "hydrate" THEN "failed" ELSE hydrated
       /\ UNCHANGED <<manifests, blobs, op, entries, count>>

\* hydrate sets one entry after the other, and then lets the lists go.
HydrateSets ==
    LET c == scans["hydrate"]
        pending == {n \in Names : c.seen[n] # Absent}
    IN /\ c.at = "read" /\ c.toread = {}
       /\ IF pending = {} THEN Scans("hydrate", NoScan) /\ hydrated' = "yes" /\ UNCHANGED entries
          ELSE \E n \in pending :
                 /\ entries' = IF Builds(c.seen[n]) THEN [entries EXCEPT ![n] = c.seen[n]] ELSE entries
                 /\ Scans("hydrate", [c EXCEPT !.seen[n] = Absent])
                 /\ UNCHANGED hydrated
       /\ UNCHANGED <<manifests, blobs, op, count>>

\* A request to list, once the cache is hydrated.
List ==
    /\ scans["list"].at = "idle" /\ hydrated = "yes" /\ Within /\ count.lists < MaxLists
    /\ count' = [count EXCEPT !.lists = @ + 1]
    /\ Scans("list", [NoScan EXCEPT !.at = "glob",
                                    !.disturbed = {op[w].name : w \in Others(Absent)}])
    /\ UNCHANGED <<manifests, blobs, op, entries, hydrated>>

\* syncManifests: what is out of date is found first ...
SyncPlans ==
    LET c == scans["list"]
        differ == {n \in Names : c.seen[n] # Absent /\ c.seen[n] # entries[n]}
    IN /\ c.at = "read" /\ c.toread = {}
       /\ Scans("list", [c EXCEPT !.at = "apply",
                                  !.updates = {n \in differ : Builds(c.seen[n])},
                                  !.stale = {n \in differ : ~Builds(c.seen[n]) /\ entries[n] # Absent}])
       /\ UNCHANGED <<manifests, blobs, op, entries, hydrated, count>>

\* Mutant of SyncApplies: entries of names no longer seen stay.
SyncAppliesUpdates ==
    LET c == scans["list"]
    IN /\ c.at = "apply"
       /\ entries' = [n \in Names |-> IF n \in c.updates THEN c.seen[n] ELSE entries[n]]
       /\ Scans("list", [NoScan EXCEPT !.at = "answer", !.disturbed = c.disturbed])
       /\ UNCHANGED <<manifests, blobs, op, hydrated, count>>

\* ... and changed later, under the lock.
SyncApplies ==
    LET c == scans["list"]
    IN /\ c.at = "apply"
       /\ entries' = [n \in Names |-> IF n \in c.updates THEN c.seen[n]
                                      ELSE IF c.seen[n] = Absent \/ n \in c.stale THEN Absent
                                      ELSE entries[n]]
       /\ Scans("list", [NoScan EXCEPT !.at = "answer", !.disturbed = c.disturbed])
       /\ UNCHANGED <<manifests, blobs, op, hydrated, count>>

\* The answer is what the cache holds at this step.
ListAnswers ==
    /\ scans["list"].at = "answer"
    /\ Scans("list", NoScan)
    /\ UNCHANGED <<manifests, blobs, op, entries, hydrated, count>>

----------------------------------------------------------------------------
(* A crash, and the start that follows: unless a manifest is torn, blobs   *)
(* that none refers to are removed, those younger than an hour excepted.   *)

Prunable == IF \E n \in Names : manifests[n] = Torn THEN {} ELSE Present \ Referenced

Restart ==
    /\ Within /\ count.crashes < MaxCrashes
    /\ \E gone \in SUBSET Prunable :
         blobs' = [d \in Blobs |-> IF d \in gone THEN "none" ELSE blobs[d]]
    /\ op' = [w \in Writers |-> NoOp]
    /\ entries' = [n \in Names |-> Absent]
    /\ hydrated' = "no"
    /\ scans' = [s \in Scanners |-> IF s = "hydrate" THEN [NoScan EXCEPT !.at = "glob"] ELSE NoScan]
    /\ count' = [count EXCEPT !.crashes = @ + 1]
    /\ UNCHANGED manifests

Finished ==
    /\ Others(Absent) = {} /\ \A s \in Scanners : scans[s].at = "idle"
    /\ UNCHANGED vars

Begin(w) ==
    \/ \E n \in Names, content \in Contents : Pull(w, n, content)
    \/ \E n, src \in Names, content \in Contents : Create(w, n, src, content)
    \/ \E n, src \in Names : Copy(w, src, n)
    \/ \E n \in Names : Delete(w, n)

Step(w) ==
    \/ PullStat(w) \/ PullFetch(w) \/ PullFails(w) \/ PullVerify(w)
    \/ CreateFrom(w) \/ CreateLayer(w) \/ CreateFails(w)
    \/ Truncate(w) \/ Encode(w)
    \/ Unlink(w) \/ Forget(w)
    \/ Glob(w) \/ Read(w) \/ RemoveBlob(w)
    \/ RefreshReads(w) \/ RefreshSets(w)

Cache ==
    \/ \E s \in Scanners : ScanGlob(s) \/ ScanRead(s) \/ ScanFails(s)
    \/ HydrateSets \/ List \/ SyncPlans \/ SyncApplies \/ ListAnswers

Next ==
    \/ \E w \in Writers : Begin(w) \/ Step(w)
    \/ Cache
    \/ Restart
    \/ Finished

Spec == Init /\ [][Next]_vars

----------------------------------------------------------------------------
(* Properties.                                                             *)

\* The fields have their types.
TypeOK ==
    /\ manifests \in [Names -> Contents \cup {Absent, Torn}]
    /\ blobs \in [Blobs -> {"none", "good", "bad"}]
    /\ entries \in [Names -> Contents \cup {Absent}]
    /\ hydrated \in {"no", "yes", "failed"}
    /\ \A w \in Writers : /\ ToSet(op[w].todo) \subseteq Blobs
                          /\ op[w].old \cup op[w].del \cup op[w].hits \subseteq Blobs
    /\ \A s \in Scanners : scans[s].disturbed \subseteq Names

\* Every blob of every manifest that decodes is in the store.
Complete == Referenced \subseteq Present

\* The step of a request removes a blob that a manifest written since its listing of
\* the manifests has, or a bad one that another request has put into a manifest.
RemovesMissed == \E w \in Writers : op'[w] # op[w] /\ \E d \in op[w].missed : blobs'[d] # blobs[d]
RemovesBad    == \E d \in Blobs : blobs[d] = "bad" /\ blobs'[d] = "none"

\* The step writes a manifest with blobs that another request has removed since this
\* one found them, or copies a manifest that had lost blobs before.
PublishesLost == \E w \in Writers : op[w].at = "encode" /\ op'[w] # op[w] /\ op[w].lost # {}

\* No request, no start after a crash and no combination of two requests takes a blob
\* away from a model that can be read, but in the three races named above: with one
\* writing request at a time a model in the store stays whole.
KeepsBlobs ==
    [][Complete => Complete' \/ RemovesMissed \/ RemovesBad \/ PublishesLost]_vars

\* A pull that writes its manifest has verified every blob that it fetched, so that a
\* bad one gets into a model only as a blob found in the store (or put there meanwhile).
FetchedIsVerified ==
    [][\A w \in Writers :
         LET o == op[w]
         IN o.kind = "pull" /\ o.at = "encode" /\ op'[w].at \in {"glob", "refresh"} =>
              \A d \in BlobsOf(o.content) \ (o.hits \cup o.lost) : blobs[d] = "good"]_vars

\* What a list may answer is right for every name that no request has worked on since
\* it began, whatever hydrate, refreshes and removals of entries have left in the
\* cache: a model with its config is in it, with the digest of its manifest, and a
\* name without a manifest, or with a torn one, is not.
ListExact ==
    LET c == scans["list"]
    IN c.at = "answer" =>
         \A n \in Names \ c.disturbed :
           /\ Builds(manifests[n]) => entries[n] = manifests[n]
           /\ ~Readable(manifests[n]) => entries[n] = Absent
=============================================================================
