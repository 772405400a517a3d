---------------------------- MODULE PrefixCache ----------------------------
(***************************************************************************)
(* The prefix cache of the MLX runner: prefix_cache.go and cache_trie.go   *)
(* of x/mlxrunner, the caches it drives (KVCache and RecurrentCache of     *)
(* x/mlxrunner/cache) and the pipeline that drives it (pipeline.go).       *)
(*                                                                         *)
(* One goroutine runs one request after the other, so an action is a stage *)
(* of a request: begin, a chunk of the prompt, one snapshot attached, a    *)
(* token generated, close.  A request may be cancelled between any two.    *)
(*                                                                         *)
(* What a cache holds for a position is determined by the tokens up to it. *)
(* A slot of the KV cache and the state of the recurrent cache are         *)
(* therefore represented by the tokens they were computed from, which is   *)
(* what a wrong restore would get wrong.                                   *)
(***************************************************************************)
EXTENDS Integers, FiniteSets, FiniteSetsExt, Sequences, SequencesExt, Sums

CONSTANTS
    Tokens,       \* the vocabulary
    None,         \* Go's nil
    Layers,       \* kinds of the caches, in the order of c.caches
    MaxInput,     \* bound: length of a prompt
    MaxOutput,    \* NumPredict
    MaxRequests,  \* bound: requests
    ChunkSize,    \* prefillChunkSize
    Interval,     \* snapshotInterval
    PreThinking,  \* preThinking
    MaxPaged      \* maxPagedOutBytes

ASSUME PrefixCacheAssumption ==
    /\ IsFiniteSet(Tokens) /\ Tokens # {} /\ None \notin Tokens \cup Nat
    /\ Layers \in {<<"kv">>, <<"rec">>, <<"kv", "rec">>, <<"rec", "kv">>}
    /\ {MaxInput, MaxOutput, MaxRequests, ChunkSize, Interval, PreThinking} \subseteq Nat \ {0}
    /\ MaxPaged \in Nat

\* Go's nil is none of the snapshots of the KV cache.
ASSUME NilAssumption ==
    None \notin [from : Nat, to : Nat, lazy : BOOLEAN, data : Seq(Seq(Tokens))]

VARIABLES
    cache,      \* prefixCache: the trie, the active path, the live caches
    session,    \* cacheSession and the pipeline around it
    enforcing,  \* enforceEvictionPolicy is at work
    requests    \* requests begun

vars == <<cache, session, enforcing, requests>>

Root == 0

\* Nothing paged out, by layer.
NoSnapshots == [kv |-> None, rec |-> None]

NewNode(tokens, end, parent) ==
    [tokens |-> tokens, end |-> end, parent |-> parent, user |-> FALSE, kv |-> None, rec |-> None]

Init ==
    /\ cache = [trie  |-> [n \in {Root} |-> NewNode(<<>>, 0, None)],
                path  |-> <<Root>>,
                kv    |-> [buf |-> <<>>, off |-> 0, rewound |-> FALSE],
                rec   |-> <<>>,
                paged |-> 0,
                rows  |-> <<>>,   \* pendingSnapshots of the caches, by scheduled offset,
                base  |-> 0]      \* and the offset at which they were scheduled
    /\ session = [phase |-> "idle", inputs |-> <<>>, outputs |-> <<>>, pending |-> <<>>,
                  sample |-> None]
    /\ enforcing = FALSE
    /\ requests = 0

Kinds == ToSet(Layers)

\* A step for each of the caches, in their order.
EachLayer(Step(_, _), x) ==
    IF Len(Layers) = 1 THEN Step(x, Layers[1]) ELSE Step(Step(x, Layers[1]), Layers[2])

Offset(c, l)  == IF l = "kv" THEN c.kv.off ELSE Len(c.rec)
MinOffset(c)  == Min({Offset(c, l) : l \in Kinds})
Start(x)      == x.end - Len(x.tokens)
Children(t, n) == {m \in DOMAIN t : t[m].parent = n}
Held(x, l) == IF l = "kv" THEN x.kv ELSE x.rec
HasSnapshots(x)    == \E l \in Kinds : Held(x, l) # None
HasAllSnapshots(x) == \A l \in Kinds : Held(x, l) # None

\* A lazy snapshot of the KV cache refers to the live buffer and owns nothing.
Lazy(from, to)        == [from |-> from, to |-> to, lazy |-> TRUE, data |-> <<>>]
Owned(from, to, data) == [from |-> from, to |-> to, lazy |-> FALSE, data |-> data]

KVBytes(s)  == IF s = None THEN 0 ELSE Len(s.data)
Bytes(x)    == KVBytes(x.kv) + (IF x.rec = None THEN 0 ELSE 1)

\* Mutant of SetSnapshots: what the new snapshots own is not added.
SetSnapshotsUnadded(c, n, s) ==
    [c EXCEPT !.trie[n].kv = s.kv, !.trie[n].rec = s.rec, !.paged = c.paged - Bytes(c.trie[n])]

\* setSnapshots and swapSnapshots, with the counter of the bytes.
SetSnapshots(c, n, s) ==
    [c EXCEPT !.trie[n].kv = s.kv, !.trie[n].rec = s.rec,
              !.paged = c.paged - Bytes(c.trie[n]) + Bytes(s)]

----------------------------------------------------------------------------
(* The KV cache.  Its buffer is append-only but for rewinds.               *)

CopyOf(c, s) == Owned(s.from, s.to, SubSeq(c.kv.buf, s.from + 1, s.to))

\* Mutants of CopyOut: only the snapshots inside the range; without the hook.
CopyOutInside(c, from, to) ==
    LET Out(s) == IF s # None /\ s.lazy /\ s.from >= from /\ s.to <= to THEN CopyOf(c, s) ELSE s
        grown == [n \in DOMAIN c.trie |-> KVBytes(Out(c.trie[n].kv)) - KVBytes(c.trie[n].kv)]
    IN [c EXCEPT !.trie  = [n \in DOMAIN c.trie |-> [c.trie[n] EXCEPT !.kv = Out(c.trie[n].kv)]],
                 !.paged = c.paged + Total(grown, DOMAIN c.trie)]
CopyOutUncounted(c, from, to) ==
    LET Out(s) == IF s # None /\ s.lazy /\ s.from < to /\ s.to > from THEN CopyOf(c, s) ELSE s
    IN [c EXCEPT !.trie = [n \in DOMAIN c.trie |-> [c.trie[n] EXCEPT !.kv = Out(c.trie[n].kv)]]]

\* copyOut of the lazy snapshots in the trie that overlap [from, to).  The hook
\* counts their bytes.  (No capture of a session is there yet when it is called.)
CopyOut(c, from, to) ==
    LET Out(s) == IF s # None /\ s.lazy /\ s.from < to /\ s.to > from THEN CopyOf(c, s) ELSE s
        grown == [n \in DOMAIN c.trie |-> KVBytes(Out(c.trie[n].kv)) - KVBytes(c.trie[n].kv)]
    IN [c EXCEPT !.trie  = [n \in DOMAIN c.trie |-> [c.trie[n] EXCEPT !.kv = Out(c.trie[n].kv)]],
                 !.paged = c.paged + Total(grown, DOMAIN c.trie)]

\* appendKV: only the first write after a rewind looks for snapshots in its way.
AppendKV(c, data) ==
    LET prev == c.kv.off
        end  == prev + Len(data)
    IN [(IF c.kv.rewound THEN CopyOut(c, prev, end) ELSE c) EXCEPT
          !.kv = [buf     |-> SubSeq(c.kv.buf, 1, prev) \o data
                                \o SubSeq(c.kv.buf, end + 1, Len(c.kv.buf)),
                  off     |-> end,
                  rewound |-> FALSE]]

RewoundTo(c, target) == [c EXCEPT !.kv.off = target, !.kv.rewound = TRUE]

\* A result of Restore: the cache, and whether the target was reached.
Failed(c) == [ok |-> FALSE, cache |-> c]
Done(c)   == [ok |-> TRUE, cache |-> c]

RestoreKV(c, s, target) ==
    IF s = None
    THEN IF target > c.kv.off THEN Failed(c) ELSE Done(RewoundTo(c, target))
    ELSE IF target > s.to \/ c.kv.off < s.from THEN Failed(c)
    ELSE IF s.lazy THEN Done(RewoundTo(c, target))
    ELSE LET fed == AppendKV(RewoundTo(c, s.from), s.data)
         IN Done([fed EXCEPT !.kv.off = Min({target, fed.kv.off})])

FreeKV(c) == [CopyOut(c, 0, Len(c.kv.buf)) EXCEPT
                !.kv = [buf |-> <<>>, off |-> 0, rewound |-> FALSE]]

\* Snapshot: None if the range is empty.
SnapshotKV(c, from, to) == IF to <= from THEN None ELSE Lazy(from, to)

MergeKV(c, p, ch) ==
    IF p = None \/ ch = None THEN None
    ELSE IF p.lazy /\ ch.lazy /\ p.to = ch.from THEN Lazy(p.from, ch.to)
    ELSE LET Data(s) == IF s.lazy THEN CopyOf(c, s).data ELSE s.data
         IN Owned(p.from, ch.to, Data(p) \o Data(ch))

\* A slice of an array ends where the array does, whatever end is asked for.
Slice(data, from, to) == SubSeq(data, from + 1, Min({to, Len(data)}))

\* Split, into the parts before and after an offset.
SplitKV(s, at) ==
    IF s = None \/ at <= s.from THEN <<None, s>>
    ELSE IF at >= s.to THEN <<s, None>>
    ELSE IF s.lazy THEN <<Lazy(s.from, at), Lazy(at, s.to)>>
    ELSE <<Owned(s.from, at, Slice(s.data, 0, at - s.from)),
           Owned(at, s.to, Slice(s.data, at - s.from, s.to - s.from))>>

----------------------------------------------------------------------------
(* The recurrent cache: one state for all tokens so far.  A snapshot of it *)
(* is the state; it can be neither rewound nor split.                      *)

SnapshotRec(c) == IF c.rec = <<>> THEN None ELSE c.rec

RestoreRec(c, s, target) ==
    IF s = None
    THEN IF target = Len(c.rec) THEN Done(c) ELSE Failed(c)
    ELSE IF target = Len(s) THEN Done([c EXCEPT !.rec = s]) ELSE Failed(c)

Restore(c, l, s, target) == IF l = "kv" THEN RestoreKV(c, s, target) ELSE RestoreRec(c, s, target)
Free(c, l) == IF l = "kv" THEN FreeKV(c) ELSE [c EXCEPT !.rec = <<>>]
FreeAll(c) == [FreeKV(c) EXCEPT !.rec = <<>>]

----------------------------------------------------------------------------
(* The trie.                                                               *)

\* The number of tokens that two sequences have in common at the start.
Common(a, b) == Max({0} \cup {i \in 1 .. Min({Len(a), Len(b)}) :
                                 SubSeq(a, 1, i) = SubSeq(b, 1, i)})

\* A turn of findBestMatch's loop: on to the child that matches the keys left best.
Descend(t, keys, walk) ==
    LET left      == SubSeq(keys, walk.matched + 1, Len(keys))
        next      == {m \in Children(t, Last(walk.path)) : Common(t[m].tokens, left) > 0}
        Full(m)   == Common(t[m].tokens, left) = Len(t[m].tokens)
        Better(m, o) == \/ Full(m) /\ ~Full(o)
                        \/ Full(m) = Full(o) /\ Common(t[m].tokens, left) > Common(t[o].tokens, left)
        best      == CHOOSE m \in next : \A o \in next : ~Better(o, m)
    IN IF walk.over \/ next = {} THEN [walk EXCEPT !.over = TRUE]
       ELSE [path    |-> Append(walk.path, best),
             matched |-> walk.matched + Common(t[best].tokens, left),
             over    |-> ~Full(best)]

\* findBestMatch: the nodes walked from n and the number of keys matched.  A turn
\* matches a key at least, or ends the walk.
FindBestMatch(t, n, keys) ==
    LET walk[i \in 0 .. Len(keys)] ==
          IF i = 0 THEN [path |-> <<n>>, matched |-> 0, over |-> FALSE]
          ELSE Descend(t, keys, walk[i - 1])
    IN walk[Len(keys)]

Fresh(t) == Min((1 .. Cardinality(DOMAIN t)) \ DOMAIN t)

AddNode(c, n, x) == [c EXCEPT !.trie = [m \in DOMAIN c.trie \cup {n} |->
                                          IF m = n THEN x ELSE c.trie[m]]]

\* splitNode: a new parent, in Fresh(c.trie), takes the first tokens of the edge.
SplitNode(c, n, at) ==
    LET x == c.trie[n]
        end == Start(x) + at
        kv  == SplitKV(x.kv, end)
        bare == SetSnapshots(c, n, NoSnapshots)
        new  == Fresh(c.trie)
        cut  == [AddNode(bare, new, NewNode(SubSeq(x.tokens, 1, at), end, x.parent)) EXCEPT
                   !.trie[n].tokens = SubSeq(x.tokens, at + 1, Len(x.tokens)),
                   !.trie[n].parent = new]
    IN SetSnapshots(SetSnapshots(cut, new, [kv |-> kv[1], rec |-> None]),
                    n, [kv |-> kv[2], rec |-> x.rec])

\* removeNode of a leaf, and mergeWithChild of an inner node that has one.
RemoveNode(c, n) ==
    [SetSnapshots(c, n, NoSnapshots) EXCEPT
       !.trie = [m \in DOMAIN c.trie \ {n} |-> c.trie[m]]]

MergeWithChild(c, n) ==
    LET ch == CHOOSE m \in Children(c.trie, n) : TRUE
        x  == c.trie[n]
        y  == c.trie[ch]
        merged == [kv  |-> MergeKV(c, x.kv, y.kv), rec |-> y.rec]
        bare == SetSnapshots(SetSnapshots(c, n, NoSnapshots), ch, NoSnapshots)
        Adopted(m) == IF bare.trie[m].parent = ch THEN [bare.trie[m] EXCEPT !.parent = n]
                      ELSE bare.trie[m]
        joined == [bare EXCEPT !.trie = [m \in DOMAIN c.trie \ {ch} |->
                     IF m = n THEN [bare.trie[n] EXCEPT !.tokens = x.tokens \o y.tokens,
                                                        !.end = y.end, !.user = y.user]
                     ELSE Adopted(m)]]
    IN SetSnapshots(joined, n, merged)

\* Mutant of MatchedInPart: an edge whose last token alone differs is not split.
MatchedInPartButOne(x, inEdge) == inEdge > 0 /\ inEdge + 1 < Len(x.tokens)

\* Whether an edge is matched in part, so that it must be split.
MatchedInPart(x, inEdge) == inEdge > 0 /\ inEdge < Len(x.tokens)

\* The tokens left go to a new node, or make a leaf without snapshots longer.
Grow(c, dest, rest, end) ==
    IF dest = Root \/ Children(c.trie, dest) # {} \/ HasSnapshots(c.trie[dest])
    THEN [AddNode(c, Fresh(c.trie), NewNode(rest, end, dest)) EXCEPT
            !.path = Append(c.path, Fresh(c.trie))]
    ELSE [c EXCEPT !.trie[dest].tokens = @ \o rest, !.trie[dest].end = end]

\* appendTokens at the node reached; a leaf that no user asked for loses its
\* snapshots first.
Extend(c, dest, rest, end) ==
    IF rest = <<>> THEN c
    ELSE Grow(IF Children(c.trie, dest) = {} /\ ~c.trie[dest].user
              THEN SetSnapshots(c, dest, NoSnapshots) ELSE c, dest, rest, end)

\* The path follows the nodes walked, the last of them replaced by dest.
Walk(c, walked, dest) ==
    [c EXCEPT !.path = @ \o (IF Len(walked) = 1 THEN <<>> ELSE Front(Tail(walked)) \o <<dest>>)]

\* advancePath: along the children that match, splitting the last one if its edge
\* matches in part, then the tokens that none of them has.
Advance(c, found, tokens, end) ==
    LET hit    == Last(found.path)
        inEdge == c.trie[Last(c.path)].end + found.matched - Start(c.trie[hit])
        rest   == SubSeq(tokens, found.matched + 1, Len(tokens))
        new    == Fresh(c.trie)
    IN IF Len(found.path) > 1 /\ MatchedInPart(c.trie[hit], inEdge)
       THEN Extend(Walk(SplitNode(c, hit, inEdge), found.path, new), new, rest, end)
       ELSE Extend(Walk(c, found.path, hit), hit, rest, end)

AdvancePath(c, tokens, end) ==
    Advance(c, FindBestMatch(c.trie, Last(c.path), tokens), tokens, end)

----------------------------------------------------------------------------
(* switchToPath.                                                           *)

\* The leaf of the old path is paged out if the new one leaves it or ends inside.
PageOut(c, common, matched) ==
    LET leaf == Last(c.path)
        x    == c.trie[leaf]
    IN IF (Len(c.path) > common \/ matched < x.end) /\ ~HasAllSnapshots(x)
       THEN SetSnapshots(c, leaf, [kv |-> SnapshotKV(c, Start(x), c.kv.off), rec |-> SnapshotRec(c)])
       ELSE c

RewindLayer(c, l, target) ==
    LET r == Restore(c, l, None, target) IN IF r.ok THEN r.cache ELSE Free(c, l)

Rewind(c, target) == EachLayer(LAMBDA d, l : RewindLayer(d, l, target), c)

\* The snapshots along the new path, until one cannot be restored.
PageInLayer(r, n, l, matched) ==
    LET x      == r.cache.trie[n]
        target == Min({x.end, matched})
    IN IF ~r.ok \/ Held(x, l) = None \/ Offset(r.cache, l) >= target THEN r
       ELSE Restore(r.cache, l, Held(x, l), target)

PageInNode(r, n, matched) == EachLayer(LAMBDA x, l : PageInLayer(x, n, l, matched), r)

PageIn(c, newPath, matched) ==
    LET along[i \in 0 .. Len(newPath)] ==
          IF i = 0 THEN Done(c) ELSE PageInNode(along[i - 1], newPath[i], matched)
    IN along[Len(newPath)].cache

\* Mutant of AlignLayer: a cache that cannot be rewound is left where it is.
AlignLayerWithoutFree(r, l, off) ==
    IF ~r.ok \/ Offset(r.cache, l) = off THEN r ELSE Restore(r.cache, l, None, off)

AlignLayer(r, l, off) ==
    IF ~r.ok \/ Offset(r.cache, l) = off THEN r
    ELSE LET s == Restore(r.cache, l, None, off)
         IN IF s.ok THEN s ELSE Failed(FreeAll(r.cache))

Align(c, off) == EachLayer(LAMBDA r, l : AlignLayer(r, l, off), Done(c)).cache

\* Mutant of RewindTarget: one token too many is given up.
RewindTargetBelow(end, matched) == Max({0, Min({end, matched}) - 1})

RewindTarget(end, matched) == Min({end, matched})

\* The path down to its last node that ends within the live caches.
Trimmed(t, path, off) == SubSeq(path, 1, Max({i \in DOMAIN path : t[path[i]].end <= off}))

\* The caches are brought to one offset, and the path ends there.
Settle(c, path) ==
    [Align(c, MinOffset(c)) EXCEPT !.path = Trimmed(c.trie, path, MinOffset(c))]

SwitchToPath(c, newPath, matched) ==
    LET common == Max({i \in 1 .. Min({Len(c.path), Len(newPath)}) :
                         SubSeq(c.path, 1, i) = SubSeq(newPath, 1, i)})
        target == RewindTarget(c.trie[c.path[common]].end, matched)
    IN Settle(PageIn(Rewind(PageOut(c, common, matched), target), newPath, matched), newPath)

----------------------------------------------------------------------------
(* Eviction.                                                               *)

\* A node off the active path with at most one child may be evicted.
Evictable(c) == {n \in DOMAIN c.trie : /\ n \notin ToSet(c.path)
                                       /\ Cardinality(Children(c.trie, n)) <= 1}

OverLimit(c) == c.paged > MaxPaged /\ Evictable(c) # {}

\* One turn of the loop of enforceEvictionPolicy.  Which node is the oldest
\* depends on times of use: any that may be evicted is taken here.
Evict ==
    /\ enforcing
    /\ \E n \in Evictable(cache) :
         cache' = IF Children(cache.trie, n) = {} THEN RemoveNode(cache, n)
                  ELSE MergeWithChild(cache, n)
    /\ enforcing' = OverLimit(cache')
    /\ UNCHANGED <<session, requests>>

----------------------------------------------------------------------------
(* The session.                                                            *)

Panic == /\ session' = [session EXCEPT !.phase = "panicked"]
         /\ enforcing' = FALSE

\* The offsets that prefill asks schedulePrefillSnapshots for.
SnapshotOffsets(inputs) ==
    {o \in 1 .. Len(inputs) - 1 : o % Interval = 0} \cup
    (IF Len(inputs) > PreThinking THEN {Len(inputs) - PreThinking} ELSE {})

\* The members of a set of numbers in their order.
Ascending(S) == [i \in 1 .. Cardinality(S) |->
                   CHOOSE x \in S : Cardinality({y \in S : y < x}) = i - 1]

Ahead(offsets, base) == {o \in offsets : o > base}

\* schedulePrefillSnapshots, which opens prefill: the offsets asked for and the one
\* where the trie branches off.
Schedule(c, matched, inputs) ==
    LET prefix == MinOffset(c)
        asked  == Ahead(SnapshotOffsets(inputs), prefix)
        branch == IF prefix < matched THEN {matched} ELSE {}
        order  == Ascending(asked \cup branch)
    IN IF order # <<>> /\ (c.rows # <<>> \/ \E l \in Kinds : order[1] < Offset(c, l))
       THEN cache' = c /\ Panic
       ELSE /\ cache' = [c EXCEPT !.rows = [i \in DOMAIN order |-> NoSnapshots],
                                  !.base = prefix]
            /\ session' = [phase |-> "prefill", inputs |-> inputs, outputs |-> <<>>,
                           pending |-> [i \in DOMAIN order |->
                                          [offset |-> order[i], user |-> order[i] \in asked]],
                           sample |-> None]
            /\ enforcing' = OverLimit(cache')

\* begin: a match of the whole prompt is given up for one of all but its last token.
Begin(inputs) ==
    LET all  == FindBestMatch(cache.trie, Root, inputs)
        best == IF all.matched = Len(inputs)
                THEN FindBestMatch(cache.trie, Root, SubSeq(inputs, 1, all.matched - 1))
                ELSE all
    IN /\ session.phase = "idle" /\ ~enforcing /\ requests < MaxRequests
       /\ requests' = requests + 1
       /\ Schedule(SwitchToPath(cache, best.path, best.matched), best.matched, inputs)

\* Forward: every cache takes the tokens, and the scheduled offsets that it
\* crosses are captured: for the KV cache the edge since the one before.
Forward(c, tokens) ==
    LET start == MinOffset(c)
        end   == start + Len(tokens)
        known == IF c.kv.off = 0 THEN <<>> ELSE c.kv.buf[c.kv.off]
        data  == [i \in DOMAIN tokens |-> known \o SubSeq(tokens, 1, i)]
        d     == IF "kv" \in Kinds THEN AppendKV(c, data) ELSE c
        rec   == IF "rec" \in Kinds THEN c.rec \o tokens ELSE c.rec
        At(i) == session.pending[i].offset
        Row(i) == [kv  |-> IF "kv" \in Kinds
                           THEN SnapshotKV(d, IF i = 1 THEN c.base ELSE At(i - 1), At(i)) ELSE None,
                   rec |-> IF "rec" \in Kinds THEN SubSeq(rec, 1, At(i)) ELSE None]
    IN [d EXCEPT !.rec = rec,
                 !.rows = [i \in DOMAIN c.rows |->
                             IF At(i) > start /\ At(i) <= end THEN Row(i) ELSE c.rows[i]]]

Left == Len(session.inputs) - MinOffset(cache)

\* A chunk of the prompt: all but its last token are evaluated.
Prefill ==
    /\ session.phase = "prefill" /\ ~enforcing /\ Left > 1
    /\ LET off == MinOffset(cache)
       IN cache' = Forward(cache, SubSeq(session.inputs, off + 1, off + Min({ChunkSize, Left - 1})))
    /\ UNCHANGED <<session, enforcing, requests>>

Stored == session.inputs \o session.outputs

\* attachPrefillSnapshots, one scheduled offset after the other.
Attach ==
    /\ session.phase \in {"prefill", "attach"} /\ ~enforcing /\ Left = 1 /\ session.pending # <<>>
    /\ LET p   == Head(session.pending)
           row == Head(cache.rows)
           rest == [cache EXCEPT !.rows = Tail(cache.rows)]
           end == cache.trie[Last(cache.path)].end
           c   == IF end < p.offset
                  THEN AdvancePath(rest, SubSeq(Stored, end + 1, p.offset), p.offset) ELSE rest
           to  == Last(c.path)
       IN IF p.offset > MinOffset(cache)
          THEN cache' = rest /\ enforcing' = FALSE
          ELSE /\ cache' = SetSnapshots([c EXCEPT !.trie[to].user = @ \/ p.user], to, row)
               /\ enforcing' = OverLimit(cache')
    /\ session' = [session EXCEPT !.pending = Tail(session.pending), !.phase = "attach"]
    /\ UNCHANGED requests

\* dispatch of the seed: the last token of the prompt, and a first sample.
Seed(sample) ==
    /\ session.phase \in {"prefill", "attach"} /\ ~enforcing /\ Left = 1 /\ session.pending = <<>>
    /\ cache' = Forward(cache, <<Last(session.inputs)>>)
    /\ session' = [session EXCEPT !.phase = "decode", !.sample = sample]
    /\ UNCHANGED <<enforcing, requests>>

\* Mutant of Decode: a cancelled stream leaves before the token is recorded.
DecodeUnrecorded(sample) ==
    /\ session.phase = "decode" /\ Len(session.outputs) < MaxOutput
    /\ cache' = Forward(cache, <<session.sample>>)
    /\ \E outputs \in {session.outputs, Append(session.outputs, session.sample)} :
         session' = [session EXCEPT !.outputs = outputs, !.sample = sample]
    /\ UNCHANGED <<enforcing, requests>>

\* A turn of decode: the sample in flight is forwarded and recorded.
Decode(sample) ==
    /\ session.phase = "decode" /\ Len(session.outputs) < MaxOutput
    /\ cache' = Forward(cache, <<session.sample>>)
    /\ session' = [session EXCEPT !.outputs = Append(session.outputs, session.sample),
                                  !.sample = sample]
    /\ UNCHANGED <<enforcing, requests>>

\* The end of a request, at its stop or at a cancellation: drain, then close.
Close ==
    /\ ~enforcing
    /\ session.phase = "decode" \/ (session.phase = "prefill" /\ Left > 1)
    /\ LET stored == IF session.phase = "decode" THEN Append(Stored, session.sample) ELSE Stored
           c   == [cache EXCEPT !.rows = <<>>, !.base = 0]
           off == MinOffset(c)
           end == c.trie[Last(c.path)].end
       IN IF off > Len(stored)
          THEN cache' = c /\ Panic
          ELSE /\ cache' = IF off > end THEN AdvancePath(c, SubSeq(stored, end + 1, off), off) ELSE c
               /\ session' = [phase |-> "idle", inputs |-> <<>>, outputs |-> <<>>,
                              pending |-> <<>>, sample |-> None]
               /\ UNCHANGED enforcing
    /\ UNCHANGED requests

Finished == session.phase = "idle" /\ ~enforcing /\ requests = MaxRequests /\ UNCHANGED vars

Inputs == UNION {[1 .. n -> Tokens] : n \in 1 .. MaxInput}

Next ==
    \/ \E inputs \in Inputs : Begin(inputs)
    \/ Evict
    \/ Prefill
    \/ Attach
    \/ \E sample \in Tokens : Seed(sample) \/ Decode(sample)
    \/ Close
    \/ Finished

Spec == Init /\ [][Next]_vars

----------------------------------------------------------------------------
(* Properties.                                                             *)

\* The tokens from the root to the end of a node.
Spelled(t, n) ==
    LET to[m \in DOMAIN t] == IF m = Root THEN <<>> ELSE to[t[m].parent] \o t[m].tokens
    IN to[n]

StartsWith(s, p) == Len(p) <= Len(s) /\ SubSeq(s, 1, Len(p)) = p

\* The tokens that the live caches stand for: between two requests those of the
\* active path, in a request those it has been given and has produced.
Live == IF session.phase = "idle" THEN Spelled(cache.trie, Last(cache.path))
        ELSE IF session.sample = None THEN Stored ELSE Append(Stored, session.sample)

\* The fields have their types, and no count of bytes goes below zero.
TypeOK ==
    /\ \A n \in DOMAIN cache.trie :
         LET x == cache.trie[n]
         IN /\ x.tokens \in Seq(Tokens) /\ x.end \in Nat
            /\ x.parent \in DOMAIN cache.trie \cup {None} /\ x.user \in BOOLEAN
    /\ ToSet(cache.path) \subseteq DOMAIN cache.trie
    /\ cache.kv.off \in 0 .. Len(cache.kv.buf)
    /\ cache.paged \in Nat
    /\ session.phase \in {"idle", "prefill", "attach", "decode", "panicked"}
    /\ enforcing \in BOOLEAN /\ requests \in 0 .. MaxRequests

\* However edges were split, made longer and merged, offsets add up along the
\* trie, and siblings share no prefix: what findBestMatch takes for granted.
TrieShape ==
    LET t == cache.trie
    IN /\ \A n \in DOMAIN t \ {Root} :
            t[n].tokens # <<>> /\ t[n].end = t[t[n].parent].end + Len(t[n].tokens)
       /\ \A n, m \in DOMAIN t \ {Root} :
            n # m /\ t[n].parent = t[m].parent => t[n].tokens[1] # t[m].tokens[1]

Aligned == \A l \in Kinds : Offset(cache, l) = MinOffset(cache)

\* The active path is a chain from the root that spells what the live caches hold,
\* all of them at one offset whatever each of them could restore; between two requests
\* it reaches to where they end, even after a cancelled prompt: close leaves no token
\* of theirs out of the trie.
PathSpells ==
    /\ cache.path[1] = Root
    /\ \A i \in 2 .. Len(cache.path) : cache.trie[cache.path[i]].parent = cache.path[i - 1]
    /\ StartsWith(Live, Spelled(cache.trie, Last(cache.path)))
    /\ Aligned
    /\ session.phase = "idle" => cache.trie[Last(cache.path)].end >= MinOffset(cache)

\* pagedOutBytes is what the snapshots of the trie own, through splits, merges,
\* evictions and lazy snapshots that are copied out long after they were counted.
BytesExact == cache.paged = Total([n \in DOMAIN cache.trie |-> Bytes(cache.trie[n])], DOMAIN cache.trie)

\* Neither PrepareSnapshots nor close panics: no capture is scheduled behind the
\* caches or over one not drained, and the caches never outrun the stored tokens.
NoPanic == session.phase # "panicked"

\* The recurrent state, live or in a node, was computed from the tokens it is
\* used for, and from no others.
RecFaithful ==
    /\ StartsWith(Live, cache.rec)
    /\ \A n \in DOMAIN cache.trie :
         cache.trie[n].rec # None => StartsWith(Spelled(cache.trie, n), cache.trie[n].rec)

\* Slots from an offset on that were computed from the first of these tokens.
Computed(data, from, tokens) ==
    \A i \in DOMAIN data : from + i <= Len(tokens) /\ data[i] = SubSeq(tokens, 1, from + i)

SnapshotData(s) == IF s.lazy THEN CopyOf(cache, s).data ELSE s.data

\* A snapshot has all the slots of its range, computed from these tokens.
Holds(s, tokens) ==
    Len(SnapshotData(s)) = s.to - s.from /\ Computed(SnapshotData(s), s.from, tokens)

\* A snapshot that has stayed lazy was never clobbered (kvcache.go:246): the slots
\* it names still hold what was computed from the tokens of its node.
LazyIntact == \A n \in DOMAIN cache.trie :
    LET s == cache.trie[n].kv
    IN s # None /\ s.lazy => Computed(SnapshotData(s), s.from, Spelled(cache.trie, n))

\* The edge of a node matches the ranges its snapshots captured (prefix_cache.go:358).
EdgeRanges == \A n \in DOMAIN cache.trie :
    LET x == cache.trie[n]
    IN /\ x.kv # None => x.kv.from = Start(x) /\ x.kv.to = x.end
       /\ x.rec # None => Len(x.rec) = x.end

KVFaithful ==
    /\ Computed(SubSeq(cache.kv.buf, 1, cache.kv.off), 0, Live)
    /\ \A n \in DOMAIN cache.trie :
         LET s == cache.trie[n].kv
         IN s # None => Holds(s, Spelled(cache.trie, n))

\* The step writes over a lazy snapshot after the first write since a rewind.
Overruns == \E n \in DOMAIN cache.trie :
    LET s == cache.trie[n].kv
    IN /\ session.phase # "idle" /\ ~cache.kv.rewound
       /\ s # None /\ s.lazy /\ s.from < cache'.kv.off /\ s.to > cache.kv.off

\* The step merges two nodes whose snapshots do not meet.
MergesApart == \E n \in DOMAIN cache.trie \ DOMAIN cache'.trie :
    LET s == cache.trie[cache.trie[n].parent].kv
        t == cache.trie[n].kv
    IN s # None /\ t # None /\ s.to # t.from

\* Every slot of the KV cache, live, lazy or copied out, stays computed from the
\* tokens it stands for through rewinds, page-outs, page-ins, splits and merges.
\* Two steps are excepted, for what LazyIntact and EdgeRanges show of the code:
\* nothing else in the code breaks it.
KVStaysFaithful == [][KVFaithful /\ ~Overruns /\ ~MergesApart => KVFaithful']_vars

\* Off the active path, a node that holds a snapshot has one of the KV cache, and so
\* has its parent, unless that one is on the path.
Backed == \A n \in DOMAIN cache.trie \ ToSet(cache.path) :
    LET x == cache.trie[n]
    IN "kv" \in Kinds /\ HasSnapshots(x) =>
         x.kv # None /\ (x.parent \in ToSet(cache.path) \/ cache.trie[x.parent].kv # None)

\* A snapshot that owns its slots has one for each offset of its range.
Filled == \A n \in DOMAIN cache.trie :
    LET s == cache.trie[n].kv
    IN s # None /\ ~s.lazy => Len(s.data) = s.to - s.from

\* A prompt that goes on from what the last request left is served from the live
\* caches: whatever else the trie offers, begin throws none of it away.  A snapshot
\* that misses its edge (see EdgeRanges) or has too few slots for it, or a recurrent
\* state further on than the KV cache can be paged in, as a merge may leave them, makes
\* the page-in of a node below fail or stop short, all caches are dropped and the path
\* is left beyond them: excepted.
ContinuationKeepsLive ==
    [][/\ session.phase = "idle" /\ session'.phase = "prefill"
       /\ EdgeRanges /\ Filled /\ Backed /\ cache.trie[Last(cache.path)].end = MinOffset(cache)
       /\ StartsWith(session'.inputs, Live) /\ session'.inputs # Live
       => MinOffset(cache') >= MinOffset(cache)]_vars
=============================================================================
