------------------------------ MODULE Registry ------------------------------
(***************************************************************************)
(* The one-shot commands of cmd/s3reg that change a bucket -- publish, rm   *)
(* and reindex -- run concurrently by any number of CI jobs and operators  *)
(* against one tool of one bucket.  Nothing is shared but the bucket: the  *)
(* artifact objects, written and deleted unconditionally, and index.json,  *)
(* written only against the ETag it was read with.  Every S3 call is one   *)
(* atomic step, so the interleavings are those of the calls.               *)
(***************************************************************************)
EXTENDS Catalogue, FiniteSets

CONSTANTS
    Procs,        \* invocations of s3reg
    Scenarios,    \* what the invocations may be asked to do, and in which bucket
    KeyOrder,     \* the order of keys, in which S3 lists them
    MaxAttempts,  \* maxAttempts in updateIndex and runReindex (5)
    MaxLosses,    \* bound: how many answers of S3 are lost in a behaviour
    NoObject      \* no object at a key

Publish == [op: {"publish"}, staged: Seq(Artifact)]
Rm      == [op: {"rm"}, slots: SUBSET Slot]
Reindex == [op: {"reindex"}]
Command == Publish \cup Rm \cup Reindex

Object  == [sha: Digests, modified: Nat]
Listing == [key: Key, modified: Nat]

\* A published catalogue holds in every slot an artifact whose key is of it.
IsCatalogue(arts) ==
    /\ arts \in [Slot -> Artifact \cup {None}]
    /\ \A s \in Slot : arts[s] # None => arts[s].key.slot = s

\* A publish has staged something, all of one version.
IsWorkload(work) ==
    /\ work \in [Procs -> Command]
    /\ \A p \in Procs :
          work[p].op = "publish" =>
            /\ work[p].staged # << >>
            /\ \A i, j \in DOMAIN work[p].staged :
                  work[p].staged[i].key.slot.version = work[p].staged[j].key.slot.version

\* The catalogue, the versions without publish time, and the unindexed objects.
IsBucket(b) ==
    /\ IsCatalogue(b.arts)
    /\ b.orphans \subseteq Artifact
    /\ \A o \in b.orphans : b.arts[o.key.slot] # None => b.arts[o.key.slot].key # o.key

ASSUME RegistryAssumption ==
    /\ KeyOrder \in [Key -> Nat]
    /\ \A k, l \in Key : KeyOrder[k] = KeyOrder[l] => k = l
    /\ MaxAttempts \in Nat \ {0}
    /\ MaxLosses \in Nat
    /\ NoObject \notin Object
    /\ \A s \in Scenarios : IsWorkload(s.work) /\ IsBucket(s.bucket)

VARIABLES
    objects,   \* the bucket's artifact objects
    index,     \* index.json: its ETag (0: no such object) and its document
    clock,     \* the time of the latest write to the bucket
    losses,    \* how many answers were lost
    cmd,       \* what each invocation was asked to do
    pc,        \* the S3 call it makes next, or how it ended
    attempt,   \* the loop variable of updateIndex and runReindex
    uploaded,  \* how many staged artifacts it has uploaded
    etag,      \* the ETag it will write the index against
    draft,     \* the document it will write
    doomed,    \* rm: keys collected for deletion, not yet deleted
    listed,    \* reindex: listed objects not yet hashed
    stamps     \* reindex: the publish time each version will get

bucket == <<objects, index, clock>>
loop   == <<attempt, etag, draft>>
vars   == <<objects, index, clock, losses, cmd, pc, attempt, uploaded,
            etag, draft, doomed, listed, stamps>>

Final == {"ok", "failed", "contended"}

Stage == {"upload", "scan", "list", "current", "hash", "get", "put", "delete"}
            \cup Final

\* The bucket before the first command: what earlier commands left, orphaned
\* objects of interrupted ones included.  A version published before publish
\* times were recorded has none; an index emptied by rm still exists.  Objects
\* are uploaded (at 1) before the index is written (at 2).
InitBucket(b) ==
    LET has(v) == \E s \in Slot : s.version = v /\ b.arts[s] # None
        empty  == \A s \in Slot : b.arts[s] = None
        stored == b.orphans \cup { b.arts[s] : s \in { t \in Slot : b.arts[t] # None } }
    IN  /\ clock = 2
        /\ objects = [ k \in Key |->
             IF \E a \in stored : a.key = k
             THEN [sha |-> (CHOOSE a \in stored : a.key = k).sha, modified |-> 1]
             ELSE NoObject ]
        /\ \E tag \in IF empty THEN {0, 2} ELSE {2} :
             index = [ etag |-> tag,
                       doc  |-> [ updated |-> tag,
                                  created |-> [ v \in Versions |->
                                    IF has(v) /\ v \notin b.legacy THEN 2 ELSE 0 ],
                                  arts    |-> b.arts ] ]

FirstCall(c) ==
    CASE c.op = "publish" -> "upload"
      [] c.op = "rm"      -> "scan"
      [] c.op = "reindex" -> "list"

Init ==
    /\ \E s \in Scenarios : InitBucket(s.bucket) /\ cmd = s.work
    /\ losses = 0
    /\ pc = [p \in Procs |-> FirstCall(cmd[p])]
    /\ attempt = [p \in Procs |-> 0]
    /\ uploaded = [p \in Procs |-> 0]
    /\ etag = [p \in Procs |-> 0]
    /\ draft = [p \in Procs |-> New]
    /\ doomed = [p \in Procs |-> {}]
    /\ listed = [p \in Procs |-> {}]
    /\ stamps = [p \in Procs |-> [v \in Versions |-> 0]]

Goto(p, stage) == pc' = [pc EXCEPT ![p] = stage]

---------------------------------------------------------------------------
(* publish *)

\* st.PutArtifact: an unconditional write.
PutArtifact(art) ==
    objects' = [objects EXCEPT ![art.key] = [sha |-> art.sha, modified |-> clock + 1]]

\* The next staged file, in order; the index is not looked at before all are up.
Upload(p) ==
    /\ pc[p] = "upload"
    /\ PutArtifact(cmd[p].staged[uploaded[p] + 1])
    /\ clock' = clock + 1
    /\ uploaded' = [uploaded EXCEPT ![p] = @ + 1]
    /\ IF uploaded[p] + 1 = Len(cmd[p].staged) THEN Goto(p, "get") ELSE UNCHANGED pc
    /\ UNCHANGED <<index, losses, cmd, loop, doomed, listed, stamps>>

---------------------------------------------------------------------------
(* rm *)

\* Variant: deletes the objects before the index is written.
ScanDeleting(p) ==
    /\ pc[p] = "scan"
    /\ LET keys == { index.doc.arts[s].key :
                       s \in { t \in cmd[p].slots : index.doc.arts[t] # None } }
       IN  /\ doomed' = [doomed EXCEPT ![p] = keys]
           /\ objects' = [k \in Key |-> IF k \in keys THEN NoObject ELSE objects[k]]
           /\ Goto(p, IF index.etag = 0 \/ keys = {} THEN "failed" ELSE "get")
    /\ UNCHANGED <<index, clock, losses, cmd, loop, uploaded, listed, stamps>>

\* Variant: collects the keys of whole versions.
ScanWhole(p) ==
    /\ pc[p] = "scan"
    /\ LET keys == { index.doc.arts[s].key :
                       s \in { t \in Slot : /\ index.doc.arts[t] # None
                                            /\ \E r \in cmd[p].slots : r.version = t.version } }
       IN  /\ doomed' = [doomed EXCEPT ![p] = keys]
           /\ Goto(p, IF index.etag = 0 \/ keys = {} THEN "failed" ELSE "get")
    /\ UNCHANGED <<bucket, losses, cmd, loop, uploaded, listed, stamps>>

\* The keys of the entries that the command names, read from the index before
\* it is changed.
Scan(p) ==
    /\ pc[p] = "scan"
    /\ LET keys == { index.doc.arts[s].key :
                       s \in { t \in cmd[p].slots : index.doc.arts[t] # None } }
       IN  /\ doomed' = [doomed EXCEPT ![p] = keys]
           /\ Goto(p, IF index.etag = 0 \/ keys = {} THEN "failed" ELSE "get")
    /\ UNCHANGED <<bucket, losses, cmd, loop, uploaded, listed, stamps>>

\* st.DeleteObject: S3 reports success for an absent key too.
DeleteObject(k) == objects' = [objects EXCEPT ![k] = NoObject]

\* Variant: forgets to advance to the next key.
DeleteAgain(p) ==
    /\ pc[p] = "delete"
    /\ \E k \in doomed[p] : DeleteObject(k)
    /\ UNCHANGED <<index, clock, losses, cmd, pc, loop, uploaded, doomed, listed, stamps>>

\* One collected key after the other, in any order.
Delete(p) ==
    /\ pc[p] = "delete"
    /\ \E k \in doomed[p] :
         /\ DeleteObject(k)
         /\ doomed' = [doomed EXCEPT ![p] = @ \ {k}]
         /\ IF doomed[p] = {k} THEN Goto(p, "ok") ELSE UNCHANGED pc
    /\ UNCHANGED <<index, clock, losses, cmd, loop, uploaded, listed, stamps>>

---------------------------------------------------------------------------
(* reindex *)

\* st.ListObjects: the objects under the tool with their LastModified, one page
\* per call.  A page begins after the last key of the page before; S3 may end it
\* anywhere.
Before(k, l) == KeyOrder[k] < KeyOrder[l]

Rest(p) ==
    { [key |-> k, modified |-> objects[k].modified] :
        k \in { l \in Key : objects[l] # NoObject /\ \A r \in listed[p] : Before(r.key, l) } }

Pages(rest) ==
    IF rest = {} THEN {{}}
    ELSE { { r \in rest : ~Before(last.key, r.key) } : last \in rest }

\* Variant: takes the first page for all.
ListFirstPage(p) ==
    /\ pc[p] = "list"
    /\ \E page \in Pages(Rest(p)) : listed' = [listed EXCEPT ![p] = @ \cup page]
    /\ Goto(p, "current")
    /\ UNCHANGED <<bucket, losses, cmd, loop, uploaded, doomed, stamps>>

\* One page; the last one when S3 says it is not truncated.
List(p) ==
    /\ pc[p] = "list"
    /\ \E page \in Pages(Rest(p)) :
         /\ listed' = [listed EXCEPT ![p] = @ \cup page]
         /\ IF page = Rest(p) THEN Goto(p, "current") ELSE UNCHANGED pc
    /\ UNCHANGED <<bucket, losses, cmd, loop, uploaded, doomed, stamps>>

\* Variant: does not look at the publish times of the current index.
CurrentIgnored(p) ==
    /\ pc[p] = "current"
    /\ stamps' = [stamps EXCEPT ![p] = [v \in Versions |-> Earliest(listed[p], v)]]
    /\ Goto(p, IF listed[p] = {} THEN "get" ELSE "hash")
    /\ UNCHANGED <<bucket, losses, cmd, loop, uploaded, doomed, listed>>

\* The publish times of the current index; a version without one takes the
\* earliest LastModified among its listed objects.
Current(p) ==
    /\ pc[p] = "current"
    /\ stamps' = [stamps EXCEPT ![p] =
         [ v \in Versions |->
             IF index.doc.created[v] # 0 THEN index.doc.created[v]
             ELSE Earliest(listed[p], v) ]]
    /\ Goto(p, IF listed[p] = {} THEN "get" ELSE "hash")
    /\ UNCHANGED <<bucket, losses, cmd, loop, uploaded, doomed, listed>>

\* hashObject and Upsert of the next listed object.  An object deleted since it
\* was listed ends the command.
Hash(p) ==
    /\ pc[p] = "hash"
    /\ \E r \in listed[p] :
         /\ \A q \in listed[p] : ~Before(q.key, r.key)
         /\ \/ /\ objects[r.key] = NoObject
               /\ Goto(p, "failed")
               /\ UNCHANGED <<draft, listed>>
            \/ /\ objects[r.key] # NoObject
               /\ draft' = [draft EXCEPT ![p] =
                    Rebuild(@, [key |-> r.key, sha |-> objects[r.key].sha],
                            stamps[p][r.key.slot.version], clock + 1)]
               /\ listed' = [listed EXCEPT ![p] = @ \ {r}]
               /\ IF listed[p] = {r} THEN Goto(p, "get") ELSE UNCHANGED pc
    /\ UNCHANGED <<bucket, losses, cmd, attempt, uploaded, etag, doomed, stamps>>

---------------------------------------------------------------------------
(* The conditional index write shared by the three commands. *)

\* What a command makes of the document it has just read.  reindex throws that
\* document away: it writes the one it rebuilt before the loop.
Mutate(c, doc, rebuilt, now) ==
    CASE c.op = "publish" -> UpsertAll(doc, c.staged, now)
      [] c.op = "rm"      -> Remove(doc, c.slots, now)
      [] c.op = "reindex" -> rebuilt

\* Variant: a retry reloads the ETag but mutates nothing anew.
GetEtagOnly(p) ==
    /\ pc[p] = "get"
    /\ etag' = [etag EXCEPT ![p] = index.etag]
    /\ draft' = [draft EXCEPT ![p] =
         IF attempt[p] = 0 THEN Mutate(cmd[p], index.doc, @, clock + 1) ELSE @]
    /\ Goto(p, "put")
    /\ UNCHANGED <<bucket, losses, cmd, attempt, uploaded, doomed, listed, stamps>>

\* Variant: a retry keeps the ETag of the first attempt.
GetStaleEtag(p) ==
    /\ pc[p] = "get"
    /\ etag' = [etag EXCEPT ![p] = IF attempt[p] = 0 THEN index.etag ELSE @]
    /\ draft' = [draft EXCEPT ![p] = Mutate(cmd[p], index.doc, @, clock + 1)]
    /\ Goto(p, "put")
    /\ UNCHANGED <<bucket, losses, cmd, attempt, uploaded, doomed, listed, stamps>>

\* st.GetIndex and the mutation; no index.json reads as index.New and ETag "".
Get(p) ==
    /\ pc[p] = "get"
    /\ etag' = [etag EXCEPT ![p] = index.etag]
    /\ draft' = [draft EXCEPT ![p] = Mutate(cmd[p], index.doc, @, clock + 1)]
    /\ Goto(p, "put")
    /\ UNCHANGED <<bucket, losses, cmd, attempt, uploaded, doomed, listed, stamps>>

\* A write whose precondition holds: If-Match on the ETag that was read, or
\* If-None-Match:* when there was none.  ETags are opaque; a store that derives
\* them from the bytes repeats one when the document has not changed.
PutIndex(doc) ==
    /\ clock' = clock + 1
    /\ \E e \in {clock + 1} \cup
               (IF index.etag # 0 /\ doc = index.doc THEN {index.etag} ELSE {}) :
         index' = [etag |-> e, doc |-> doc]
    /\ UNCHANGED objects

\* Variant: writes without a precondition.
PutUnconditionally(p) ==
    /\ pc[p] = "put"
    /\ PutIndex(draft[p])
    /\ Goto(p, IF cmd[p].op = "rm" THEN "delete" ELSE "ok")
    /\ UNCHANGED <<losses, cmd, loop, uploaded, doomed, listed, stamps>>

\* st.PutIndex succeeds.
PutAck(p) ==
    /\ pc[p] = "put"
    /\ etag[p] = index.etag
    /\ PutIndex(draft[p])
    /\ Goto(p, IF cmd[p].op = "rm" THEN "delete" ELSE "ok")
    /\ UNCHANGED <<losses, cmd, loop, uploaded, doomed, listed, stamps>>

\* Variant: takes a 412 for success.
ConflictIgnored(p) ==
    /\ pc[p] = "put"
    /\ etag[p] # index.etag
    /\ attempt' = [attempt EXCEPT ![p] = @ + 1]
    /\ Goto(p, "ok")
    /\ UNCHANGED <<bucket, losses, cmd, uploaded, etag, draft, doomed, listed, stamps>>

\* Variant: one attempt too few.
ConflictEarly(p) ==
    /\ pc[p] = "put"
    /\ etag[p] # index.etag
    /\ attempt' = [attempt EXCEPT ![p] = @ + 1]
    /\ Goto(p, IF attempt[p] + 2 >= MaxAttempts THEN "contended" ELSE "get")
    /\ UNCHANGED <<bucket, losses, cmd, uploaded, etag, draft, doomed, listed, stamps>>

\* 412: the index has changed since it was read.  Start over, or give up.
PutConflict(p) ==
    /\ pc[p] = "put"
    /\ etag[p] # index.etag
    /\ attempt' = [attempt EXCEPT ![p] = @ + 1]
    /\ Goto(p, IF attempt[p] + 1 = MaxAttempts THEN "contended" ELSE "get")
    /\ UNCHANGED <<bucket, losses, cmd, uploaded, etag, draft, doomed, listed, stamps>>

---------------------------------------------------------------------------
(* Faults *)

\* An error from S3 other than those handled above, or the death of the process.
Abort(p) ==
    /\ pc[p] \notin Final
    /\ Goto(p, "failed")
    /\ UNCHANGED <<bucket, losses, cmd, loop, uploaded, doomed, listed, stamps>>

\* A call takes effect but its answer is lost: the SDK sends it again, or gives
\* up (Abort).
AnswerLost(p) ==
    /\ losses < MaxLosses
    /\ losses' = losses + 1
    /\ \/ /\ pc[p] = "upload"
          /\ PutArtifact(cmd[p].staged[uploaded[p] + 1])
          /\ clock' = clock + 1
          /\ UNCHANGED index
       \/ /\ pc[p] = "put"
          /\ etag[p] = index.etag
          /\ PutIndex(draft[p])
       \/ /\ pc[p] = "delete"
          /\ \E k \in doomed[p] : DeleteObject(k)
          /\ UNCHANGED <<index, clock>>
    /\ UNCHANGED <<cmd, pc, loop, uploaded, doomed, listed, stamps>>

---------------------------------------------------------------------------
Step(p) ==
    \/ Upload(p)
    \/ Scan(p)
    \/ List(p)
    \/ Current(p)
    \/ Hash(p)
    \/ Get(p)
    \/ PutAck(p)
    \/ PutConflict(p)
    \/ Delete(p)

Fault(p) == Abort(p) \/ AnswerLost(p)

\* One-shot commands: when all have ended nothing more happens.
Done == (\A p \in Procs : pc[p] \in Final) /\ UNCHANGED vars

Next == Done \/ \E p \in Procs : Step(p) \/ Fault(p)

Spec == Init /\ [][Next]_vars

\* S3 answers every call and no invocation dies.
ReliableNext == Done \/ \E p \in Procs : Step(p)

ReliableSpec == Init /\ [][ReliableNext]_vars

\* Every invocation that is alive keeps making its calls.
Fairness == \A p \in Procs : WF_vars(Step(p))

FairSpec == Spec /\ Fairness

FairReliableSpec == ReliableSpec /\ Fairness
---------------------------------------------------------------------------
(* What each invocation is about *)

Publishes(p, s) == cmd[p].op = "publish" /\ LandsIn(cmd[p].staged, s)
Uploads(p, k)   == cmd[p].op = "publish" /\ \E i \in DOMAIN cmd[p].staged :
                                               cmd[p].staged[i].key = k
Removes(p, s)   == cmd[p].op = "rm" /\ s \in cmd[p].slots
Reindexes(p)    == cmd[p].op = "reindex"

Entry(s) == index.doc.arts[s]

AsIndexed(art) == /\ objects[art.key] # NoObject
                  /\ objects[art.key].sha = art.sha

---------------------------------------------------------------------------
(* Properties *)

Typed ==
    /\ objects \in [Key -> Object \cup {NoObject}]
    /\ index \in [etag: Nat, doc: Document]
    /\ clock \in Nat
    /\ losses \in 0..MaxLosses
    /\ cmd \in [Procs -> Command]
    /\ pc \in [Procs -> Stage]
    /\ attempt \in [Procs -> 0..MaxAttempts]
    /\ uploaded \in [Procs -> Nat]
    /\ etag \in [Procs -> Nat]
    /\ draft \in [Procs -> Document]
    /\ doomed \in [Procs -> SUBSET Key]
    /\ listed \in [Procs -> SUBSET Listing]
    /\ stamps \in [Procs -> [Versions -> Nat]]

\* The bucket and every invocation are well formed: no ETag is of a write still to
\* come, the index and a rebuild have every artifact in the slot of its key, and what
\* rm collected to delete (rm.go:40-59) is of the slots that it was to remove.
TypeOK ==
    /\ Typed
    /\ index.etag <= clock
    /\ \A s \in Slot : Entry(s) # None => Entry(s).key.slot = s
    /\ \A p \in Procs :
         /\ etag[p] <= clock
         /\ \A k \in doomed[p] : Removes(p, k.slot)
         /\ Reindexes(p) =>
              \A s \in Slot : draft[p].arts[s] # None => draft[p].arts[s].key.slot = s

\* A stage is only reached by the command it belongs to, with what it needs.
Staging ==
    \A p \in Procs :
      /\ pc[p] = "upload" => /\ cmd[p].op = "publish"
                            /\ uploaded[p] < Len(cmd[p].staged)
      /\ pc[p] \in {"scan", "delete"} => cmd[p].op = "rm"
      /\ pc[p] \in {"list", "current", "hash"} => cmd[p].op = "reindex"
      /\ pc[p] \notin Final => attempt[p] < MaxAttempts

\* updateIndex (publish.go:197-217): whenever a conditional write would succeed,
\* what it writes is the command applied to the very document it replaces,
\* however many other writes there were since it was read.
NoLostUpdate ==
    \A p \in Procs :
      /\ pc[p] = "put"
      /\ etag[p] = index.etag
      /\ ~Reindexes(p)
      => \E now \in 1..clock+1 : draft[p] = Mutate(cmd[p], index.doc, draft[p], now)

\* rm.go:64-65, publish.go:174-192: the index names no object that is gone, in
\* any slot that is not removed by one command while another puts it back.
EntryHasObject ==
    \A s \in Slot :
      \/ Entry(s) = None
      \/ objects[Entry(s).key] # NoObject
      \/ \E p, q \in Procs : Removes(p, s) /\ (Publishes(q, s) \/ Reindexes(q))

\* publish.go:174-192: an entry's digest is that of the object it names, unless a
\* publish of that key has not (yet) written the index after uploading it, or
\* two commands publish the key with different bytes.
DigestMatches ==
    \A s \in Slot :
      \/ Entry(s) = None
      \/ objects[Entry(s).key] = NoObject
      \/ AsIndexed(Entry(s))
      \/ \E p \in Procs : Uploads(p, Entry(s).key) /\ pc[p] # "ok"
      \/ \E p, q \in Procs : p # q /\ Uploads(p, Entry(s).key)
                              /\ (Uploads(q, Entry(s).key) \/ Reindexes(q))

\* README.md:50-51: a publish that reported success stays in the index, in every
\* slot that no other command was asked to change and while no reindex runs.
AckedPublishIndexed ==
    \A p \in Procs :
      /\ cmd[p].op = "publish"
      /\ pc[p] = "ok"
      => \A a \in Landed(cmd[p].staged) :
           \/ Entry(a.key.slot) = a
           \/ \E q \in Procs \ {p} :
                \/ Reindexes(q)
                \/ Removes(q, a.key.slot)
                \/ Publishes(q, a.key.slot)

\* README.md:132: after an rm that reported success none of the entries it named is in
\* the index, unless another command puts it back.
AckedRmGone ==
    \A p \in Procs, s \in Slot :
      /\ pc[p] = "ok"
      /\ Removes(p, s)
      => \/ Entry(s) = None
         \/ \E q \in Procs : Publishes(q, s) \/ Reindexes(q)

\* README.md:48-49: the publish time of a version that stays in the index does
\* not change -- except that a reindex supplies a missing one, and replaces one
\* that other commands set or dropped while it ran.
CreatedStable ==
    [][ \A v \in Versions :
          HasVersion(index.doc, v) /\ HasVersion(index'.doc, v)
          => \/ index'.doc.created[v] = index.doc.created[v]
             \/ /\ \E p \in Procs : Reindexes(p)
                /\ \/ index.doc.created[v] = 0
                   \/ \E p \in Procs, s \in Slot :
                        s.version = v /\ (Publishes(p, s) \/ Removes(p, s))
      ]_vars

\* README.md:136-139: a reindex that reported success has put every object that
\* was in the bucket before it started back into the index, unless it is removed.
ReindexAdopts ==
    \A p \in Procs, k \in Key :
      /\ Reindexes(p)
      /\ pc[p] = "ok"
      /\ objects[k] # NoObject
      /\ objects[k].modified = 1
      => \/ Entry(k.slot) # None
         \/ \E q \in Procs : Removes(q, k.slot)

\* publish.go:197-216, reindex.go:87-105: an attempt is lost only to a write of
\* another invocation, and each writes once, so where no answer is lost as many
\* attempts as there are invocations are enough.
NeverContended ==
    Cardinality(Procs) <= MaxAttempts => \A p \in Procs : pc[p] # "contended"

\* publish.go:195-217: to every command the write loop looks like one indivisible
\* change of the index, made between its start and its end.
Outcome(p) ==
    CASE pc[p] \in {"ok", "delete"}        -> "applied"
      [] pc[p] \in {"failed", "contended"} -> "failed"
      [] OTHER                             -> "pending"

Atomic == INSTANCE AtomicIndex WITH
    doc <- index.doc, outcome <- [p \in Procs |-> Outcome(p)]

AtomicSpec == Atomic!ASpec

\* Every invocation comes to an end.
Termination == <>(\A p \in Procs : pc[p] \in Final)

\* store_semantics_integration_test.go:49-51: the retry loop lands every one of
\* several concurrent publishes, whatever else writes the index meanwhile.
PublishSucceeds ==
    Cardinality(Procs) <= MaxAttempts =>
      \A p \in Procs : (cmd[p].op = "publish") ~> (pc[p] = "ok")

---------------------------------------------------------------------------
(* What the documentation says and the code does not do *)

\* rm.go:64-65: "orphaned objects are safer than an index pointing at deleted
\* keys" -- but an rm deletes, after its index write, keys it collected before.
NeverDangling ==
    \A s \in Slot : Entry(s) # None => objects[Entry(s).key] # NoObject

\* README.md:50-51: "a losing writer reloads and retries" -- but reindex reloads
\* only the ETag and writes what it rebuilt before.  A publish that succeeded
\* and that nothing was asked to undo should stay in the index.
NeverForgotten ==
    \A p \in Procs :
      /\ cmd[p].op = "publish"
      /\ pc[p] = "ok"
      /\ \A q \in Procs \ {p} : Reindexes(q)
      => \A a \in Landed(cmd[p].staged) : Entry(a.key.slot) = a
=============================================================================
