--------------------------- MODULE RegistryProofs ---------------------------
(***************************************************************************)
(* Theorems about Registry, for any number of invocations, any workload,   *)
(* any catalogue and any bound on attempts and lost answers: the           *)
(* conditional write, the refinement, and what a command that reported     *)
(* success may count on: that its change is in the index, and that it did  *)
(* not have to give up.                                                    *)
(***************************************************************************)
EXTENDS Registry, FiniteSetTheorems, WellFoundedInduction, TLAPS

---------------------------------------------------------------------------
(* What the operators on documents return. *)

\* A published artifact that lands is one that was staged.
LEMMA LandedStaged ==
    ASSUME NEW staged \in Seq(Artifact)
    PROVE  Landed(staged) \subseteq Artifact
BY DEF Landed

LEMMA UpsertAllType ==
    ASSUME NEW doc \in Document, NEW staged \in Seq(Artifact), NEW now \in Nat
    PROVE  UpsertAll(doc, staged, now) \in Document
<1> DEFINE arts == [ s \in Slot |-> IF LandsIn(staged, s)
                       THEN CHOOSE a \in Landed(staged) : a.key.slot = s
                       ELSE doc.arts[s] ]
<1>1. ASSUME NEW s \in Slot, LandsIn(staged, s)
      PROVE  (CHOOSE a \in Landed(staged) : a.key.slot = s) \in Artifact
  BY <1>1, LandedStaged DEF LandsIn
<1>2. arts \in [Slot -> Artifact \cup {None}]
  BY <1>1 DEF Document
<1> QED
  BY <1>2 DEF UpsertAll, Document

LEMMA RemoveType ==
    ASSUME NEW doc \in Document, NEW slots \in SUBSET Slot, NEW now \in Nat
    PROVE  Remove(doc, slots, now) \in Document
BY DEF Remove, Document

LEMMA RebuildType ==
    ASSUME NEW doc \in Document, NEW art \in Artifact, NEW stamp \in Nat, NEW now \in Nat
    PROVE  Rebuild(doc, art, stamp, now) \in Document
BY DEF Rebuild, Document, Artifact, Key, Slot

\* Times are well ordered, so a listing has an earliest one.
LEMMA EarliestType ==
    ASSUME NEW listing \in SUBSET Listing, NEW v \in Versions
    PROVE  Earliest(listing, v) \in Nat
<1> DEFINE times == { r.modified : r \in { q \in listing : q.key.slot.version = v } }
<1>1. times \subseteq Nat
  BY DEF Listing
<1>2. CASE times = {}
  BY <1>2 DEF Earliest
<1>3. CASE times # {}
  <2>1. PICK t \in times : \A u \in times : <<u, t>> \notin OpToRel(<, Nat)
    BY <1>1, <1>3, NatLessThanWellFounded, WFMin, Zenon
  <2>2. \A u \in times : ~(u < t)
    BY <1>1, <2>1, Zenon DEF OpToRel
  <2>3. (CHOOSE t1 \in times : \A u \in times : t1 <= u) \in times
    BY <1>1, <2>2
  <2> QED
    BY <1>1, <1>3, <2>3 DEF Earliest
<1> QED
  BY <1>2, <1>3

LEMMA MutateType ==
    ASSUME NEW c \in Command, NEW doc \in Document, NEW rebuilt \in Document,
           NEW now \in Nat
    PROVE  Mutate(c, doc, rebuilt, now) \in Document
<1>1. CASE c \in Publish
  BY <1>1, UpsertAllType DEF Mutate, Publish
<1>2. CASE c \in Rm
  BY <1>2, RemoveType DEF Mutate, Rm
<1>3. CASE c \in Reindex
  BY <1>3 DEF Mutate, Reindex
<1> QED
  BY <1>1, <1>2, <1>3 DEF Command

---------------------------------------------------------------------------
(* Type correctness.  It is not inductive by itself: an upload indexes the  *)
(* staged files, so it needs to know that one is left.                      *)

TypeInv == Typed /\ Staging

\* A written index has an ETag and one of the documents that were there.
LEMMA WriteFacts ==
    ASSUME Typed, NEW doc \in Document, PutIndex(doc)
    PROVE  /\ clock' = clock + 1
           /\ objects' = objects
           /\ index' \in [etag: Nat, doc: Document]
           /\ index'.doc = doc
           /\ \/ index'.etag = clock + 1
              \/ index'.etag = index.etag /\ doc = index.doc
BY DEF PutIndex, Typed

LEMMA InitBucketTyped ==
    ASSUME NEW b, IsBucket(b), InitBucket(b)
    PROVE  /\ clock \in Nat
           /\ objects \in [Key -> Object \cup {NoObject}]
           /\ index \in [etag: Nat, doc: Document]
           /\ index.etag <= clock
           /\ index.doc.arts = b.arts
           /\ IsCatalogue(b.arts)
<1>1. clock = 2
  BY DEF InitBucket
<1>2. b.arts \in [Slot -> Artifact \cup {None}] /\ b.orphans \subseteq Artifact
  BY DEF IsBucket, IsCatalogue
<1> DEFINE stored == b.orphans \cup { b.arts[s] : s \in { t \in Slot : b.arts[t] # None } }
<1>3. stored \subseteq Artifact
  BY <1>2
<1>4. objects \in [Key -> Object \cup {NoObject}]
  <2>1. ASSUME NEW k \in Key, \E a \in stored : a.key = k
        PROVE  [sha |-> (CHOOSE a \in stored : a.key = k).sha, modified |-> 1] \in Object
    BY <1>3, <2>1 DEF Object, Artifact
  <2>2. objects = [ k \in Key |->
               IF \E a \in stored : a.key = k
               THEN [sha |-> (CHOOSE a \in stored : a.key = k).sha, modified |-> 1]
               ELSE NoObject ]
    BY DEF InitBucket
  <2> HIDE DEF stored
  <2> QED
    BY <2>1, <2>2
<1>5. \E tag \in {0, 2}, created \in [Versions -> {0, 2}] :
        index = [etag |-> tag, doc |-> [updated |-> tag, created |-> created, arts |-> b.arts]]
  BY DEF InitBucket
<1>6. /\ index \in [etag: Nat, doc: Document] /\ index.etag \in {0, 2}
      /\ index.doc.arts = b.arts
  BY <1>2, <1>5 DEF Document
<1> QED
  BY <1>1, <1>4, <1>6 DEF IsBucket

LEMMA InitTypeInv == Init => TypeInv
<1> SUFFICES ASSUME Init PROVE TypeInv
  OBVIOUS
<1>1. PICK s \in Scenarios : InitBucket(s.bucket) /\ cmd = s.work
  BY DEF Init
<1>2. IsBucket(s.bucket) /\ IsWorkload(cmd)
  BY <1>1, RegistryAssumption
<1>3. cmd \in [Procs -> Command]
  BY <1>2 DEF IsWorkload
<1>4. New \in Document
  BY DEF New, Document
<1>5. /\ clock \in Nat
      /\ objects \in [Key -> Object \cup {NoObject}]
      /\ index \in [etag: Nat, doc: Document]
  BY <1>1, <1>2, InitBucketTyped
<1>6. pc \in [Procs -> Stage] /\ \A p \in Procs : pc[p] = FirstCall(cmd[p])
  BY <1>3 DEF Init, FirstCall, Stage, Command, Publish, Rm, Reindex
<1>7. Typed
  BY <1>3, <1>4, <1>5, <1>6, RegistryAssumption DEF Init, Typed
<1>8. ASSUME NEW p \in Procs, cmd[p].op = "publish"
       PROVE  0 < Len(cmd[p].staged)
  <2>1. cmd[p].staged \in Seq(Artifact) /\ cmd[p].staged # << >>
    BY <1>2, <1>3, <1>8 DEF IsWorkload, Command, Publish, Rm, Reindex
  <2> QED
    BY <2>1
<1>9. Staging
  BY <1>3, <1>6, <1>8, RegistryAssumption
     DEF Init, Staging, FirstCall, Final, Command, Publish, Rm, Reindex
<1> QED
  BY <1>7, <1>9 DEF TypeInv

\* What the next upload stores.
LEMMA UploadFacts ==
    ASSUME TypeInv, NEW p \in Procs, pc[p] = "upload"
    PROVE  LET art == cmd[p].staged[uploaded[p] + 1]
           IN  /\ art \in Artifact
               /\ art.key \in Key
               /\ [sha |-> art.sha, modified |-> clock + 1] \in Object
               /\ uploaded[p] + 1 \in 1..Len(cmd[p].staged)
<1>1. cmd[p] \in Command /\ cmd[p].op = "publish" /\ uploaded[p] \in Nat /\ clock \in Nat
      /\ uploaded[p] < Len(cmd[p].staged)
  BY DEF TypeInv, Typed, Staging
<1>2. cmd[p].staged \in Seq(Artifact)
  BY <1>1 DEF Command, Publish, Rm, Reindex
<1>3. uploaded[p] + 1 \in 1..Len(cmd[p].staged)
  BY <1>1, <1>2
<1>4. cmd[p].staged[uploaded[p] + 1] \in Artifact
  BY <1>2, <1>3
<1> QED
  BY <1>1, <1>3, <1>4 DEF Artifact, Object

LEMMA StepTypeInv == TypeInv /\ [Next]_vars => TypeInv'
<1> SUFFICES ASSUME TypeInv, [Next]_vars PROVE TypeInv'
  OBVIOUS
<1> USE DEF TypeInv
<1>1. CASE UNCHANGED vars
  BY <1>1 DEF vars, Typed, Staging
<1>2. ASSUME NEW p \in Procs, Upload(p) PROVE TypeInv'
  <2> DEFINE art == cmd[p].staged[uploaded[p] + 1]
  <2>1. pc[p] = "upload"
    BY <1>2 DEF Upload
  <2>2. /\ art.key \in Key /\ [sha |-> art.sha, modified |-> clock + 1] \in Object
        /\ uploaded[p] + 1 \in 1..Len(cmd[p].staged)
    BY <2>1, UploadFacts
  <2> HIDE DEF art
  <2>3. Typed'
    <3>1. objects' = [objects EXCEPT ![art.key] = [sha |-> art.sha, modified |-> clock + 1]]
      BY <1>2 DEF Upload, PutArtifact, art
    <3>2. pc' \in [Procs -> Stage] /\ uploaded' \in [Procs -> Nat] /\ clock' \in Nat
      BY <1>2 DEF Upload, Goto, Typed, Stage
    <3> QED
      BY <1>2, <2>2, <3>1, <3>2 DEF Upload, loop, Typed
  <2>4. Staging'
    <3>1. pc'[p] = "upload" => uploaded'[p] < Len(cmd[p].staged)
      BY <1>2, <2>1, <2>2 DEF Upload, Goto, Typed
    <3>2. pc'[p] \in {"upload", "get"} /\ cmd[p].op = "publish" /\ attempt[p] < MaxAttempts
      BY <1>2, <2>1 DEF Upload, Goto, Typed, Staging, Final
    <3>3. \A q \in Procs \ {p} : pc'[q] = pc[q] /\ uploaded'[q] = uploaded[q]
      BY <1>2 DEF Upload, Goto, Typed
    <3> QED
      BY <1>2, <3>1, <3>2, <3>3 DEF Upload, loop, Staging, Final
  <2> QED
    BY <2>3, <2>4
<1>3. ASSUME NEW p \in Procs, Scan(p) PROVE TypeInv'
  <2>1. cmd[p].slots \in SUBSET Slot
    BY <1>3 DEF Scan, Typed, Staging, Command, Publish, Rm, Reindex
  <2>2. \A s \in Slot : index.doc.arts[s] # None => index.doc.arts[s].key \in Key
    BY DEF Typed, Document, Artifact
  <2>3. Typed'
    BY <1>3, <2>1, <2>2 DEF Scan, Goto, loop, bucket, Typed, Stage, Final
  <2>4. Staging'
    BY <1>3 DEF Scan, Goto, loop, bucket, Typed, Staging, Final
  <2> QED
    BY <2>3, <2>4
<1>4. ASSUME NEW p \in Procs, List(p) PROVE TypeInv'
  <2>1. Rest(p) \subseteq Listing
    BY DEF Rest, Typed, Object, Listing
  <2>2. PICK page \in Pages(Rest(p)) :
          /\ listed' = [listed EXCEPT ![p] = @ \cup page]
          /\ pc' = pc \/ Goto(p, "current")
    BY <1>4 DEF List
  <2>3. page \subseteq Listing
    BY <2>1 DEF Pages
  <2>4. Typed'
    BY <1>4, <2>2, <2>3 DEF List, Goto, loop, bucket, Typed, Stage, Final
  <2>5. Staging'
    BY <1>4, <2>2 DEF List, Goto, loop, bucket, Typed, Staging, Final
  <2> QED
    BY <2>4, <2>5
<1>5. ASSUME NEW p \in Procs, Current(p) PROVE TypeInv'
  <2>1. \A v \in Versions : index.doc.created[v] \in Nat /\ Earliest(listed[p], v) \in Nat
    BY EarliestType DEF Typed, Document
  <2>2. Typed'
    BY <1>5, <2>1 DEF Current, Goto, loop, bucket, Typed, Stage, Final
  <2>3. Staging'
    BY <1>5 DEF Current, Goto, loop, bucket, Typed, Staging, Final
  <2> QED
    BY <2>2, <2>3
<1>6. ASSUME NEW p \in Procs, Hash(p) PROVE TypeInv'
  <2>1. ASSUME NEW r \in listed[p], objects[r.key] # NoObject
        PROVE  Rebuild(draft[p], [key |-> r.key, sha |-> objects[r.key].sha],
                       stamps[p][r.key.slot.version], clock + 1) \in Document
    <3>1. r.key \in Key /\ objects[r.key] \in Object
      BY <2>1 DEF Typed, Listing
    <3>2. stamps[p][r.key.slot.version] \in Nat
      BY <3>1 DEF Typed, Key, Slot
    <3>3. [key |-> r.key, sha |-> objects[r.key].sha] \in Artifact
      BY <3>1 DEF Artifact, Object
    <3>4. draft[p] \in Document /\ clock + 1 \in Nat
      BY DEF Typed
    <3> QED
      BY <3>2, <3>3, <3>4, RebuildType
  <2>2. PICK r \in listed[p] :
          \/ /\ Goto(p, "failed")
             /\ UNCHANGED <<draft, listed>>
          \/ /\ objects[r.key] # NoObject
             /\ draft' = [draft EXCEPT ![p] =
                  Rebuild(@, [key |-> r.key, sha |-> objects[r.key].sha],
                          stamps[p][r.key.slot.version], clock + 1)]
             /\ listed' = [listed EXCEPT ![p] = @ \ {r}]
             /\ IF listed[p] = {r} THEN Goto(p, "get") ELSE UNCHANGED pc
    BY <1>6 DEF Hash
  <2>3. draft' \in [Procs -> Document] /\ listed' \in [Procs -> SUBSET Listing]
    BY <2>1, <2>2 DEF Typed
  <2>4. pc' = pc \/ Goto(p, "failed") \/ Goto(p, "get")
    BY <2>2
  <2>5. Typed'
    BY <1>6, <2>3, <2>4 DEF Hash, Goto, bucket, Typed, Stage, Final
  <2>6. Staging'
    BY <1>6, <2>4 DEF Hash, Goto, bucket, Typed, Staging, Final
  <2> QED
    BY <2>5, <2>6
<1>7. ASSUME NEW p \in Procs, Get(p) PROVE TypeInv'
  <2>1. Mutate(cmd[p], index.doc, draft[p], clock + 1) \in Document
    BY MutateType DEF Typed
  <2>2. Typed'
    BY <1>7, <2>1 DEF Get, Goto, bucket, Typed, Stage, Final
  <2>3. Staging'
    BY <1>7 DEF Get, Goto, bucket, Typed, Staging, Final
  <2> QED
    BY <2>2, <2>3
<1>8. ASSUME NEW p \in Procs, PutAck(p) PROVE TypeInv'
  <2>1. PutIndex(draft[p]) /\ draft[p] \in Document
    BY <1>8 DEF PutAck, Typed
  <2>2. Typed'
    BY <1>8, <2>1, WriteFacts DEF PutAck, Goto, loop, Typed, Stage, Final
  <2>3. Staging'
    BY <1>8 DEF PutAck, Goto, loop, Typed, Staging, Final
  <2> QED
    BY <2>2, <2>3
<1>9. ASSUME NEW p \in Procs, PutConflict(p) PROVE TypeInv'
  <2>1. attempt[p] + 1 \in 0..MaxAttempts
    <3>1. attempt[p] \in 0..MaxAttempts /\ attempt[p] < MaxAttempts
      BY <1>9 DEF PutConflict, Typed, Staging, Final
    <3>2. MaxAttempts \in Nat
      BY RegistryAssumption
    <3> QED
      BY <3>1, <3>2
  <2>2. Typed'
    BY <1>9, <2>1 DEF PutConflict, Goto, bucket, Typed, Stage, Final
  <2>3. Staging'
    BY <1>9, <2>1, RegistryAssumption DEF PutConflict, Goto, bucket, Typed, Staging, Final
  <2> QED
    BY <2>2, <2>3
<1>10. ASSUME NEW p \in Procs, Delete(p) PROVE TypeInv'
  <2>1. Typed'
    BY <1>10 DEF Delete, DeleteObject, Goto, loop, Typed, Stage, Final
  <2>2. Staging'
    BY <1>10 DEF Delete, DeleteObject, Goto, loop, Typed, Staging, Final
  <2> QED
    BY <2>1, <2>2
<1>11. ASSUME NEW p \in Procs, Abort(p) PROVE TypeInv'
  BY <1>11 DEF Abort, Goto, loop, bucket, Typed, Staging, Stage, Final
<1>12. ASSUME NEW p \in Procs, AnswerLost(p) PROVE TypeInv'
  <2> USE <1>12 DEF AnswerLost
  <2>1. losses' \in 0..MaxLosses
    BY RegistryAssumption DEF Typed
  <2>2. Staging'
    BY DEF loop, Staging
  <2>3. CASE pc[p] = "upload" /\ PutArtifact(cmd[p].staged[uploaded[p] + 1])
                /\ clock' = clock + 1 /\ UNCHANGED index
    <3> DEFINE art == cmd[p].staged[uploaded[p] + 1]
    <3>1. art.key \in Key /\ [sha |-> art.sha, modified |-> clock + 1] \in Object
      BY <2>3, UploadFacts
    <3>2. objects' = [objects EXCEPT ![art.key] = [sha |-> art.sha, modified |-> clock + 1]]
      BY <2>3 DEF PutArtifact
    <3> HIDE DEF art
    <3> QED
      BY <2>1, <2>2, <2>3, <3>1, <3>2 DEF loop, Typed
  <2>4. CASE PutIndex(draft[p])
    <3>1. draft[p] \in Document
      BY DEF Typed
    <3> QED
      BY <2>1, <2>2, <2>4, <3>1, WriteFacts DEF loop, Typed
  <2>5. CASE (\E k \in doomed[p] : DeleteObject(k)) /\ UNCHANGED <<index, clock>>
    BY <2>1, <2>2, <2>5 DEF DeleteObject, loop, Typed
  <2> QED
    BY <2>3, <2>4, <2>5
<1>13. CASE Done
  BY <1>1, <1>13 DEF Done
<1> QED
  BY <1>1, <1>2, <1>3, <1>4, <1>5, <1>6, <1>7, <1>8, <1>9, <1>10, <1>11, <1>12, <1>13
     DEF Next, Step, Fault

---------------------------------------------------------------------------
(* No lost update.  The ETag names the document it was read with: a write   *)
(* gives the index either a tag newer than any that was ever read, or the   *)
(* tag it had, and then the document it had.                                *)

EtagsPast == index.etag <= clock /\ \A p \in Procs : etag[p] <= clock

CasInv == TypeInv /\ EtagsPast /\ NoLostUpdate

\* A pending write stays good as time passes.
LEMMA PendingWrite ==
    ASSUME Typed, NoLostUpdate, NEW p \in Procs, pc[p] = "put", etag[p] = index.etag,
           ~Reindexes(p), NEW later \in Nat, clock <= later
    PROVE  \E now \in 1..later+1 : draft[p] = Mutate(cmd[p], index.doc, draft[p], now)
<1>1. PICK now \in 1..clock+1 : draft[p] = Mutate(cmd[p], index.doc, draft[p], now)
  BY DEF NoLostUpdate
<1>2. clock \in Nat
  BY DEF Typed
<1>3. now \in 1..later+1
  BY <1>2
<1> QED
  BY <1>1, <1>3

\* A step that leaves the index and a pending write alone keeps the write good.
LEMMA PendingWriteKept ==
    ASSUME Typed, clock' \in Nat, clock <= clock', NEW p \in Procs, NoLostUpdate,
           cmd' = cmd, index'.doc = index.doc, pc[p] = "put", etag[p] = index.etag,
           ~Reindexes(p), draft'[p] = draft[p]
    PROVE  \E now \in 1..clock'+1 : draft'[p] = Mutate(cmd'[p], index'.doc, draft'[p], now)
BY PendingWrite

\* So does any write of the index: it is refused, or has changed nothing.
LEMMA WriteKeepsPending ==
    ASSUME CasInv, NEW doc \in Document, PutIndex(doc), cmd' = cmd,
           NEW p \in Procs, pc[p] = "put", etag'[p] = etag[p], draft'[p] = draft[p],
           etag'[p] = index'.etag, ~Reindexes(p)
    PROVE  \E now \in 1..clock'+1 : draft'[p] = Mutate(cmd'[p], index'.doc, draft'[p], now)
<1>1. Typed /\ EtagsPast /\ NoLostUpdate
  BY DEF CasInv, TypeInv
<1>2. /\ clock' = clock + 1
      /\ index'.doc = doc
      /\ \/ index'.etag = clock + 1
         \/ index'.etag = index.etag /\ doc = index.doc
  BY <1>1, WriteFacts
<1>3. etag[p] \in Nat /\ clock \in Nat /\ etag[p] <= clock
  BY <1>1 DEF Typed, EtagsPast
<1>4. index'.etag = index.etag /\ index'.doc = index.doc
  BY <1>2, <1>3
<1>5. etag[p] = index.etag
  BY <1>4
<1>6. clock' \in Nat /\ clock <= clock'
  BY <1>2, <1>3
<1> QED
  BY <1>1, <1>4, <1>5, <1>6, PendingWriteKept

LEMMA StepCasInv == CasInv /\ [Next]_vars => CasInv'
<1> SUFFICES ASSUME CasInv, [Next]_vars PROVE CasInv'
  OBVIOUS
<1>1. TypeInv' /\ Typed /\ Typed' /\ EtagsPast /\ NoLostUpdate
  BY StepTypeInv DEF CasInv, TypeInv
<1>2. CASE UNCHANGED vars
  <2>1. EtagsPast' /\ NoLostUpdate'
    BY <1>1, <1>2 DEF vars, EtagsPast, NoLostUpdate, Reindexes
  <2> QED
    BY <1>1, <2>1 DEF CasInv
<1>3. ASSUME NEW p \in Procs, Upload(p) \/ Scan(p) \/ List(p) \/ Current(p)
                              \/ Hash(p) \/ Delete(p) \/ Abort(p) \/ PutConflict(p)
      PROVE  CasInv'
  <2>1. /\ index' = index /\ etag' = etag /\ cmd' = cmd
        /\ clock' \in Nat /\ clock <= clock'
    BY <1>1, <1>3 DEF Upload, Scan, List, Current, Hash, Delete, Abort, PutConflict,
                      bucket, loop, Typed
  <2>2. \A q \in Procs : pc'[q] = "put" => pc[q] = "put" /\ draft'[q] = draft[q]
    <3>1. \A q \in Procs : q # p => pc'[q] = pc[q] /\ draft'[q] = draft[q]
      BY <1>1, <1>3 DEF Upload, Scan, List, Current, Hash, Delete, Abort, PutConflict,
                        loop, Goto, Typed
    <3>2. pc'[p] # "put"
      BY <1>1, <1>3 DEF Upload, Scan, List, Current, Hash, Delete, Abort, PutConflict,
                        Goto, Typed
    <3> QED
      BY <3>1, <3>2
  <2>3. EtagsPast'
    BY <1>1, <2>1 DEF EtagsPast, Typed
  <2>4. NoLostUpdate'
    <3> SUFFICES ASSUME NEW q \in Procs, pc'[q] = "put", etag'[q] = index'.etag,
                        ~Reindexes(q)'
                 PROVE  \E now \in 1..clock'+1 :
                          draft'[q] = Mutate(cmd'[q], index'.doc, draft'[q], now)
      BY DEF NoLostUpdate
    <3>1. ~Reindexes(q)
      BY <2>1 DEF Reindexes
    <3> QED
      BY <1>1, <2>1, <2>2, <3>1, PendingWriteKept
  <2> QED
    BY <1>1, <2>3, <2>4 DEF CasInv
<1>4. ASSUME NEW p \in Procs, Get(p) PROVE CasInv'
  <2>1. index' = index /\ clock' = clock /\ cmd' = cmd
    BY <1>4 DEF Get, bucket
  <2>2. etag' = [etag EXCEPT ![p] = index.etag]
    BY <1>4 DEF Get
  <2>3. EtagsPast'
    BY <1>1, <2>1, <2>2 DEF EtagsPast, Typed
  <2>4. NoLostUpdate'
    <3> SUFFICES ASSUME NEW q \in Procs, pc'[q] = "put", etag'[q] = index'.etag,
                        ~Reindexes(q)'
                 PROVE  \E now \in 1..clock'+1 :
                          draft'[q] = Mutate(cmd'[q], index'.doc, draft'[q], now)
      BY DEF NoLostUpdate
    <3>1. ~Reindexes(q) /\ clock \in Nat
      BY <1>1, <2>1 DEF Reindexes, Typed
    <3>2. CASE q = p
      <4>1. draft'[p] = Mutate(cmd[p], index.doc, draft[p], clock + 1)
        BY <1>1, <1>4 DEF Get, Typed
      <4>2. \A x, y : Mutate(cmd[p], index.doc, x, clock + 1)
                     = Mutate(cmd[p], index.doc, y, clock + 1)
        BY <1>1, <3>1, <3>2 DEF Mutate, Reindexes, Typed, Command, Publish, Rm, Reindex
      <4>3. draft'[p] = Mutate(cmd[p], index.doc, draft'[p], clock + 1)
        BY <4>1, <4>2
      <4> QED
        BY <2>1, <3>1, <3>2, <4>3
    <3>3. CASE q # p
      <4>1. pc[q] = "put" /\ draft'[q] = draft[q] /\ etag[q] = index.etag
        BY <1>1, <1>4, <2>1, <2>2, <3>3 DEF Get, Goto, Typed
      <4> QED
        BY <1>1, <2>1, <3>1, <4>1, PendingWriteKept
    <3> QED
      BY <3>2, <3>3
  <2> QED
    BY <1>1, <2>3, <2>4 DEF CasInv
<1>5. ASSUME NEW p \in Procs, PutIndex(draft[p]), UNCHANGED <<cmd, etag, draft>>,
             \A q \in Procs : pc'[q] = "put" => pc[q] = "put"
      PROVE  CasInv'
  <2>1. draft[p] \in Document
    BY <1>1 DEF Typed
  <2>2. clock' = clock + 1 /\ (index'.etag = clock + 1 \/ index'.etag = index.etag)
    BY <1>1, <1>5, <2>1, WriteFacts
  <2>3. EtagsPast'
    BY <1>1, <1>5, <2>2 DEF EtagsPast, Typed
  <2>4. NoLostUpdate'
    <3> SUFFICES ASSUME NEW q \in Procs, pc'[q] = "put", etag'[q] = index'.etag,
                        ~Reindexes(q)'
                 PROVE  \E now \in 1..clock'+1 :
                          draft'[q] = Mutate(cmd'[q], index'.doc, draft'[q], now)
      BY DEF NoLostUpdate
    <3>1. ~Reindexes(q) /\ pc[q] = "put" /\ etag'[q] = etag[q] /\ draft'[q] = draft[q]
      BY <1>5 DEF Reindexes
    <3> QED
      BY <1>5, <2>1, <3>1, WriteKeepsPending
  <2> QED
    BY <1>1, <2>3, <2>4 DEF CasInv
<1>6. ASSUME NEW p \in Procs, PutAck(p) PROVE CasInv'
  <2>1. \A q \in Procs : pc'[q] = "put" => pc[q] = "put"
    BY <1>1, <1>6 DEF PutAck, Goto, Typed
  <2> QED
    BY <1>5, <1>6, <2>1 DEF PutAck, loop
<1>7. ASSUME NEW p \in Procs, AnswerLost(p) PROVE CasInv'
  <2>1. CASE PutIndex(draft[p])
    BY <1>5, <1>7, <2>1 DEF AnswerLost, loop
  <2>2. CASE ~PutIndex(draft[p])
    <3>1. /\ index' = index /\ etag' = etag /\ cmd' = cmd /\ pc' = pc /\ draft' = draft
          /\ clock' \in Nat /\ clock <= clock'
      BY <1>1, <1>7, <2>2 DEF AnswerLost, loop, Typed
    <3>2. EtagsPast'
      BY <1>1, <3>1 DEF EtagsPast, Typed
    <3>3. NoLostUpdate'
      <4> SUFFICES ASSUME NEW q \in Procs, pc'[q] = "put", etag'[q] = index'.etag,
                          ~Reindexes(q)'
                   PROVE  \E now \in 1..clock'+1 :
                            draft'[q] = Mutate(cmd'[q], index'.doc, draft'[q], now)
        BY DEF NoLostUpdate
      <4>1. ~Reindexes(q)
        BY <3>1 DEF Reindexes
      <4> QED
        BY <1>1, <3>1, <4>1, PendingWriteKept
    <3> QED
      BY <1>1, <3>2, <3>3 DEF CasInv
  <2> QED
    BY <2>1, <2>2
<1>8. CASE Done
  BY <1>2, <1>8 DEF Done
<1> QED
  BY <1>2, <1>3, <1>4, <1>6, <1>7, <1>8 DEF Next, Step, Fault

LEMMA InitCasInv == Init => CasInv
<1> SUFFICES ASSUME Init PROVE CasInv
  OBVIOUS
<1>1. TypeInv
  BY InitTypeInv
<1>2. PICK s \in Scenarios : InitBucket(s.bucket) /\ cmd = s.work
  BY DEF Init
<1>3. index.etag <= clock /\ clock \in Nat
  BY <1>2, InitBucketTyped, RegistryAssumption
<1>4. EtagsPast
  BY <1>3 DEF Init, EtagsPast
<1>5. \A p \in Procs : pc[p] # "put"
  BY <1>1 DEF Init, FirstCall, TypeInv, Typed, Command, Publish, Rm, Reindex
<1> QED
  BY <1>1, <1>4, <1>5 DEF CasInv, NoLostUpdate

\* The invariant of the conditional write (publish.go:195-217): no command holds an
\* ETag that is yet to come, so one that still matches names the document that was
\* read with it.
THEOREM CasCorrect == Spec => []CasInv
BY InitCasInv, StepCasInv, PTL DEF Spec

\* Whatever the interleaving, a conditional write that goes through writes the
\* command applied to the document it replaces.
THEOREM NoUpdateLost == Spec => []NoLostUpdate
<1>1. CasInv => NoLostUpdate
  BY DEF CasInv
<1> QED
  BY <1>1, CasCorrect, PTL

---------------------------------------------------------------------------
(* The write loop implements one indivisible change of the index.  Besides  *)
(* CasInv this needs that what a reindex has rebuilt is a catalogue.        *)

\* The abstract specification computes with the same documents.
LEMMA SameDocuments ==
    /\ Atomic!Slot = Slot
    /\ \A doc, staged, now : Atomic!UpsertAll(doc, staged, now) = UpsertAll(doc, staged, now)
    /\ \A doc, slots, now : Atomic!Remove(doc, slots, now) = Remove(doc, slots, now)
<1>1. Atomic!Slot = Slot
  BY DEF Atomic!Slot, Slot
<1>2. ASSUME NEW doc, NEW staged, NEW now
      PROVE  Atomic!UpsertAll(doc, staged, now) = UpsertAll(doc, staged, now)
  <2>1. Atomic!Landed(staged) = Landed(staged)
    BY DEF Atomic!Landed, Landed
  <2>2. \A v \in Versions : Atomic!HasVersion(doc, v) <=> HasVersion(doc, v)
    BY <1>1 DEF Atomic!HasVersion, HasVersion
  <2>3. \A s \in Slot : Atomic!LandsIn(staged, s) <=> LandsIn(staged, s)
    BY <2>1 DEF Atomic!LandsIn, LandsIn
  <2>4. Atomic!UpsertAll(doc, staged, now).created = UpsertAll(doc, staged, now).created
    BY <2>1, <2>2 DEF Atomic!UpsertAll, UpsertAll
  <2>5. Atomic!UpsertAll(doc, staged, now).arts = UpsertAll(doc, staged, now).arts
    BY <1>1, <2>1, <2>3 DEF Atomic!UpsertAll, UpsertAll
  <2> QED
    BY <2>4, <2>5 DEF Atomic!UpsertAll, UpsertAll
<1>3. \A doc, slots, now : Atomic!Remove(doc, slots, now) = Remove(doc, slots, now)
  BY <1>1 DEF Atomic!Remove, Remove
<1> QED
  BY <1>1, <1>2, <1>3

Rebuilt == \A p \in Procs : Reindexes(p) => Atomic!WellFormed(draft[p])

RefinementInv == CasInv /\ Rebuilt

LEMMA StepRebuilt == RefinementInv /\ [Next]_vars => Rebuilt'
<1> SUFFICES ASSUME RefinementInv, [Next]_vars, NEW q \in Procs, Reindexes(q)'
             PROVE  Atomic!WellFormed(draft'[q])
  BY DEF Rebuilt
<1>1. Typed /\ Rebuilt
  BY DEF RefinementInv, CasInv, TypeInv
<1>2. cmd' = cmd
  BY DEF Next, vars, Done, Step, Fault, Upload, Scan, List, Current, Hash, Get, PutAck,
         PutConflict, Delete, Abort, AnswerLost
<1>3. Reindexes(q) /\ Atomic!WellFormed(draft[q])
  BY <1>1, <1>2 DEF Reindexes, Rebuilt
<1>4. CASE Hash(q)
  <2>1. PICK r \in listed[q] :
          \/ draft' = draft
          \/ draft' = [draft EXCEPT ![q] =
                 Rebuild(@, [key |-> r.key, sha |-> objects[r.key].sha],
                         stamps[q][r.key.slot.version], clock + 1)]
    BY <1>4 DEF Hash
  <2>2. draft[q] \in Document /\ r.key.slot \in Slot
    BY <1>1 DEF Typed, Listing, Key
  <2> DEFINE art == [key |-> r.key, sha |-> objects[r.key].sha]
             new == Rebuild(draft[q], art, stamps[q][r.key.slot.version], clock + 1)
  <2>3. new.arts = [draft[q].arts EXCEPT ![r.key.slot] = art] /\ art.key.slot = r.key.slot
    BY DEF Rebuild
  <2>4. Atomic!WellFormed(new)
    <3> HIDE DEF new
    <3> QED
      BY <1>3, <2>2, <2>3, SameDocuments DEF Atomic!WellFormed, Document
  <2> QED
    BY <1>1, <1>3, <2>1, <2>4 DEF Typed
<1>5. CASE Get(q)
  <2>1. Mutate(cmd[q], index.doc, draft[q], clock + 1) = draft[q]
    BY <1>3 DEF Mutate, Reindexes
  <2> QED
    BY <1>1, <1>3, <1>5, <2>1 DEF Get, Typed
<1>6. CASE ~Hash(q) /\ ~Get(q)
  <2>1. draft'[q] = draft[q]
    <3>1. CASE \E p \in Procs : Hash(p) \/ Get(p)
      <4>1. PICK p \in Procs : p # q /\ (Hash(p) \/ Get(p))
        BY <1>6, <3>1
      <4>2. draft' = draft \/ \E x : draft' = [draft EXCEPT ![p] = x]
        BY <4>1 DEF Hash, Get
      <4> QED
        BY <1>1, <4>1, <4>2 DEF Typed
    <3>2. CASE \E p \in Procs : Upload(p) \/ Scan(p) \/ List(p) \/ Current(p)
                 \/ PutAck(p) \/ PutConflict(p) \/ Delete(p) \/ Abort(p) \/ AnswerLost(p)
      BY <3>2 DEF Upload, Scan, List, Current, PutAck, PutConflict, Delete, Abort,
                  AnswerLost, loop
    <3>3. CASE UNCHANGED vars
      BY <3>3 DEF vars
    <3> QED
      BY <3>1, <3>2, <3>3 DEF Next, Step, Fault, Done
  <2> QED
    BY <1>3, <2>1
<1> QED
  BY <1>4, <1>5, <1>6

LEMMA InitRefinement == Init => RefinementInv /\ Atomic!AInit
<1> SUFFICES ASSUME Init PROVE RefinementInv /\ Atomic!AInit
  OBVIOUS
<1>1. CasInv
  BY InitCasInv
<1>2. Rebuilt
  BY SameDocuments DEF Init, Rebuilt, Atomic!WellFormed, New
<1>3. Atomic!WellFormed(index.doc)
  <2>1. PICK s \in Scenarios : InitBucket(s.bucket) /\ cmd = s.work
    BY DEF Init
  <2>2. index.doc \in Document /\ index.doc.arts = s.bucket.arts /\ IsCatalogue(s.bucket.arts)
    BY <2>1, InitBucketTyped, RegistryAssumption
  <2> QED
    BY <2>2, SameDocuments DEF IsCatalogue, Atomic!WellFormed
<1>4. \A p \in Procs : pc[p] \in {"upload", "scan", "list"}
  BY <1>1 DEF Init, FirstCall, CasInv, TypeInv, Typed, Command, Publish, Rm, Reindex
<1>5. \A p \in Procs : Outcome(p) = "pending"
  BY <1>4 DEF Outcome
<1> QED
  BY <1>1, <1>2, <1>3, <1>5 DEF RefinementInv, Atomic!AInit

\* The write that goes through makes the change the command stands for.
LEMMA WriteIsEffect ==
    ASSUME RefinementInv, NEW p \in Procs, pc[p] = "put", etag[p] = index.etag,
           PutIndex(draft[p])
    PROVE  Atomic!Effect(cmd[p])
<1>1. Typed /\ NoLostUpdate /\ Rebuilt
  BY DEF RefinementInv, CasInv, TypeInv
<1>2. index'.doc = draft[p]
  BY <1>1, WriteFacts DEF Typed
<1>3. CASE cmd[p].op = "reindex"
  BY <1>1, <1>2, <1>3 DEF Rebuilt, Reindexes, Atomic!Effect
<1>4. CASE cmd[p].op # "reindex"
  <2>1. PICK now \in 1..clock+1 : draft[p] = Mutate(cmd[p], index.doc, draft[p], now)
    BY <1>1, <1>4 DEF NoLostUpdate, Reindexes
  <2>2. CASE cmd[p].op = "publish"
    <3>1. draft[p] = UpsertAll(index.doc, cmd[p].staged, now)
      BY <2>1, <2>2 DEF Mutate
    <3>2. draft[p].updated = now
      BY <3>1 DEF UpsertAll
    <3> QED
      BY <1>2, <2>2, <3>1, <3>2, SameDocuments DEF Atomic!Effect
  <2>3. CASE cmd[p].op = "rm"
    <3>1. draft[p] = Remove(index.doc, cmd[p].slots, now)
      BY <2>1, <2>3 DEF Mutate
    <3>2. draft[p] = Remove(index.doc, cmd[p].slots, draft[p].updated)
      BY <3>1 DEF Remove
    <3> QED
      BY <1>2, <2>3, <3>2, SameDocuments DEF Atomic!Effect
  <2> QED
    BY <1>1, <1>4, <2>2, <2>3 DEF Typed, Command, Publish, Rm, Reindex
<1> QED
  BY <1>3, <1>4

LEMMA StepRefinement ==
    RefinementInv /\ [Next]_vars => [Atomic!ANext]_(Atomic!avars)
<1> SUFFICES ASSUME RefinementInv, [Next]_vars
             PROVE  Atomic!ANext \/ UNCHANGED Atomic!avars
  OBVIOUS
<1> DEFINE outcome == [q \in Procs |-> Outcome(q)]
<1>1. Typed /\ Staging
  BY DEF RefinementInv, CasInv, TypeInv
<1>2. CASE UNCHANGED vars
  BY <1>2 DEF vars, Atomic!avars, Outcome
<1>3. ASSUME NEW p \in Procs, index' = index, cmd' = cmd,
             \A q \in Procs : q # p => pc'[q] = pc[q],
             Outcome(p)' # Outcome(p) => Outcome(p)' = "failed"
      PROVE  Atomic!ANext \/ UNCHANGED Atomic!avars
  <2>1. \A q \in Procs : q # p => Outcome(q)' = Outcome(q)
    BY <1>3 DEF Outcome
  <2>2. CASE Outcome(p)' = Outcome(p)
    BY <1>3, <2>1, <2>2 DEF Atomic!avars
  <2>3. CASE Outcome(p)' # Outcome(p)
    <3>1. outcome' = [outcome EXCEPT ![p] = "failed"] /\ outcome[p] # "failed"
      BY <1>3, <2>1, <2>3
    <3>2. Atomic!Fail(p)
      BY <1>3, <3>1 DEF Atomic!Fail
    <3> QED
      BY <3>2 DEF Atomic!ANext
  <2> QED
    BY <2>2, <2>3
<1>4. ASSUME NEW p \in Procs, Upload(p) \/ Scan(p) \/ List(p) \/ Current(p)
                              \/ Hash(p) \/ Get(p) \/ PutConflict(p)
      PROVE  Atomic!ANext \/ UNCHANGED Atomic!avars
  <2>1. index' = index /\ cmd' = cmd /\ \A q \in Procs : q # p => pc'[q] = pc[q]
    BY <1>1, <1>4 DEF Upload, Scan, List, Current, Hash, Get, PutConflict, bucket, Goto, Typed
  <2>2. /\ pc[p] \in {"upload", "scan", "list", "current", "hash", "get", "put"}
        /\ pc'[p] \in {"upload", "scan", "list", "current", "hash", "get", "put",
                       "failed", "contended"}
    BY <1>1, <1>4 DEF Upload, Scan, List, Current, Hash, Get, PutConflict, Goto, Typed
  <2>3. Outcome(p) = "pending" /\ Outcome(p)' \in {"pending", "failed"}
    BY <2>2 DEF Outcome
  <2> QED
    BY <1>3, <2>1, <2>3
<1>5. ASSUME NEW p \in Procs, Delete(p) PROVE Atomic!ANext \/ UNCHANGED Atomic!avars
  <2>1. index' = index /\ cmd' = cmd /\ \A q \in Procs : q # p => pc'[q] = pc[q]
    BY <1>1, <1>5 DEF Delete, DeleteObject, Goto, Typed
  <2>2. pc[p] = "delete" /\ pc'[p] \in {"delete", "ok"}
    BY <1>1, <1>5 DEF Delete, DeleteObject, Goto, Typed
  <2>3. Outcome(p)' = Outcome(p)
    BY <2>2 DEF Outcome
  <2> QED
    BY <1>3, <2>1, <2>3
<1>6. ASSUME NEW p \in Procs, Abort(p) PROVE Atomic!ANext \/ UNCHANGED Atomic!avars
  <2>1. index' = index /\ cmd' = cmd /\ \A q \in Procs : q # p => pc'[q] = pc[q]
    BY <1>1, <1>6 DEF Abort, bucket, Goto, Typed
  <2>2. pc'[p] = "failed"
    BY <1>1, <1>6 DEF Abort, Goto, Typed
  <2>3. Outcome(p)' = "failed"
    BY <2>2 DEF Outcome
  <2> QED
    BY <1>3, <2>1, <2>3
<1>7. ASSUME NEW p \in Procs, pc[p] = "put", etag[p] = index.etag, PutIndex(draft[p]),
             cmd' = cmd, \A q \in Procs : q # p => pc'[q] = pc[q],
             pc'[p] \in {"put", "ok", "delete"}
      PROVE  Atomic!ANext
  <2>1. Atomic!Effect(cmd[p])
    BY <1>7, WriteIsEffect
  <2>2. \A q \in Procs : q # p => Outcome(q)' = Outcome(q)
    BY <1>7 DEF Outcome
  <2>3. Outcome(p) = "pending" /\ Outcome(p)' \in {"pending", "applied"}
    BY <1>7 DEF Outcome
  <2>4. outcome' = [outcome EXCEPT ![p] = Outcome(p)'] /\ outcome[p] = "pending"
    BY <2>2, <2>3
  <2>5. Atomic!Apply(p)
    BY <1>7, <2>1, <2>3, <2>4 DEF Atomic!Apply
  <2> QED
    BY <2>5 DEF Atomic!ANext
<1>8. ASSUME NEW p \in Procs, PutAck(p) PROVE Atomic!ANext
  <2>1. pc'[p] \in {"ok", "delete"} /\ \A q \in Procs : q # p => pc'[q] = pc[q]
    BY <1>1, <1>8 DEF PutAck, Goto, Typed
  <2> QED
    BY <1>7, <1>8, <2>1 DEF PutAck
<1>9. ASSUME NEW p \in Procs, AnswerLost(p) PROVE Atomic!ANext \/ UNCHANGED Atomic!avars
  <2>1. pc' = pc /\ cmd' = cmd
    BY <1>9 DEF AnswerLost
  <2>2. CASE pc[p] = "put"
    <3>1. etag[p] = index.etag /\ PutIndex(draft[p])
      BY <1>9, <2>2 DEF AnswerLost
    <3> QED
      BY <1>7, <2>1, <2>2, <3>1
  <2>3. CASE pc[p] # "put"
    <3>1. index' = index
      BY <1>9, <2>3 DEF AnswerLost
    <3> QED
      BY <2>1, <3>1 DEF Atomic!avars, Outcome
  <2> QED
    BY <2>2, <2>3
<1>10. CASE Done
  BY <1>2, <1>10 DEF Done
<1> QED
  BY <1>2, <1>4, <1>5, <1>6, <1>8, <1>9, <1>10 DEF Next, Step, Fault

\* Every command changes the index in one indivisible step between its start and
\* its end, on whatever the index has become by then.
THEOREM Refinement == Spec => AtomicSpec
<1>1. RefinementInv /\ [Next]_vars => RefinementInv'
  BY StepCasInv, StepRebuilt DEF RefinementInv
<1> QED
  BY <1>1, InitRefinement, StepRefinement, PTL DEF Spec, AtomicSpec, Atomic!ASpec


---------------------------------------------------------------------------
(* What a mutation of the document does to one entry. *)

\* Of the artifacts that land there is one for a slot: the last that was staged.
LEMMA LandedUnique ==
    ASSUME NEW staged \in Seq(Artifact), NEW a \in Landed(staged), NEW b \in Landed(staged),
           a.key.slot = b.key.slot
    PROVE  a = b
<1>1. PICK i \in DOMAIN staged :
        /\ a = staged[i]
        /\ \A k \in DOMAIN staged : k > i => staged[k].key.slot # staged[i].key.slot
  BY DEF Landed
<1>2. PICK j \in DOMAIN staged :
        /\ b = staged[j]
        /\ \A k \in DOMAIN staged : k > j => staged[k].key.slot # staged[j].key.slot
  BY DEF Landed
<1>3. i \in Nat /\ j \in Nat
  OBVIOUS
<1>4. ~(i > j) /\ ~(j > i)
  BY <1>1, <1>2
<1> QED
  BY <1>1, <1>2, <1>3, <1>4

LEMMA UpsertAllEntry ==
    ASSUME NEW doc \in Document, NEW staged \in Seq(Artifact), NEW now, NEW s \in Slot
    PROVE  LET entry == UpsertAll(doc, staged, now).arts[s]
           IN  /\ LandsIn(staged, s) => entry \in Landed(staged) /\ entry.key.slot = s
               /\ ~LandsIn(staged, s) => entry = doc.arts[s]
               /\ \A a \in Landed(staged) : a.key.slot = s => entry = a
<1> DEFINE entry == UpsertAll(doc, staged, now).arts[s]
<1>1. entry = IF LandsIn(staged, s)
              THEN CHOOSE a \in Landed(staged) : a.key.slot = s
              ELSE doc.arts[s]
  BY DEF UpsertAll
<1>2. LandsIn(staged, s) => entry \in Landed(staged) /\ entry.key.slot = s
  <2> HIDE DEF entry
  <2> QED
    BY <1>1 DEF LandsIn
<1>3. ASSUME NEW a \in Landed(staged), a.key.slot = s PROVE entry = a
  <2> HIDE DEF entry
  <2> QED
    BY <1>2, <1>3, LandedUnique DEF LandsIn
<1> QED
  BY <1>1, <1>2, <1>3

LEMMA RemoveEntry ==
    ASSUME NEW doc \in Document, NEW slots \in SUBSET Slot, NEW now, NEW s \in Slot
    PROVE  /\ s \in slots => Remove(doc, slots, now).arts[s] = None
           /\ s \notin slots => Remove(doc, slots, now).arts[s] = doc.arts[s]
BY DEF Remove

---------------------------------------------------------------------------
(* What one step does to the index. *)

LEMMA CmdStep == [Next]_vars => cmd' = cmd
BY DEF Next, vars, Done, Step, Fault, Upload, Scan, List, Current, Hash, Get, PutAck,
       PutConflict, Delete, Abort, AnswerLost

LEMMA CommandFields ==
    ASSUME Typed, NEW p \in Procs
    PROVE  /\ cmd[p].op \in {"publish", "rm", "reindex"}
           /\ cmd[p].op = "publish" => cmd[p].staged \in Seq(Artifact)
           /\ cmd[p].op = "rm" => cmd[p].slots \in SUBSET Slot
BY DEF Typed, Command, Publish, Rm, Reindex

\* The index is left alone, or written by a command that is at its write.
LEMMA IndexStep ==
    ASSUME Typed, [Next]_vars
    PROVE  \/ index' = index
           \/ \E p \in Procs : /\ pc[p] = "put" /\ etag[p] = index.etag
                               /\ PutIndex(draft[p])
                               /\ PutAck(p) \/ pc' = pc
<1>1. CASE \E p \in Procs : PutAck(p)
  BY <1>1 DEF PutAck
<1>2. CASE \E p \in Procs : AnswerLost(p)
  BY <1>2 DEF AnswerLost
<1>3. CASE \E p \in Procs : Upload(p) \/ Scan(p) \/ List(p) \/ Current(p) \/ Hash(p)
             \/ Get(p) \/ PutConflict(p) \/ Delete(p) \/ Abort(p)
  BY <1>3 DEF Upload, Scan, List, Current, Hash, Get, PutConflict, Delete, Abort, bucket
<1>4. CASE UNCHANGED vars
  BY <1>4 DEF vars
<1> QED
  BY <1>1, <1>2, <1>3, <1>4 DEF Next, Step, Fault, Done

\* A write that goes through does to an entry what its command asks for.
LEMMA WriteEntry ==
    ASSUME RefinementInv, NEW p \in Procs, pc[p] = "put", etag[p] = index.etag,
           PutIndex(draft[p]), NEW s \in Slot
    PROVE  /\ Publishes(p, s) => /\ Entry(s)' \in Landed(cmd[p].staged)
                                 /\ Entry(s)'.key.slot = s
           /\ cmd[p].op = "publish" =>
                \A a \in Landed(cmd[p].staged) : a.key.slot = s => Entry(s)' = a
           /\ Removes(p, s) => Entry(s)' = None
           /\ Reindexes(p) => Entry(s)' = draft[p].arts[s]
           /\ ~Publishes(p, s) /\ ~Removes(p, s) /\ ~Reindexes(p) => Entry(s)' = Entry(s)
<1>1. Typed /\ NoLostUpdate
  BY DEF RefinementInv, CasInv, TypeInv
<1>2. index'.doc = draft[p] /\ index.doc \in Document
  BY <1>1, WriteFacts DEF Typed
<1>3. Entry(s)' = draft[p].arts[s] /\ Entry(s) = index.doc.arts[s]
  BY <1>2 DEF Entry
<1>4. CASE Reindexes(p)
  BY <1>3, <1>4 DEF Reindexes, Publishes, Removes
<1>5. CASE ~Reindexes(p)
  <2>1. PICK now \in 1..clock+1 : draft[p] = Mutate(cmd[p], index.doc, draft[p], now)
    BY <1>1, <1>5 DEF NoLostUpdate
  <2>2. CASE cmd[p].op = "publish"
    <3>1. draft[p] = UpsertAll(index.doc, cmd[p].staged, now)
      BY <2>1, <2>2 DEF Mutate
    <3>2. cmd[p].staged \in Seq(Artifact)
      BY <1>1, <2>2, CommandFields
    <3> QED
      BY <1>2, <1>3, <2>2, <3>1, <3>2, UpsertAllEntry DEF Publishes, Removes, Reindexes
  <2>3. CASE cmd[p].op = "rm"
    <3>1. draft[p] = Remove(index.doc, cmd[p].slots, now)
      BY <2>1, <2>3 DEF Mutate
    <3>2. cmd[p].slots \in SUBSET Slot
      BY <1>1, <2>3, CommandFields
    <3> QED
      BY <1>2, <1>3, <2>3, <3>1, <3>2, RemoveEntry DEF Publishes, Removes, Reindexes
  <2> QED
    BY <1>1, <1>5, <2>2, <2>3, CommandFields DEF Reindexes
<1> QED
  BY <1>4, <1>5

\* An entry changes only by the write of a command that is about it.
LEMMA EntryStep ==
    ASSUME RefinementInv, [Next]_vars, NEW s \in Slot
    PROVE  \/ Entry(s)' = Entry(s)
           \/ \E p \in Procs : /\ pc[p] = "put"
                               /\ \/ /\ Publishes(p, s)
                                     /\ Entry(s)' \in Landed(cmd[p].staged)
                                     /\ Entry(s)'.key.slot = s
                                  \/ Removes(p, s) /\ Entry(s)' = None
                                  \/ Reindexes(p) /\ Entry(s)' = draft[p].arts[s]
<1>1. Typed
  BY DEF RefinementInv, CasInv, TypeInv
<1>2. CASE index' = index
  BY <1>2 DEF Entry
<1>3. CASE \E p \in Procs : pc[p] = "put" /\ etag[p] = index.etag /\ PutIndex(draft[p])
  BY <1>3, WriteEntry
<1> QED
  BY <1>1, <1>2, <1>3, IndexStep

\* The same for what the commands are about.
LEMMA AboutStep ==
    ASSUME [Next]_vars, NEW p, NEW s
    PROVE  /\ Publishes(p, s)' <=> Publishes(p, s)
           /\ Removes(p, s)' <=> Removes(p, s)
           /\ Reindexes(p)' <=> Reindexes(p)
           /\ Uploads(p, s)' <=> Uploads(p, s)
BY CmdStep DEF Publishes, Removes, Reindexes, Uploads

\* Success is the answer to the write, or for rm to the last deletion.
LEMMA SuccessStep ==
    ASSUME TypeInv, [Next]_vars, NEW p \in Procs, pc'[p] \in {"delete", "ok"}
    PROVE  \/ pc[p] \in {"delete", "ok"} /\ (pc'[p] # pc[p] => cmd[p].op = "rm")
           \/ PutAck(p)
<1>1. Typed /\ Staging
  BY DEF TypeInv
<1>2. ASSUME NEW q \in Procs, \/ Upload(q) \/ Scan(q) \/ List(q) \/ Current(q) \/ Hash(q)
                              \/ Get(q) \/ PutConflict(q) \/ Abort(q)
      PROVE  pc'[p] = pc[p]
  BY <1>1, <1>2 DEF Upload, Scan, List, Current, Hash, Get, PutConflict, Abort, Goto, Typed
<1>3. ASSUME NEW q \in Procs, Delete(q)
      PROVE  pc[p] \in {"delete", "ok"} /\ (pc'[p] # pc[p] => cmd[p].op = "rm")
  BY <1>1, <1>3 DEF Delete, Goto, Typed, Staging
<1>4. ASSUME NEW q \in Procs, PutAck(q) PROVE PutAck(p) \/ pc'[p] = pc[p]
  BY <1>1, <1>4 DEF PutAck, Goto, Typed
<1>5. CASE UNCHANGED pc
  BY <1>5
<1> QED
  BY <1>2, <1>3, <1>4, <1>5 DEF Next, Step, Fault, Done, vars, AnswerLost

---------------------------------------------------------------------------
(* Success means that the change was made and, other commands aside, stays. *)

LEMMA InitIdle ==
    ASSUME Init, NEW p \in Procs
    PROVE  pc[p] \in {"upload", "scan", "list"}
BY InitTypeInv, CommandFields DEF Init, FirstCall, TypeInv, Typed

LEMMA StepAckedPublish ==
    RefinementInv /\ AckedPublishIndexed /\ [Next]_vars => AckedPublishIndexed'
<1> SUFFICES ASSUME RefinementInv, AckedPublishIndexed, [Next]_vars,
                    NEW p \in Procs, (cmd[p].op = "publish")', (pc[p] = "ok")',
                    NEW a, (a \in Landed(cmd[p].staged))'
             PROVE  (\/ Entry(a.key.slot) = a
                     \/ \E q \in Procs \ {p} :
                          \/ Reindexes(q)
                          \/ Removes(q, a.key.slot)
                          \/ Publishes(q, a.key.slot))'
  BY DEF AckedPublishIndexed
<1> DEFINE s == a.key.slot
<1>1. TypeInv /\ Typed
  BY DEF RefinementInv, CasInv, TypeInv
<1>2. cmd[p].op = "publish" /\ a \in Landed(cmd[p].staged)
  BY CmdStep
<1>3. s \in Slot
  BY <1>1, <1>2, CommandFields, LandedStaged DEF Artifact, Key
<1> HIDE DEF s
<1>4. CASE PutAck(p)
  <2>1. Entry(s)' = a
    BY <1>2, <1>3, <1>4, WriteEntry DEF PutAck, s
  <2> QED
    BY <2>1 DEF s
<1>5. CASE pc[p] = "ok"
  <2>1. \/ Entry(s) = a
        \/ \E q \in Procs \ {p} : Reindexes(q) \/ Removes(q, s) \/ Publishes(q, s)
    BY <1>2, <1>5 DEF AckedPublishIndexed, s
  <2>2. \/ Entry(s)' = Entry(s)
        \/ \E q \in Procs \ {p} : Reindexes(q) \/ Removes(q, s) \/ Publishes(q, s)
    BY <1>3, <1>5, EntryStep
  <2>3. \/ Entry(s)' = a
        \/ \E q \in Procs \ {p} : (Reindexes(q) \/ Removes(q, s) \/ Publishes(q, s))'
    BY <2>1, <2>2, AboutStep
  <2> QED
    BY <2>3 DEF s
<1>6. PutAck(p) \/ pc[p] = "ok"
  BY <1>1, <1>2, SuccessStep
<1> QED
  BY <1>4, <1>5, <1>6

LEMMA RefinementInvariant == Spec => []RefinementInv
<1>1. RefinementInv /\ [Next]_vars => RefinementInv'
  BY StepCasInv, StepRebuilt DEF RefinementInv
<1> QED
  BY <1>1, InitRefinement, PTL DEF Spec

\* A publish whose write was answered finds every artifact it staged in the index
\* from then on, unless another command was asked to change the slot (README.md:50-51).
THEOREM PublishStaysIndexed == Spec => []AckedPublishIndexed
<1>1. Init => AckedPublishIndexed
  BY InitIdle DEF AckedPublishIndexed
<1> QED
  BY <1>1, StepAckedPublish, RefinementInvariant, PTL DEF Spec

\* What rm may count on already while it deletes the objects.
RmGone ==
    \A p \in Procs, s \in Slot :
      /\ pc[p] \in {"delete", "ok"}
      /\ Removes(p, s)
      => \/ Entry(s) = None
         \/ \E q \in Procs : Publishes(q, s) \/ Reindexes(q)

LEMMA StepRmGone == RefinementInv /\ RmGone /\ [Next]_vars => RmGone'
<1> SUFFICES ASSUME RefinementInv, RmGone, [Next]_vars,
                    NEW p \in Procs, NEW s \in Slot,
                    pc'[p] \in {"delete", "ok"}, Removes(p, s)'
             PROVE  \/ Entry(s)' = None
                    \/ \E q \in Procs : (Publishes(q, s) \/ Reindexes(q))'
  BY DEF RmGone
<1>1. TypeInv
  BY DEF RefinementInv, CasInv
<1>2. Removes(p, s)
  BY AboutStep
<1>3. CASE PutAck(p)
  BY <1>2, <1>3, WriteEntry DEF PutAck
<1>4. CASE pc[p] \in {"delete", "ok"}
  <2>1. Entry(s) = None \/ \E q \in Procs : Publishes(q, s) \/ Reindexes(q)
    BY <1>2, <1>4 DEF RmGone
  <2>2. \/ Entry(s)' = Entry(s) \/ Entry(s)' = None
        \/ \E q \in Procs : Publishes(q, s) \/ Reindexes(q)
    BY EntryStep
  <2> QED
    BY <2>1, <2>2, AboutStep
<1> QED
  BY <1>1, <1>3, <1>4, SuccessStep

LEMMA RmGoneInvariant == Spec => []RmGone
<1>1. Init => RmGone
  BY InitIdle DEF RmGone
<1> QED
  BY <1>1, StepRmGone, RefinementInvariant, PTL DEF Spec

\* After an rm that reported success the entries it named are not in the index,
\* unless another command was asked to put them there (README.md:132).
THEOREM RmStaysGone == Spec => []AckedRmGone
<1>1. RmGone => AckedRmGone
  BY DEF RmGone, AckedRmGone
<1> QED
  BY <1>1, RmGoneInvariant, PTL

---------------------------------------------------------------------------
(* Where no answer is lost nobody has to give up: every attempt that p loses *)
(* is lost to the one write of another invocation, so p has lost no more     *)
(* attempts than there are others that have written.                         *)

Written == { q \in Procs : pc[q] \in {"delete", "ok"} }

AttemptsCounted ==
    \A p \in Procs :
      /\ attempt[p] <= Cardinality(Written)
      /\ pc[p] = "put" /\ etag[p] # index.etag => attempt[p] < Cardinality(Written)

Uncontended == TypeInv /\ AttemptsCounted /\ NeverContended

\* What has been written stays written; a write adds its invocation.
LEMMA WrittenStep ==
    ASSUME IsFiniteSet(Procs), TypeInv, [ReliableNext]_vars
    PROVE  /\ IsFiniteSet(Written) /\ IsFiniteSet(Written')
           /\ Cardinality(Written) \in Nat /\ Cardinality(Written') \in Nat
           /\ Written \subseteq Written'
           /\ Cardinality(Written) <= Cardinality(Written')
           /\ (\E p \in Procs : PutAck(p)) => Cardinality(Written') = Cardinality(Written) + 1
<1>1. Typed
  BY DEF TypeInv
<1>2. /\ IsFiniteSet(Written) /\ IsFiniteSet(Written')
      /\ Cardinality(Written) \in Nat /\ Cardinality(Written') \in Nat
  <2>1. Written \subseteq Procs /\ Written' \subseteq Procs
    BY DEF Written
  <2> QED
    BY <2>1, FS_Subset, FS_CardinalityType
<1>3. Written \subseteq Written'
  <2>1. ASSUME NEW p \in Procs, NEW q \in Procs, Step(p), pc[q] \in {"delete", "ok"}
        PROVE  pc'[q] \in {"delete", "ok"}
    BY <1>1, <2>1 DEF Step, Upload, Scan, List, Current, Hash, Get, PutAck, PutConflict,
                      Delete, Goto, Typed
  <2> QED
    BY <2>1 DEF Written, ReliableNext, Done, vars
<1>4. Cardinality(Written) <= Cardinality(Written')
  BY <1>2, <1>3, FS_Subset
<1>5. ASSUME NEW p \in Procs, PutAck(p)
      PROVE  Cardinality(Written') = Cardinality(Written) + 1
  <2>1. Written' = Written \cup {p} /\ p \notin Written
    BY <1>1, <1>5 DEF Written, PutAck, Goto, Typed
  <2> QED
    BY <1>2, <2>1, FS_AddElement
<1> QED
  BY <1>2, <1>3, <1>4, <1>5

LEMMA StepUncontended ==
    IsFiniteSet(Procs) /\ Uncontended /\ [ReliableNext]_vars => Uncontended'
<1> SUFFICES ASSUME IsFiniteSet(Procs), Uncontended, [ReliableNext]_vars PROVE Uncontended'
  OBVIOUS
<1>1. TypeInv /\ Typed /\ Staging /\ AttemptsCounted /\ NeverContended
  BY DEF Uncontended, TypeInv
<1>2. [Next]_vars
  BY DEF ReliableNext, Next
<1>3. TypeInv'
  BY <1>1, <1>2, StepTypeInv
<1>4. /\ Cardinality(Written) \in Nat /\ Cardinality(Written') \in Nat
      /\ Cardinality(Written) <= Cardinality(Written')
  BY <1>1, WrittenStep
<1>5. AttemptsCounted'
  <2> SUFFICES ASSUME NEW p \in Procs
               PROVE  /\ attempt'[p] <= Cardinality(Written')
                      /\ pc'[p] = "put" /\ etag'[p] # index'.etag
                            => attempt'[p] < Cardinality(Written')
    BY DEF AttemptsCounted
  <2>1. /\ attempt[p] \in Nat /\ attempt[p] <= Cardinality(Written)
        /\ pc[p] = "put" /\ etag[p] # index.etag => attempt[p] < Cardinality(Written)
    BY <1>1 DEF AttemptsCounted, Typed
  <2>2. CASE Get(p)
    BY <1>1, <1>4, <2>1, <2>2 DEF Get, bucket, Typed
  <2>3. CASE PutConflict(p)
    <3>1. attempt'[p] = attempt[p] + 1 /\ pc'[p] # "put" /\ attempt[p] < Cardinality(Written)
      BY <1>1, <2>1, <2>3 DEF PutConflict, Goto, Typed
    <3> QED
      BY <1>4, <2>1, <3>1
  <2>4. CASE \E q \in Procs : PutAck(q)
    <3>1. attempt' = attempt
      BY <2>4 DEF PutAck, loop
    <3>2. Cardinality(Written') = Cardinality(Written) + 1
      BY <1>1, <2>4, WrittenStep
    <3> QED
      BY <1>4, <2>1, <3>1, <3>2
  <2>5. ASSUME NEW q \in Procs,
               \/ Upload(q) \/ Scan(q) \/ List(q) \/ Current(q) \/ Hash(q) \/ Delete(q)
               \/ q # p /\ (Get(q) \/ PutConflict(q))
        PROVE  /\ attempt'[p] = attempt[p] /\ etag'[p] = etag[p] /\ index' = index
               /\ pc'[p] = "put" => pc[p] = "put"
    BY <1>1, <2>5 DEF Upload, Scan, List, Current, Hash, Delete, Get, PutConflict, Goto,
                      loop, bucket, Typed
  <2>6. CASE UNCHANGED vars
    BY <1>4, <2>1, <2>6 DEF vars
  <2> QED
    BY <1>4, <2>1, <2>2, <2>3, <2>4, <2>5, <2>6 DEF ReliableNext, Step, Done
<1>6. NeverContended'
  <2> SUFFICES ASSUME Cardinality(Procs) <= MaxAttempts, NEW p \in Procs, pc'[p] = "contended"
               PROVE  FALSE
    BY DEF NeverContended
  <2>1. pc[p] # "contended"
    BY <1>1 DEF NeverContended
  <2>2. PutConflict(p)
    <3>1. ASSUME NEW q \in Procs, Upload(q) \/ Scan(q) \/ List(q) \/ Current(q) \/ Hash(q)
                                 \/ Get(q) \/ PutAck(q) \/ Delete(q)
          PROVE  pc'[p] # "contended"
      BY <1>1, <2>1, <3>1 DEF Upload, Scan, List, Current, Hash, Get, PutAck, Delete, Goto, Typed
    <3>2. ASSUME NEW q \in Procs, PutConflict(q) PROVE q = p
      BY <1>1, <2>1, <3>2 DEF PutConflict, Goto, Typed
    <3> QED
      BY <2>1, <3>1, <3>2 DEF ReliableNext, Step, Done, vars
  <2>3. pc[p] = "put" /\ attempt[p] < Cardinality(Written) /\ attempt[p] + 1 = MaxAttempts
    <3>1. pc'[p] = "contended" => attempt[p] + 1 = MaxAttempts
      BY <1>1, <2>2 DEF PutConflict, Goto, Typed
    <3> QED
      BY <1>1, <2>2, <3>1 DEF PutConflict, AttemptsCounted
  <2>4. Written \subseteq Procs \ {p}
    BY <2>3 DEF Written
  <2>5. Cardinality(Written) <= Cardinality(Procs) - 1 /\ Cardinality(Procs) \in Nat
    <3>1. IsFiniteSet(Procs \ {p}) /\ Cardinality(Procs \ {p}) = Cardinality(Procs) - 1
      BY FS_RemoveElement
    <3>2. Cardinality(Written) <= Cardinality(Procs \ {p})
      BY <2>4, <3>1, FS_Subset
    <3> QED
      BY <3>1, <3>2, FS_CardinalityType
  <2>6. attempt[p] \in Nat /\ MaxAttempts \in Nat
    BY <1>1, RegistryAssumption DEF Typed
  <2> QED
    BY <1>4, <2>3, <2>5, <2>6
<1> QED
  BY <1>3, <1>5, <1>6 DEF Uncontended

\* Where S3 answers every call no command reports contention, as long as there are
\* no more invocations than attempts (publish.go:197-216, reindex.go:87-105).
THEOREM EnoughAttempts ==
    ASSUME IsFiniteSet(Procs)
    PROVE  ReliableSpec => []NeverContended
<1>1. Init => Uncontended
  <2> SUFFICES ASSUME Init PROVE Uncontended
    OBVIOUS
  <2>1. TypeInv
    BY InitTypeInv
  <2>2. \A p \in Procs : pc[p] \in {"upload", "scan", "list"}
    BY InitIdle
  <2>3. Written = {}
    BY <2>2 DEF Written
  <2>4. \A p \in Procs : attempt[p] <= Cardinality(Written)
    BY <2>3, FS_EmptySet DEF Init
  <2> QED
    BY <2>1, <2>2, <2>4 DEF Uncontended, AttemptsCounted, NeverContended
<1>2. Uncontended => NeverContended
  BY DEF Uncontended
<1> QED
  BY <1>1, <1>2, StepUncontended, PTL DEF ReliableSpec
=============================================================================
