---------------------------- MODULE ObjectProofs ----------------------------
(***************************************************************************)
(* The index against the objects it names.  Nothing but the order of the   *)
(* calls keeps the two together: publish uploads before it writes the      *)
(* index, rm deletes after it, reindex writes what it saw.                 *)
(***************************************************************************)
EXTENDS RegistryProofs

---------------------------------------------------------------------------
(* Vocabulary *)

IndexWellFormed == Atomic!WellFormed(index.doc)

\* What rm collected is of the slots it was to remove.
DoomedNamed == \A p \in Procs : \A k \in doomed[p] : Removes(p, k.slot)

\* The index is not read before all is uploaded.
UploadsFirst ==
    \A p \in Procs :
      cmd[p].op = "publish" /\ pc[p] \in {"get", "put"} => uploaded[p] = Len(cmd[p].staged)

PresentOrRemoved(k) == objects[k] # NoObject \/ \E q \in Procs : Removes(q, k.slot)

UploadsKept ==
    \A p \in Procs : cmd[p].op = "publish" =>
      \A i \in DOMAIN cmd[p].staged :
        i <= uploaded[p] => PresentOrRemoved(cmd[p].staged[i].key)

RebuiltKept ==
    \A p \in Procs, s \in Slot :
      Reindexes(p) /\ draft[p].arts[s] # None => PresentOrRemoved(draft[p].arts[s].key)

PresenceInv ==
    /\ RefinementInv
    /\ RmGone
    /\ IndexWellFormed
    /\ DoomedNamed
    /\ UploadsFirst
    /\ UploadsKept
    /\ RebuiltKept
    /\ EntryHasObject

Shared(k) ==
    \E p, q \in Procs : p # q /\ Uploads(p, k) /\ (Uploads(q, k) \/ Reindexes(q))

\* The i-th staged artifact of p is the last that p has put at its key, and the
\* upload under way is of another key.
LatestUpload(p, i) ==
    /\ i <= uploaded[p]
    /\ \A j \in DOMAIN cmd[p].staged :
         i < j /\ j <= uploaded[p] + 1 => cmd[p].staged[j].key # cmd[p].staged[i].key

GoneOrAsIndexed(art) == objects[art.key] = NoObject \/ objects[art.key].sha = art.sha

UploadedAs ==
    \A p \in Procs : cmd[p].op = "publish" =>
      \A i \in DOMAIN cmd[p].staged :
        LatestUpload(p, i) => \/ GoneOrAsIndexed(cmd[p].staged[i])
                              \/ Shared(cmd[p].staged[i].key)

RebuiltAs ==
    \A p \in Procs, s \in Slot :
      Reindexes(p) /\ draft[p].arts[s] # None =>
        \/ GoneOrAsIndexed(draft[p].arts[s])
        \/ \E q \in Procs : Uploads(q, draft[p].arts[s].key)

DigestInv == PresenceInv /\ UploadedAs /\ RebuiltAs /\ DigestMatches

---------------------------------------------------------------------------
(* What one step does to the objects, to what is collected for deletion, to  *)
(* what is uploaded and to what a reindex rebuilds.                          *)

LEMMA ObjectStep ==
    ASSUME TypeInv, [Next]_vars, NEW k \in Key
    PROVE  \/ objects'[k] = objects[k]
           \/ \E p \in Procs :
                LET art == cmd[p].staged[uploaded[p] + 1]
                IN  /\ pc[p] = "upload"
                    /\ k = art.key
                    /\ objects'[k] = [sha |-> art.sha, modified |-> clock + 1]
                    /\ index' = index
                    /\ Upload(p) \/ uploaded' = uploaded
           \/ \E p \in Procs :
                /\ pc[p] = "delete"
                /\ k \in doomed[p]
                /\ objects'[k] = NoObject
                /\ index' = index
<1>1. Typed
  BY DEF TypeInv
<1>2. ASSUME NEW p \in Procs, pc[p] = "upload", index' = index,
             PutArtifact(cmd[p].staged[uploaded[p] + 1])
      PROVE  \/ objects'[k] = objects[k]
             \/ LET art == cmd[p].staged[uploaded[p] + 1]
                IN  k = art.key /\ objects'[k] = [sha |-> art.sha, modified |-> clock + 1]
  BY <1>1, <1>2 DEF PutArtifact, Typed
<1>3. ASSUME NEW p \in Procs, NEW l \in doomed[p], DeleteObject(l)
      PROVE  objects'[k] = objects[k] \/ (k \in doomed[p] /\ objects'[k] = NoObject)
  BY <1>1, <1>3 DEF DeleteObject, Typed
<1>4. CASE \E p \in Procs : Upload(p)
  BY <1>2, <1>4 DEF Upload
<1>5. CASE \E p \in Procs : Delete(p)
  BY <1>3, <1>5 DEF Delete
<1>6. ASSUME NEW p \in Procs, AnswerLost(p), objects'[k] # objects[k]
      PROVE  \/ /\ pc[p] = "upload" /\ index' = index /\ uploaded' = uploaded
                /\ PutArtifact(cmd[p].staged[uploaded[p] + 1])
             \/ /\ pc[p] = "delete" /\ index' = index
                /\ \E l \in doomed[p] : DeleteObject(l)
  BY <1>6 DEF AnswerLost, PutIndex
<1>7. CASE \E p \in Procs : AnswerLost(p)
  BY <1>2, <1>3, <1>6, <1>7
<1>8. CASE \E p \in Procs : Scan(p) \/ List(p) \/ Current(p) \/ Hash(p) \/ Get(p)
             \/ PutAck(p) \/ PutConflict(p) \/ Abort(p)
  BY <1>8 DEF Scan, List, Current, Hash, Get, PutAck, PutConflict, Abort, bucket, PutIndex
<1>9. CASE UNCHANGED vars
  BY <1>9 DEF vars
<1> QED
  BY <1>4, <1>5, <1>7, <1>8, <1>9 DEF Next, Step, Fault, Done

LEMMA PresentStep ==
    ASSUME TypeInv, DoomedNamed, [Next]_vars, NEW k \in Key, PresentOrRemoved(k)
    PROVE  objects'[k] # NoObject \/ \E q \in Procs : Removes(q, k.slot)
<1>1. CASE \E q \in Procs : Removes(q, k.slot)
  BY <1>1
<1>2. CASE objects[k] # NoObject /\ ~\E q \in Procs : Removes(q, k.slot)
  <2>1. ASSUME NEW p \in Procs, pc[p] = "upload"
        PROVE  [sha |-> cmd[p].staged[uploaded[p] + 1].sha, modified |-> clock + 1] # NoObject
    BY <2>1, UploadFacts, RegistryAssumption
  <2>2. \A p \in Procs : k \notin doomed[p]
    BY <1>2 DEF DoomedNamed
  <2>3. objects'[k] # NoObject
    BY <1>2, <2>1, <2>2, ObjectStep
  <2> QED
    BY <2>3
<1> QED
  BY <1>1, <1>2 DEF PresentOrRemoved

LEMMA DoomedStep ==
    ASSUME TypeInv, [Next]_vars, NEW p \in Procs
    PROVE  doomed'[p] \subseteq doomed[p] \/ Scan(p)
<1>1. Typed
  BY DEF TypeInv
<1>2. ASSUME NEW q \in Procs, Scan(q) PROVE doomed'[p] \subseteq doomed[p] \/ Scan(p)
  BY <1>1, <1>2 DEF Scan, Typed
<1>3. ASSUME NEW q \in Procs, Delete(q) PROVE doomed'[p] \subseteq doomed[p]
  BY <1>1, <1>3 DEF Delete, Typed
<1>4. ASSUME NEW q \in Procs, \/ Upload(q) \/ List(q) \/ Current(q) \/ Hash(q) \/ Get(q)
                              \/ PutAck(q) \/ PutConflict(q) \/ Abort(q) \/ AnswerLost(q)
      PROVE  doomed' = doomed
  BY <1>4 DEF Upload, List, Current, Hash, Get, PutAck, PutConflict, Abort, AnswerLost
<1> QED
  BY <1>2, <1>3, <1>4 DEF Next, Step, Fault, Done, vars

LEMMA UploadedStep ==
    ASSUME TypeInv, [Next]_vars, NEW p \in Procs
    PROVE  \/ Upload(p)
           \/ /\ uploaded'[p] = uploaded[p]
              /\ pc'[p] \in {"get", "put"} =>
                   pc[p] \in {"get", "put"} \/ cmd[p].op # "publish"
<1>1. Typed /\ Staging
  BY DEF TypeInv
<1>2. ASSUME NEW q \in Procs, Upload(q)
      PROVE  Upload(p) \/ (uploaded'[p] = uploaded[p] /\ pc'[p] = pc[p])
  BY <1>1, <1>2 DEF Upload, Goto, Typed
<1>3. ASSUME NEW q \in Procs, \/ Scan(q) \/ List(q) \/ Current(q) \/ Hash(q) \/ Get(q)
                              \/ PutAck(q) \/ PutConflict(q) \/ Delete(q) \/ Abort(q)
      PROVE  /\ uploaded' = uploaded
             /\ pc'[p] \in {"get", "put"} =>
                  pc[p] \in {"get", "put"} \/ cmd[p].op # "publish"
  BY <1>1, <1>3 DEF Scan, List, Current, Hash, Get, PutAck, PutConflict, Delete, Abort, Goto,
                    Typed, Staging
<1>4. CASE UNCHANGED <<pc, uploaded>>
  BY <1>4
<1> QED
  BY <1>2, <1>3, <1>4 DEF Next, Step, Fault, Done, vars, AnswerLost

LEMMA DraftStep ==
    ASSUME RefinementInv, [Next]_vars, NEW p \in Procs, Reindexes(p)
    PROVE  \/ draft'[p] = draft[p]
           \/ \E r \in listed[p] :
                /\ Hash(p)
                /\ \A q \in listed[p] : ~Before(q.key, r.key)
                /\ r \in Listing /\ r.key \in Key /\ r.key.slot \in Slot
                /\ objects[r.key] # NoObject
                /\ [key |-> r.key, sha |-> objects[r.key].sha] \in Artifact
                /\ draft'[p] = Rebuild(draft[p], [key |-> r.key, sha |-> objects[r.key].sha],
                                       stamps[p][r.key.slot.version], clock + 1)
                /\ listed' = [listed EXCEPT ![p] = @ \ {r}]
                /\ IF listed[p] = {r} THEN Goto(p, "get") ELSE UNCHANGED pc
<1>1. Typed
  BY DEF RefinementInv, CasInv, TypeInv
<1>2. CASE Hash(p)
  <2>1. PICK r \in listed[p] :
          /\ \A q \in listed[p] : ~Before(q.key, r.key)
          /\ \/ UNCHANGED draft
             \/ /\ objects[r.key] # NoObject
                /\ draft' = [draft EXCEPT ![p] =
                     Rebuild(@, [key |-> r.key, sha |-> objects[r.key].sha],
                             stamps[p][r.key.slot.version], clock + 1)]
                /\ listed' = [listed EXCEPT ![p] = @ \ {r}]
                /\ IF listed[p] = {r} THEN Goto(p, "get") ELSE UNCHANGED pc
    BY <1>2 DEF Hash
  <2>2. CASE UNCHANGED draft
    BY <2>2
  <2>3. CASE ~UNCHANGED draft
    <3>1. r \in Listing /\ r.key \in Key /\ r.key.slot \in Slot
      BY <1>1 DEF Typed, Listing, Key
    <3>2. objects[r.key] \in Object
      BY <1>1, <2>1, <2>3, <3>1 DEF Typed
    <3>3. [key |-> r.key, sha |-> objects[r.key].sha] \in Artifact
      BY <3>1, <3>2 DEF Artifact, Object
    <3>4. draft'[p] = Rebuild(draft[p], [key |-> r.key, sha |-> objects[r.key].sha],
                              stamps[p][r.key.slot.version], clock + 1)
      BY <1>1, <2>1, <2>3 DEF Typed
    <3> QED
      BY <1>2, <2>1, <2>3, <3>1, <3>3, <3>4
  <2> QED
    BY <2>2, <2>3
<1>3. CASE Get(p)
  <2>1. Mutate(cmd[p], index.doc, draft[p], clock + 1) = draft[p]
    BY DEF Mutate, Reindexes
  <2> QED
    BY <1>1, <1>3, <2>1 DEF Get, Typed
<1>4. ASSUME NEW q \in Procs, q # p, Hash(q) \/ Get(q) PROVE draft'[p] = draft[p]
  <2>1. draft' = draft \/ \E x : draft' = [draft EXCEPT ![q] = x]
    BY <1>4 DEF Hash, Get
  <2> QED
    BY <1>1, <1>4, <2>1 DEF Typed
<1>5. ASSUME NEW q \in Procs, \/ Upload(q) \/ Scan(q) \/ List(q) \/ Current(q) \/ PutAck(q)
                              \/ PutConflict(q) \/ Delete(q) \/ Abort(q) \/ AnswerLost(q)
      PROVE  draft' = draft
  BY <1>5 DEF Upload, Scan, List, Current, PutAck, PutConflict, Delete, Abort, AnswerLost, loop
<1> QED
  BY <1>2, <1>3, <1>4, <1>5 DEF Next, Step, Fault, Done, vars

---------------------------------------------------------------------------
(* The index names no object that is gone. *)

LEMMA StepIndexWellFormed ==
    RefinementInv /\ IndexWellFormed /\ [Next]_vars => IndexWellFormed'
<1> SUFFICES ASSUME RefinementInv, IndexWellFormed, [Next]_vars,
                    NEW s \in Slot, Entry(s)' # None
             PROVE  Entry(s)'.key.slot = s
  BY SameDocuments DEF IndexWellFormed, Atomic!WellFormed, Entry
<1>1. CASE Entry(s)' = Entry(s)
  BY <1>1, SameDocuments DEF IndexWellFormed, Atomic!WellFormed, Entry
<1>2. ASSUME NEW p \in Procs, Reindexes(p), Entry(s)' = draft[p].arts[s]
      PROVE  Entry(s)'.key.slot = s
  BY <1>2, SameDocuments DEF RefinementInv, Rebuilt, Atomic!WellFormed
<1> QED
  BY <1>1, <1>2, EntryStep

LEMMA StepDoomedNamed ==
    RefinementInv /\ IndexWellFormed /\ DoomedNamed /\ [Next]_vars => DoomedNamed'
<1> SUFFICES ASSUME RefinementInv, IndexWellFormed, DoomedNamed, [Next]_vars,
                    NEW p \in Procs, NEW k \in doomed'[p]
             PROVE  Removes(p, k.slot)'
  BY DEF DoomedNamed
<1>1. TypeInv /\ Typed /\ Staging
  BY DEF RefinementInv, CasInv, TypeInv
<1>2. CASE k \in doomed[p]
  BY <1>2, AboutStep DEF DoomedNamed
<1>3. CASE Scan(p)
  <2>1. cmd[p].op = "rm"
    BY <1>1, <1>3 DEF Scan, Staging
  <2>2. cmd[p].slots \in SUBSET Slot
    BY <1>1, <2>1, CommandFields
  <2>3. PICK s \in cmd[p].slots : index.doc.arts[s] # None /\ k = index.doc.arts[s].key
    BY <1>1, <1>3 DEF Scan, Typed
  <2>4. k.slot = s
    BY <2>2, <2>3, SameDocuments DEF IndexWellFormed, Atomic!WellFormed
  <2> QED
    BY <2>1, <2>3, <2>4, AboutStep DEF Removes
<1> QED
  BY <1>1, <1>2, <1>3, DoomedStep

LEMMA StepUploadsFirst == TypeInv /\ UploadsFirst /\ [Next]_vars => UploadsFirst'
<1> SUFFICES ASSUME TypeInv, UploadsFirst, [Next]_vars, NEW p \in Procs,
                    cmd'[p].op = "publish", pc'[p] \in {"get", "put"}
             PROVE  uploaded'[p] = Len(cmd'[p].staged)
  BY DEF UploadsFirst
<1>1. Typed /\ cmd' = cmd
  BY CmdStep DEF TypeInv
<1>2. CASE Upload(p)
  BY <1>1, <1>2 DEF Upload, Goto, Typed
<1>3. CASE ~Upload(p)
  BY <1>1, <1>3, UploadedStep DEF UploadsFirst
<1> QED
  BY <1>2, <1>3

\* What the i-th upload of p is.
LEMMA StagedKey ==
    ASSUME Typed, NEW p \in Procs, cmd[p].op = "publish", NEW i \in DOMAIN cmd[p].staged
    PROVE  /\ i \in Nat
           /\ cmd[p].staged[i] \in Artifact
           /\ cmd[p].staged[i].key \in Key
           /\ cmd[p].staged[i].key.slot \in Slot
<1>1. cmd[p].staged \in Seq(Artifact)
  BY CommandFields
<1>2. i \in Nat /\ cmd[p].staged[i] \in Artifact
  BY <1>1
<1> QED
  BY <1>2 DEF Artifact, Key

LEMMA StepUploadsKept ==
    TypeInv /\ DoomedNamed /\ UploadsKept /\ [Next]_vars => UploadsKept'
<1> SUFFICES ASSUME TypeInv, DoomedNamed, UploadsKept, [Next]_vars, NEW p \in Procs,
                    (cmd[p].op = "publish")', NEW i, (i \in DOMAIN cmd[p].staged)',
                    (i <= uploaded[p])'
             PROVE  PresentOrRemoved(cmd[p].staged[i].key)'
  BY DEF UploadsKept
<1>1. /\ Typed /\ cmd' = cmd
      /\ cmd[p].op = "publish" /\ i \in DOMAIN cmd[p].staged
  BY CmdStep DEF TypeInv
<1> DEFINE k == cmd[p].staged[i].key
<1>2. i \in Nat /\ k \in Key
  BY <1>1, StagedKey
<1>3. CASE i <= uploaded[p]
  <2>1. objects'[k] # NoObject \/ \E q \in Procs : Removes(q, k.slot)
    BY <1>1, <1>2, <1>3, PresentStep DEF UploadsKept
  <2> QED
    BY <1>1, <2>1 DEF PresentOrRemoved, Removes
<1>4. CASE Upload(p) /\ ~(i <= uploaded[p])
  <2>1. uploaded'[p] = uploaded[p] + 1 /\ uploaded[p] \in Nat
    BY <1>1, <1>4 DEF Upload, Typed
  <2>2. i = uploaded[p] + 1
    BY <1>2, <1>4, <2>1
  <2>3. objects'[k] = [sha |-> cmd[p].staged[i].sha, modified |-> clock + 1]
    BY <1>1, <1>2, <1>4, <2>2 DEF Upload, PutArtifact, Typed
  <2>4. objects'[k] # NoObject
    BY <1>4, <2>2, <2>3, UploadFacts, RegistryAssumption DEF Upload
  <2> QED
    BY <1>1, <2>4 DEF PresentOrRemoved
<1> QED
  BY <1>1, <1>3, <1>4, UploadedStep

\* What Rebuild changes of a document.
LEMMA RebuildEntry ==
    ASSUME NEW doc \in Document, NEW art \in Artifact, NEW stamp, NEW now, NEW s \in Slot
    PROVE  Rebuild(doc, art, stamp, now).arts[s] = IF s = art.key.slot THEN art ELSE doc.arts[s]
BY DEF Rebuild, Document

LEMMA DraftEntryType ==
    ASSUME Typed, NEW p \in Procs, NEW s \in Slot, draft[p].arts[s] # None
    PROVE  draft[p].arts[s] \in Artifact /\ draft[p].arts[s].key \in Key
BY DEF Typed, Document, Artifact

LEMMA StepRebuiltKept ==
    RefinementInv /\ DoomedNamed /\ RebuiltKept /\ [Next]_vars => RebuiltKept'
<1> SUFFICES ASSUME RefinementInv, DoomedNamed, RebuiltKept, [Next]_vars, NEW p \in Procs,
                    NEW s \in Slot, Reindexes(p)', (draft[p].arts[s] # None)'
             PROVE  PresentOrRemoved(draft[p].arts[s].key)'
  BY DEF RebuiltKept
<1>1. TypeInv /\ Typed /\ Reindexes(p) /\ cmd' = cmd
  BY CmdStep, AboutStep DEF RefinementInv, CasInv, TypeInv
<1>2. CASE draft'[p].arts[s] = draft[p].arts[s]
  <2> DEFINE k == draft[p].arts[s].key
  <2>1. k \in Key /\ PresentOrRemoved(k)
    BY <1>1, <1>2, DraftEntryType DEF RebuiltKept
  <2>2. objects'[k] # NoObject \/ \E q \in Procs : Removes(q, k.slot)
    BY <1>1, <2>1, PresentStep
  <2> QED
    BY <1>1, <1>2, <2>2 DEF PresentOrRemoved, Removes
<1>3. CASE draft'[p].arts[s] # draft[p].arts[s]
  <2>1. PICK r \in listed[p] :
          /\ Hash(p)
          /\ r.key \in Key
          /\ objects[r.key] # NoObject
          /\ [key |-> r.key, sha |-> objects[r.key].sha] \in Artifact
          /\ draft'[p] = Rebuild(draft[p], [key |-> r.key, sha |-> objects[r.key].sha],
                                 stamps[p][r.key.slot.version], clock + 1)
    BY <1>1, <1>3, DraftStep
  <2>2. draft'[p].arts[s].key = r.key
    BY <1>1, <1>3, <2>1, RebuildEntry DEF Typed
  <2>3. objects' = objects
    BY <2>1 DEF Hash, bucket
  <2> QED
    BY <2>1, <2>2, <2>3 DEF PresentOrRemoved
<1> QED
  BY <1>2, <1>3

LEMMA StepEntryHasObject == PresenceInv /\ [Next]_vars => EntryHasObject'
<1> SUFFICES ASSUME PresenceInv, [Next]_vars, NEW s \in Slot, Entry(s)' # None,
                    ~\E p, q \in Procs : (Removes(p, s) /\ (Publishes(q, s) \/ Reindexes(q)))'
             PROVE  objects'[Entry(s)'.key] # NoObject
  BY DEF EntryHasObject
<1>1. TypeInv /\ Typed /\ RefinementInv /\ DoomedNamed
  BY DEF PresenceInv, RefinementInv, CasInv, TypeInv
<1>2. ~\E p, q \in Procs : Removes(p, s) /\ (Publishes(q, s) \/ Reindexes(q))
  BY AboutStep
<1>3. CASE Entry(s)' = Entry(s)
  <2> DEFINE k == Entry(s).key
  <2>1. Entry(s) # None /\ objects[k] # NoObject
    BY <1>2, <1>3 DEF PresenceInv, EntryHasObject
  <2>2. k \in Key /\ k.slot = s
    BY <1>1, <2>1, SameDocuments
       DEF PresenceInv, IndexWellFormed, Atomic!WellFormed, Entry, Typed, Document, Artifact
  <2>3. ASSUME NEW p \in Procs, pc[p] = "delete", k \in doomed[p] PROVE FALSE
    <3>1. Removes(p, s)
      BY <1>1, <2>2, <2>3 DEF DoomedNamed
    <3> QED
      BY <1>2, <2>1, <2>3, <3>1 DEF PresenceInv, RmGone
  <2>4. ASSUME NEW p \in Procs, pc[p] = "upload"
        PROVE  [sha |-> cmd[p].staged[uploaded[p] + 1].sha, modified |-> clock + 1] # NoObject
    BY <1>1, <2>4, UploadFacts, RegistryAssumption
  <2>5. objects'[k] # NoObject
    BY <1>1, <2>1, <2>2, <2>3, <2>4, ObjectStep
  <2> QED
    BY <1>3, <2>5
<1>4. ASSUME Entry(s)' # Entry(s) PROVE objects' = objects
  <2>1. index' # index
    BY <1>4 DEF Entry
  <2> QED
    BY <1>1, <2>1, IndexStep DEF PutIndex
<1>5. ASSUME NEW p \in Procs, pc[p] = "put", Publishes(p, s), Entry(s)' # Entry(s),
             Entry(s)' \in Landed(cmd[p].staged), Entry(s)'.key.slot = s
      PROVE  objects'[Entry(s)'.key] # NoObject
  <2>1. cmd[p].op = "publish"
    BY <1>5 DEF Publishes
  <2>2. PICK i \in DOMAIN cmd[p].staged : Entry(s)' = cmd[p].staged[i]
    BY <1>5 DEF Landed
  <2>3. i <= uploaded[p]
    BY <1>1, <1>5, <2>1, CommandFields DEF PresenceInv, UploadsFirst
  <2>4. PresentOrRemoved(Entry(s)'.key)
    BY <2>1, <2>2, <2>3 DEF PresenceInv, UploadsKept
  <2> QED
    BY <1>2, <1>4, <1>5, <2>4 DEF PresentOrRemoved
<1>6. ASSUME NEW p \in Procs, Reindexes(p), Entry(s)' # Entry(s), Entry(s)' = draft[p].arts[s]
      PROVE  objects'[Entry(s)'.key] # NoObject
  <2>1. PresentOrRemoved(Entry(s)'.key)
    BY <1>6 DEF PresenceInv, RebuiltKept
  <2>2. Entry(s)'.key.slot = s
    BY <1>1, <1>6, SameDocuments DEF RefinementInv, Rebuilt, Atomic!WellFormed
  <2> QED
    BY <1>2, <1>4, <1>6, <2>1, <2>2 DEF PresentOrRemoved
<1> QED
  BY <1>1, <1>3, <1>5, <1>6, EntryStep

\* Before the first command every entry describes its object, and every object
\* is older than the index.
LEMMA InitObjects ==
    ASSUME Init
    PROVE  /\ clock = 2
           /\ \A k \in Key : objects[k] # NoObject => objects[k].modified = 1
           /\ \A s \in Slot : Entry(s) # None =>
                objects[Entry(s).key] = [sha |-> Entry(s).sha, modified |-> 1]
<1>1. PICK scenario \in Scenarios : InitBucket(scenario.bucket) /\ cmd = scenario.work
  BY DEF Init
<1> DEFINE b == scenario.bucket
           stored == b.orphans \cup { b.arts[s] : s \in { t \in Slot : b.arts[t] # None } }
<1>2. /\ IsCatalogue(b.arts) /\ b.orphans \subseteq Artifact
      /\ \A o \in b.orphans : b.arts[o.key.slot] # None => b.arts[o.key.slot].key # o.key
  BY <1>1, RegistryAssumption DEF IsBucket
<1>3. \A s \in Slot : Entry(s) = b.arts[s]
  BY <1>1, <1>2, InitBucketTyped, RegistryAssumption DEF Entry
<1>4. clock = 2 /\ objects = [ k \in Key |->
        IF \E a \in stored : a.key = k
        THEN [sha |-> (CHOOSE a \in stored : a.key = k).sha, modified |-> 1]
        ELSE NoObject ]
  BY <1>1 DEF InitBucket
<1>5. ASSUME NEW s \in Slot, Entry(s) # None
      PROVE  objects[Entry(s).key] = [sha |-> Entry(s).sha, modified |-> 1]
  <2> DEFINE e == Entry(s)
  <2>1. e = b.arts[s] /\ e \in Artifact /\ e.key.slot = s /\ e.key \in Key
    BY <1>2, <1>3, <1>5 DEF IsCatalogue, Artifact
  <2>2. e \in stored
    BY <1>5, <2>1
  <2>3. ASSUME NEW a \in stored, a.key = e.key PROVE a = e
    <3>1. CASE a \in b.orphans
      BY <1>2, <1>5, <2>1, <2>3, <3>1
    <3>2. CASE a \notin b.orphans
      <4>1. PICK t \in Slot : b.arts[t] # None /\ a = b.arts[t]
        BY <3>2
      <4>2. t = s
        BY <1>2, <2>1, <2>3, <4>1 DEF IsCatalogue
      <4> QED
        BY <2>1, <4>1, <4>2
    <3> QED
      BY <3>1, <3>2
  <2> HIDE DEF stored, e
  <2>4. (CHOOSE a \in stored : a.key = e.key) = e
    BY <2>2, <2>3
  <2>5. objects[e.key] = [sha |-> e.sha, modified |-> 1]
    BY <1>4, <2>1, <2>2, <2>4
  <2> QED
    BY <2>5 DEF e
<1>6. ASSUME NEW k \in Key, objects[k] # NoObject PROVE objects[k].modified = 1
  <2> HIDE DEF stored
  <2> QED
    BY <1>4, <1>6
<1> QED
  BY <1>4, <1>5, <1>6

LEMMA InitPresenceInv == Init => PresenceInv
<1> SUFFICES ASSUME Init PROVE PresenceInv
  OBVIOUS
<1>1. RefinementInv /\ IndexWellFormed
  BY InitRefinement DEF Atomic!AInit, IndexWellFormed
<1>2. \A p \in Procs : pc[p] \in {"upload", "scan", "list"}
  BY InitIdle
<1>3. Typed
  BY InitTypeInv DEF TypeInv
<1>4. RmGone /\ UploadsFirst
  BY <1>2 DEF RmGone, UploadsFirst
<1>5. DoomedNamed
  BY DEF Init, DoomedNamed
<1>6. UploadsKept
  <2> SUFFICES ASSUME NEW p \in Procs, cmd[p].op = "publish", NEW i \in DOMAIN cmd[p].staged
               PROVE  ~(i <= uploaded[p])
    BY DEF UploadsKept
  <2>1. cmd[p].staged \in Seq(Artifact) /\ uploaded[p] = 0
    BY <1>3, CommandFields DEF Init
  <2> QED
    BY <2>1
<1>7. RebuiltKept
  BY DEF Init, New, RebuiltKept
<1>8. EntryHasObject
  <2>1. ASSUME NEW s \in Slot, Entry(s) # None PROVE objects[Entry(s).key] # NoObject
    <3>1. Entry(s) \in Artifact
      BY <1>3, <2>1 DEF Typed, Document, Entry
    <3>2. [sha |-> Entry(s).sha, modified |-> 1] \in Object
      BY <3>1 DEF Artifact, Object
    <3> QED
      BY <2>1, <3>2, InitObjects, RegistryAssumption
  <2> QED
    BY <2>1 DEF EntryHasObject
<1> QED
  BY <1>1, <1>4, <1>5, <1>6, <1>7, <1>8 DEF PresenceInv

LEMMA StepPresenceInv == PresenceInv /\ [Next]_vars => PresenceInv'
<1>1. RefinementInv /\ [Next]_vars => RefinementInv'
  BY StepCasInv, StepRebuilt DEF RefinementInv
<1>2. RefinementInv => TypeInv
  BY DEF RefinementInv, CasInv
<1> QED
  BY <1>1, <1>2, StepRmGone, StepIndexWellFormed, StepDoomedNamed, StepUploadsFirst,
     StepUploadsKept, StepRebuiltKept, StepEntryHasObject DEF PresenceInv

LEMMA PresenceInvariant == Spec => []PresenceInv
BY InitPresenceInv, StepPresenceInv, PTL DEF Spec

LEMMA WellFormedState == PresenceInv => TypeOK
<1> SUFFICES ASSUME PresenceInv PROVE TypeOK
  OBVIOUS
<1>1. Typed /\ EtagsPast
  BY DEF PresenceInv, RefinementInv, CasInv, TypeInv
<1>2. \A s \in Slot : Entry(s) # None => Entry(s).key.slot = s
  BY SameDocuments DEF PresenceInv, IndexWellFormed, Atomic!WellFormed, Entry
<1>3. ASSUME NEW p \in Procs, Reindexes(p), NEW s \in Slot, draft[p].arts[s] # None
      PROVE  draft[p].arts[s].key.slot = s
  BY <1>3, SameDocuments DEF PresenceInv, RefinementInv, Rebuilt, Atomic!WellFormed
<1>4. DoomedNamed
  BY DEF PresenceInv
<1> QED
  BY <1>1, <1>2, <1>3, <1>4 DEF TypeOK, EtagsPast, DoomedNamed

\* Every reachable state is well formed: no command holds an ETag from the future, no
\* artifact is in another slot than its key's, and rm deletes nothing but what is of
\* its slots (rm.go:40-59).
THEOREM TypeCorrect == Spec => []TypeOK
BY WellFormedState, PresenceInvariant, PTL

\* Uploading before the index write and deleting after it is enough: no entry names
\* an object that is gone, unless one command removes the slot while another fills
\* it (rm.go:64-65, publish.go:174-192).
THEOREM EntriesHaveObjects == Spec => []EntryHasObject
<1>1. PresenceInv => EntryHasObject
  BY DEF PresenceInv
<1> QED
  BY <1>1, PresenceInvariant, PTL

---------------------------------------------------------------------------
(* An entry's digest is that of the object it names. *)

LEMMA SharedStep == [Next]_vars => \A k : Shared(k)' <=> Shared(k)
BY CmdStep DEF Shared, Uploads, Reindexes

\* A publish that uploads into a slot has an artifact that lands there: the last
\* that it staged for it.
LEMMA UploadsPublishes ==
    ASSUME Typed, NEW p \in Procs, NEW k \in Key, Uploads(p, k)
    PROVE  Publishes(p, k.slot)
<1> DEFINE staged == cmd[p].staged
           n == Len(staged)
           slot == k.slot
           left == { m \in Nat : \E i \in DOMAIN staged :
                                   staged[i].key.slot = slot /\ m = n - i }
<1>1. cmd[p].op = "publish" /\ staged \in Seq(Artifact)
  BY CommandFields DEF Uploads
<1>2. n \in Nat /\ DOMAIN staged = 1..n
  BY <1>1
<1> HIDE DEF staged, n, slot
<1>3. left # {}
  <2>1. PICK i \in DOMAIN staged : staged[i].key = k
    BY DEF Uploads, staged
  <2>2. n - i \in Nat /\ staged[i].key.slot = slot
    BY <1>2, <2>1 DEF slot
  <2> QED
    BY <2>2
<1>4. PICK m \in left : \A l \in left : <<l, m>> \notin OpToRel(<, Nat)
  <2>1. left \subseteq Nat
    OBVIOUS
  <2> HIDE DEF left
  <2> QED
    BY <1>3, <2>1, NatLessThanWellFounded, WFMin, Zenon
<1>5. PICK i \in DOMAIN staged : staged[i].key.slot = slot /\ m = n - i
  OBVIOUS
<1>6. ASSUME NEW j \in DOMAIN staged, j > i, staged[j].key.slot = slot PROVE FALSE
  <2>1. n - j \in left /\ n - j \in Nat /\ m \in Nat /\ n - j < m
    BY <1>2, <1>5, <1>6
  <2>2. <<n - j, m>> \in OpToRel(<, Nat)
    BY <2>1 DEF OpToRel
  <2> QED
    BY <1>4, <2>1, <2>2
<1>7. staged[i] \in Landed(staged)
  BY <1>5, <1>6 DEF Landed
<1> QED
  BY <1>1, <1>5, <1>7 DEF Publishes, LandsIn, staged, slot

\* An artifact that lands is the last that was uploaded at its key.
LEMMA LandedLatest ==
    ASSUME Typed, UploadsFirst, NEW p \in Procs, cmd[p].op = "publish", pc[p] = "put",
           NEW a \in Landed(cmd[p].staged)
    PROVE  \E i \in DOMAIN cmd[p].staged : a = cmd[p].staged[i] /\ LatestUpload(p, i)
<1>1. cmd[p].staged \in Seq(Artifact) /\ uploaded[p] = Len(cmd[p].staged)
  BY CommandFields DEF UploadsFirst
<1>2. PICK i \in DOMAIN cmd[p].staged :
        /\ a = cmd[p].staged[i]
        /\ \A k \in DOMAIN cmd[p].staged :
             k > i => cmd[p].staged[k].key.slot # cmd[p].staged[i].key.slot
  BY DEF Landed
<1> QED
  BY <1>1, <1>2 DEF LatestUpload

\* Bytes change only by an upload, and then the publish has not succeeded yet.
LEMMA BytesStep ==
    ASSUME TypeInv, [Next]_vars, NEW k \in Key,
           objects'[k] # objects[k], objects'[k] # NoObject
    PROVE  \E p \in Procs :
             LET art == cmd[p].staged[uploaded[p] + 1]
             IN  /\ Uploads(p, k)
                 /\ pc'[p] # "ok"
                 /\ uploaded[p] + 1 \in DOMAIN cmd[p].staged
                 /\ k = art.key
                 /\ objects'[k] = [sha |-> art.sha, modified |-> clock + 1]
                 /\ Upload(p) \/ uploaded' = uploaded
<1>1. PICK p \in Procs :
        LET art == cmd[p].staged[uploaded[p] + 1]
        IN  /\ pc[p] = "upload"
            /\ k = art.key
            /\ objects'[k] = [sha |-> art.sha, modified |-> clock + 1]
            /\ Upload(p) \/ uploaded' = uploaded
  BY ObjectStep
<1>2. cmd[p].op = "publish" /\ cmd[p].staged \in Seq(Artifact)
  BY <1>1, CommandFields DEF TypeInv, Staging
<1>3. uploaded[p] + 1 \in DOMAIN cmd[p].staged
  BY <1>1, <1>2, UploadFacts
<1>4. Uploads(p, k)
  BY <1>1, <1>2, <1>3 DEF Uploads
<1>5. pc'[p] # "ok"
  BY <1>1, SuccessStep DEF PutAck
<1> QED
  BY <1>1, <1>3, <1>4, <1>5

LEMMA StepUploadedAs == TypeInv /\ UploadedAs /\ [Next]_vars => UploadedAs'
<1> SUFFICES ASSUME TypeInv, UploadedAs, [Next]_vars, NEW p \in Procs,
                    (cmd[p].op = "publish")', NEW i, (i \in DOMAIN cmd[p].staged)',
                    LatestUpload(p, i)'
             PROVE  (GoneOrAsIndexed(cmd[p].staged[i]) \/ Shared(cmd[p].staged[i].key))'
  BY DEF UploadedAs
<1> DEFINE art == cmd[p].staged[i]
           k == art.key
<1>1. /\ Typed /\ cmd' = cmd
      /\ cmd[p].op = "publish" /\ i \in DOMAIN cmd[p].staged
  BY CmdStep DEF TypeInv
<1>2. i \in Nat /\ k \in Key /\ uploaded[p] \in Nat
  BY <1>1, StagedKey DEF Typed
<1>3. /\ i <= uploaded'[p]
      /\ \A j \in DOMAIN cmd[p].staged :
           i < j /\ j <= uploaded'[p] + 1 => cmd[p].staged[j].key # k
  BY <1>1 DEF LatestUpload
<1>4. CASE Upload(p) /\ i = uploaded[p] + 1
  <2>1. objects'[k] = [sha |-> art.sha, modified |-> clock + 1]
    BY <1>1, <1>2, <1>4 DEF Upload, PutArtifact, Typed
  <2> QED
    BY <1>1, <2>1 DEF GoneOrAsIndexed
<1>5. CASE ~(Upload(p) /\ i = uploaded[p] + 1)
  <2>1. uploaded'[p] = uploaded[p] \/ (Upload(p) /\ uploaded'[p] = uploaded[p] + 1)
    BY <1>1, UploadedStep DEF Upload, Typed
  <2>2. i <= uploaded[p] /\ uploaded[p] <= uploaded'[p] /\ uploaded'[p] \in Nat
    BY <1>2, <1>3, <1>5, <2>1
  <2>3. \A j \in DOMAIN cmd[p].staged :
           i < j /\ j <= uploaded[p] + 1 => cmd[p].staged[j].key # k
    <3> SUFFICES ASSUME NEW j \in DOMAIN cmd[p].staged, i < j, j <= uploaded[p] + 1
                 PROVE  cmd[p].staged[j].key # k
      OBVIOUS
    <3>1. j \in Nat
      BY <1>1, StagedKey
    <3> QED
      BY <1>2, <1>3, <2>2, <3>1
  <2>4. GoneOrAsIndexed(art) \/ Shared(k)
    BY <1>1, <2>2, <2>3 DEF UploadedAs, LatestUpload
  <2>5. CASE Shared(k)
    <3>1. Shared(k)'
      BY <1>1, <2>5 DEF Shared, Uploads, Reindexes
    <3> QED
      BY <1>1, <3>1
  <2>6. CASE GoneOrAsIndexed(art) /\ (objects'[k] = objects[k] \/ objects'[k] = NoObject)
    BY <1>1, <2>6 DEF GoneOrAsIndexed
  <2>7. CASE objects'[k] # objects[k] /\ objects'[k] # NoObject
    <3>1. PICK q \in Procs : /\ Uploads(q, k)
                             /\ uploaded[q] + 1 \in DOMAIN cmd[q].staged
                             /\ k = cmd[q].staged[uploaded[q] + 1].key
      BY <1>2, <2>7, BytesStep
    <3>2. q # p
      BY <1>2, <2>2, <2>3, <3>1
    <3>3. Uploads(p, k)
      BY <1>1 DEF Uploads
    <3>4. Shared(k)'
      BY <1>1, <3>1, <3>2, <3>3 DEF Shared, Uploads
    <3> QED
      BY <1>1, <3>4
  <2> QED
    BY <2>4, <2>5, <2>6, <2>7
<1> QED
  BY <1>4, <1>5

LEMMA StepRebuiltAs == RefinementInv /\ RebuiltAs /\ [Next]_vars => RebuiltAs'
<1> SUFFICES ASSUME RefinementInv, RebuiltAs, [Next]_vars, NEW p \in Procs, NEW s \in Slot,
                    Reindexes(p)', (draft[p].arts[s] # None)'
             PROVE  (\/ GoneOrAsIndexed(draft[p].arts[s])
                     \/ \E q \in Procs : Uploads(q, draft[p].arts[s].key))'
  BY DEF RebuiltAs
<1>1. TypeInv /\ Typed /\ Reindexes(p) /\ cmd' = cmd
  BY CmdStep, AboutStep DEF RefinementInv, CasInv, TypeInv
<1>2. CASE draft'[p].arts[s] = draft[p].arts[s]
  <2> DEFINE art == draft[p].arts[s]
  <2>1. art.key \in Key
    BY <1>1, <1>2, DraftEntryType
  <2>2. GoneOrAsIndexed(art) \/ \E q \in Procs : Uploads(q, art.key)
    BY <1>1, <1>2 DEF RebuiltAs
  <2>3. CASE \E q \in Procs : Uploads(q, art.key)
    BY <1>1, <1>2, <2>3 DEF Uploads
  <2>4. CASE /\ GoneOrAsIndexed(art)
             /\ objects'[art.key] = objects[art.key] \/ objects'[art.key] = NoObject
    BY <1>2, <2>4 DEF GoneOrAsIndexed
  <2>5. CASE objects'[art.key] # objects[art.key] /\ objects'[art.key] # NoObject
    <3>1. \E q \in Procs : Uploads(q, art.key)
      BY <1>1, <2>1, <2>5, BytesStep
    <3> QED
      BY <2>3, <3>1
  <2> QED
    BY <2>2, <2>3, <2>4, <2>5
<1>3. CASE draft'[p].arts[s] # draft[p].arts[s]
  <2>1. PICK r \in listed[p] :
          /\ Hash(p)
          /\ r.key \in Key
          /\ [key |-> r.key, sha |-> objects[r.key].sha] \in Artifact
          /\ draft'[p] = Rebuild(draft[p], [key |-> r.key, sha |-> objects[r.key].sha],
                                 stamps[p][r.key.slot.version], clock + 1)
    BY <1>1, <1>3, DraftStep
  <2>2. draft'[p].arts[s] = [key |-> r.key, sha |-> objects[r.key].sha]
    BY <1>1, <1>3, <2>1, RebuildEntry DEF Typed
  <2>3. objects' = objects
    BY <2>1 DEF Hash, bucket
  <2> QED
    BY <2>2, <2>3 DEF GoneOrAsIndexed
<1> QED
  BY <1>2, <1>3

LEMMA StepDigestMatches == DigestInv /\ [Next]_vars => DigestMatches'
<1> SUFFICES ASSUME DigestInv, [Next]_vars, NEW s \in Slot, Entry(s)' # None,
                    objects'[Entry(s)'.key] # NoObject,
                    \A p \in Procs : Uploads(p, Entry(s)'.key) => pc'[p] = "ok",
                    ~Shared(Entry(s)'.key)
             PROVE  objects'[Entry(s)'.key].sha = Entry(s)'.sha
  BY CmdStep DEF DigestMatches, AsIndexed, Shared, Uploads, Reindexes
<1> DEFINE e == Entry(s)'
           k == e.key
<1>1. TypeInv /\ Typed /\ RefinementInv /\ UploadsFirst /\ PresenceInv
      /\ UploadedAs /\ RebuiltAs /\ DigestMatches
  BY DEF DigestInv, PresenceInv, RefinementInv, CasInv, TypeInv
<1>2. k \in Key /\ k.slot = s
  <2>1. RefinementInv' /\ IndexWellFormed'
    BY <1>1, StepPresenceInv DEF PresenceInv
  <2>2. Typed'
    BY <2>1 DEF RefinementInv, CasInv, TypeInv
  <2>3. e \in Artifact /\ e.key.slot = s
    BY <2>1, <2>2, SameDocuments
       DEF IndexWellFormed, Atomic!WellFormed, Entry, Typed, Document
  <2> QED
    BY <2>3 DEF Artifact
<1>3. objects'[k] = objects[k]
  <2>1. CASE objects'[k] # objects[k]
    BY <1>1, <1>2, <2>1, BytesStep
  <2> QED
    BY <2>1
<1>4. ASSUME NEW p \in Procs, pc[p] = "put", cmd[p].op = "publish", e \in Landed(cmd[p].staged)
      PROVE  objects'[k].sha = e.sha
  <2>1. PICK i \in DOMAIN cmd[p].staged : e = cmd[p].staged[i] /\ LatestUpload(p, i)
    BY <1>1, <1>4, LandedLatest
  <2>2. GoneOrAsIndexed(e) \/ Shared(k)
    BY <1>1, <1>4, <2>1 DEF UploadedAs
  <2> QED
    BY <1>3, <2>2 DEF GoneOrAsIndexed
<1>5. CASE Entry(s)' = Entry(s)
  <2>1. \/ AsIndexed(e)
        \/ \E p \in Procs : Uploads(p, k) /\ pc[p] # "ok"
    BY <1>1, <1>3, <1>5 DEF DigestMatches, Shared
  <2>2. ASSUME NEW p \in Procs, Uploads(p, k), pc[p] # "ok"
        PROVE  objects'[k].sha = e.sha
    <3>1. pc'[p] = "ok" /\ cmd[p].op = "publish"
      BY <2>2 DEF Uploads
    <3>2. PutAck(p)
      BY <1>1, <2>2, <3>1, SuccessStep
    <3>3. Publishes(p, s)
      BY <1>1, <1>2, <2>2, UploadsPublishes
    <3>4. e \in Landed(cmd[p].staged)
      BY <1>1, <3>2, <3>3, WriteEntry DEF PutAck
    <3> QED
      BY <1>4, <3>1, <3>2, <3>4 DEF PutAck
  <2> QED
    BY <1>3, <2>1, <2>2 DEF AsIndexed
<1>6. ASSUME NEW p \in Procs, Reindexes(p), e = draft[p].arts[s]
      PROVE  objects'[k].sha = e.sha
  <2>1. GoneOrAsIndexed(e) \/ \E q \in Procs : Uploads(q, k)
    BY <1>1, <1>6 DEF RebuiltAs
  <2>2. ASSUME NEW q \in Procs, Uploads(q, k) PROVE FALSE
    BY <1>6, <2>2 DEF Shared, Uploads, Reindexes
  <2> QED
    BY <1>3, <2>1, <2>2 DEF GoneOrAsIndexed
<1>7. ASSUME NEW p \in Procs, pc[p] = "put", Publishes(p, s), e \in Landed(cmd[p].staged)
      PROVE  objects'[k].sha = e.sha
  BY <1>4, <1>7 DEF Publishes
<1> QED
  BY <1>1, <1>5, <1>6, <1>7, EntryStep

LEMMA InitDigestInv == Init => DigestInv
<1> SUFFICES ASSUME Init PROVE DigestInv
  OBVIOUS
<1>1. PresenceInv
  BY InitPresenceInv
<1>2. Typed
  BY InitTypeInv DEF TypeInv
<1>3. UploadedAs
  <2> SUFFICES ASSUME NEW p \in Procs, cmd[p].op = "publish", NEW i \in DOMAIN cmd[p].staged
               PROVE  ~(i <= uploaded[p])
    BY DEF UploadedAs, LatestUpload
  <2>1. cmd[p].staged \in Seq(Artifact) /\ uploaded[p] = 0
    BY <1>2, CommandFields DEF Init
  <2> QED
    BY <2>1
<1>4. RebuiltAs
  BY DEF Init, New, RebuiltAs
<1>5. DigestMatches
  <2> SUFFICES ASSUME NEW s \in Slot, Entry(s) # None
               PROVE  objects[Entry(s).key].sha = Entry(s).sha
    BY DEF DigestMatches, AsIndexed
  <2>1. objects[Entry(s).key] = [sha |-> Entry(s).sha, modified |-> 1]
    BY InitObjects
  <2> QED
    BY <2>1
<1> QED
  BY <1>1, <1>3, <1>4, <1>5 DEF DigestInv

LEMMA DigestInvariant == Spec => []DigestInv
<1>1. DigestInv => PresenceInv /\ TypeInv /\ RefinementInv
  BY DEF DigestInv, PresenceInv, RefinementInv, CasInv
<1>2. DigestInv /\ [Next]_vars => DigestInv'
  BY <1>1, StepPresenceInv, StepUploadedAs, StepRebuiltAs, StepDigestMatches DEF DigestInv
<1> QED
  BY <1>2, InitDigestInv, PTL DEF Spec

\* An entry has the digest of the object it names, unless a publish of that key has
\* yet to write the index or two commands publish the key (publish.go:174-192).
THEOREM EntriesDescribeObjects == Spec => []DigestMatches
<1>1. DigestInv => DigestMatches
  BY DEF DigestInv
<1> QED
  BY <1>1, DigestInvariant, PTL
=============================================================================
