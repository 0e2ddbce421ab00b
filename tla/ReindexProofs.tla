---------------------------- MODULE ReindexProofs ----------------------------
(***************************************************************************)
(* What a reindex, which writes a document of its own making over whatever  *)
(* the index has become, loses and what it keeps: every object that was     *)
(* there before is back in the index, and no publish time moves that no     *)
(* other command was asked to touch.                                        *)
(***************************************************************************)
EXTENDS ObjectProofs

---------------------------------------------------------------------------
(* Vocabulary *)

\* An object that was there before the commands, of a slot that none removes.
Kept(k) ==
    /\ objects[k] # NoObject
    /\ objects[k].modified = 1
    /\ ~\E q \in Procs : Removes(q, k.slot)

Listed(p, k) == \E r \in listed[p] : r.key = k

\* Where a reindex has such an object, from its listing to the index.
Adopting(p, k) ==
    /\ pc[p] = "list" => Listed(p, k) \/ \A r \in listed[p] : Before(r.key, k)
    /\ pc[p] = "current" => Listed(p, k)
    /\ pc[p] = "hash" => Listed(p, k) \/ draft[p].arts[k.slot] # None
    /\ pc[p] \in {"get", "put"} => draft[p].arts[k.slot] # None
    /\ pc[p] = "ok" => Entry(k.slot) # None

AdoptionInv ==
    /\ clock >= 2
    /\ \A p \in Procs, k \in Key : Reindexes(p) /\ Kept(k) => Adopting(p, k)

\* A version that only reindexes may touch, and whether there is anything of it.
Untouched(v) ==
    \A p \in Procs, s \in Slot : s.version = v => ~Publishes(p, s) /\ ~Removes(p, s)

Stored(v) == \E k \in Key : k.slot.version = v /\ objects[k] # NoObject

UntouchedOld ==
    \A k \in Key : Untouched(k.slot.version) /\ objects[k] # NoObject => objects[k].modified = 1

ListedOld ==
    \A p \in Procs : \A r \in listed[p] : Untouched(r.key.slot.version) => r.modified = 1

\* A publish time belongs to a version that is there.
Dated(doc) == \A v \in Versions : doc.created[v] # 0 => HasVersion(doc, v)

\* What a reindex may put in for a version: the time it has, else that of its objects.
Date(v) == IF index.doc.created[v] # 0 THEN index.doc.created[v] ELSE 1

StampsAgree ==
    \A p \in Procs, v \in Versions :
      Reindexes(p) /\ pc[p] \in {"hash", "get", "put"} /\ Untouched(v) /\ Stored(v)
        => stamps[p][v] = Date(v)

DraftsDated ==
    \A p \in Procs : Reindexes(p) =>
      /\ pc[p] \in {"list", "current"} => draft[p] = New
      /\ pc[p] \in {"hash", "get", "put"} =>
           \A v \in Versions : HasVersion(draft[p], v) => draft[p].created[v] = stamps[p][v]
      /\ Dated(draft[p])

DatesInv ==
    /\ PresenceInv
    /\ AdoptionInv
    /\ ReindexAdopts
    /\ UntouchedOld
    /\ ListedOld
    /\ Dated(index.doc)
    /\ StampsAgree
    /\ DraftsDated

---------------------------------------------------------------------------
(* A reindex puts back every object that was there before it. *)

LEMMA ClockStep == Typed /\ [Next]_vars => clock' \in Nat /\ clock <= clock'
<1> SUFFICES ASSUME Typed, [Next]_vars PROVE clock' \in Nat /\ clock <= clock'
  OBVIOUS
<1>1. clock \in Nat
  BY DEF Typed
<1>2. clock' = clock \/ clock' = clock + 1
  BY DEF Next, vars, Done, Step, Fault, Upload, Scan, List, Current, Hash, Get, PutAck,
         PutConflict, Delete, Abort, AnswerLost, PutIndex, bucket
<1> QED
  BY <1>1, <1>2

\* An object from before the commands was never anything else.
LEMMA KeptStep ==
    ASSUME TypeInv, clock >= 2, [Next]_vars, NEW k \in Key, Kept(k)'
    PROVE  Kept(k) /\ objects'[k] = objects[k]
<1>1. clock \in Nat
  BY DEF TypeInv, Typed
<1>2. objects'[k] # NoObject /\ objects'[k].modified = 1 /\ ~\E q \in Procs : Removes(q, k.slot)
  BY AboutStep DEF Kept
<1>3. objects'[k] = objects[k]
  <2>1. CASE objects'[k] # objects[k]
    <3>1. PICK p \in Procs :
            objects'[k] = [sha |-> cmd[p].staged[uploaded[p] + 1].sha, modified |-> clock + 1]
      BY <1>2, <2>1, BytesStep
    <3> QED
      BY <1>1, <1>2, <3>1
  <2> QED
    BY <2>1
<1> QED
  BY <1>2, <1>3 DEF Kept

\* A reindex is moved by its own steps only.
LEMMA ReindexStep ==
    ASSUME TypeInv, [Next]_vars, NEW p \in Procs, Reindexes(p)
    PROVE  \/ List(p) \/ Current(p) \/ Hash(p) \/ Get(p) \/ PutAck(p) \/ PutConflict(p)
           \/ Abort(p)
           \/ /\ pc'[p] = pc[p] /\ listed'[p] = listed[p]
              /\ stamps'[p] = stamps[p] /\ draft'[p] = draft[p]
<1>1. Typed /\ Staging
  BY DEF TypeInv
<1>2. ~Upload(p) /\ ~Scan(p) /\ ~Delete(p)
  BY <1>1 DEF Upload, Scan, Delete, Staging, Reindexes
<1>3. ASSUME NEW q \in Procs, q # p, Step(q) \/ Abort(q)
      PROVE  /\ pc'[p] = pc[p] /\ listed'[p] = listed[p]
             /\ stamps'[p] = stamps[p] /\ draft'[p] = draft[p]
  <2>1. pc' = pc \/ \E x : pc' = [pc EXCEPT ![q] = x]
    BY <1>3 DEF Step, Upload, Scan, List, Current, Hash, Get, PutAck, PutConflict, Delete,
                Abort, Goto
  <2>2. listed' = listed \/ \E x : listed' = [listed EXCEPT ![q] = x]
    BY <1>3 DEF Step, Upload, Scan, List, Current, Hash, Get, PutAck, PutConflict, Delete,
                Abort, loop
  <2>3. stamps' = stamps \/ \E x : stamps' = [stamps EXCEPT ![q] = x]
    BY <1>3 DEF Step, Upload, Scan, List, Current, Hash, Get, PutAck, PutConflict, Delete,
                Abort, loop
  <2>4. draft' = draft \/ \E x : draft' = [draft EXCEPT ![q] = x]
    BY <1>3 DEF Step, Upload, Scan, List, Current, Hash, Get, PutAck, PutConflict, Delete,
                Abort, loop
  <2> QED
    BY <1>1, <1>3, <2>1, <2>2, <2>3, <2>4 DEF Typed
<1>4. ASSUME NEW q \in Procs, AnswerLost(q)
      PROVE  pc' = pc /\ listed' = listed /\ stamps' = stamps /\ draft' = draft
  BY <1>4 DEF AnswerLost, loop
<1>5. CASE UNCHANGED vars
  BY <1>5 DEF vars
<1> QED
  BY <1>2, <1>3, <1>4, <1>5 DEF Next, Step, Fault, Done

\* No page leaves out what comes before its last key.
LEMMA ListStep ==
    ASSUME TypeInv, NEW p \in Procs, List(p), NEW k \in Key, objects[k] # NoObject,
           Listed(p, k) \/ \A r \in listed[p] : Before(r.key, k)
    PROVE  \/ /\ pc'[p] = "list"
              /\ Listed(p, k)' \/ \A r \in listed'[p] : Before(r.key, k)
           \/ pc'[p] = "current" /\ Listed(p, k)'
<1>1. Typed
  BY DEF TypeInv
<1>2. PICK page \in Pages(Rest(p)) :
        /\ listed' = [listed EXCEPT ![p] = @ \cup page]
        /\ IF page = Rest(p) THEN Goto(p, "current") ELSE UNCHANGED pc
  BY DEF List
<1>3. /\ listed'[p] = listed[p] \cup page
      /\ pc'[p] = IF page = Rest(p) THEN "current" ELSE "list"
  BY <1>1, <1>2 DEF List, Goto, Typed
<1>4. CASE Listed(p, k)
  BY <1>3, <1>4 DEF Listed
<1>5. CASE ~Listed(p, k)
  <2> DEFINE rk == [key |-> k, modified |-> objects[k].modified]
  <2>1. rk \in Rest(p)
    BY <1>5 DEF Rest
  <2>2. CASE rk \in page
    BY <1>3, <2>2 DEF Listed
  <2>3. CASE rk \notin page
    <3>1. PICK last \in Rest(p) : page = { r \in Rest(p) : ~Before(last.key, r.key) }
      BY <2>1 DEF Pages
    <3>2. Before(last.key, k)
      <4> HIDE DEF rk
      <4>1. Before(last.key, rk.key)
        BY <2>1, <2>3, <3>1
      <4> QED
        BY <4>1 DEF rk
    <3>3. \A r \in Rest(p) : r.key \in Key
      BY DEF Rest
    <3>4. \A r \in page : Before(r.key, k)
      <4> SUFFICES ASSUME NEW r \in page PROVE Before(r.key, k)
        OBVIOUS
      <4>1. r \in Rest(p) /\ ~Before(last.key, r.key)
        BY <3>1
      <4>2. KeyOrder[r.key] \in Nat /\ KeyOrder[last.key] \in Nat /\ KeyOrder[k] \in Nat
        BY <3>3, <4>1, RegistryAssumption
      <4> QED
        BY <3>2, <4>1, <4>2 DEF Before
    <3>5. page # Rest(p)
      BY <2>1, <2>3
    <3> QED
      BY <1>3, <1>5, <3>4, <3>5
  <2> QED
    BY <2>2, <2>3
<1> QED
  BY <1>4, <1>5

LEMMA StepAdoption == RefinementInv /\ AdoptionInv /\ [Next]_vars => AdoptionInv'
<1> SUFFICES ASSUME RefinementInv, AdoptionInv, [Next]_vars PROVE AdoptionInv'
  OBVIOUS
<1>1. TypeInv /\ Typed /\ clock \in Nat /\ clock >= 2
  BY DEF RefinementInv, CasInv, TypeInv, Typed, AdoptionInv
<1>2. clock' >= 2
  BY <1>1, ClockStep
<1>3. ASSUME NEW p \in Procs, NEW k \in Key, Reindexes(p)', Kept(k)' PROVE Adopting(p, k)'
  <2> DEFINE s == k.slot
  <2>1. /\ Reindexes(p) /\ Kept(k) /\ objects[k] # NoObject
        /\ ~\E q \in Procs : Removes(q, s)
        /\ s \in Slot
    BY <1>1, <1>3, AboutStep, KeptStep DEF Kept, Key
  <2>2. \A q \in Procs : Reindexes(q) => Adopting(q, k)
    BY <2>1 DEF AdoptionInv
  <2>3. Adopting(p, k)
    BY <2>1, <2>2
  <2> HIDE DEF s
  <2>4. CASE List(p)
    BY <1>1, <2>1, <2>3, <2>4, ListStep DEF Adopting, List
  <2>5. CASE Current(p)
    <3>1. pc'[p] = "hash" /\ listed' = listed
      BY <1>1, <2>3, <2>5 DEF Current, Goto, Typed, Adopting, Listed
    <3> QED
      BY <2>3, <2>5, <3>1 DEF Adopting, Listed, Current
  <2>6. CASE Hash(p)
    <3>1. PICK r \in listed[p] :
            \/ Goto(p, "failed")
            \/ /\ objects[r.key] # NoObject
               /\ draft' = [draft EXCEPT ![p] =
                    Rebuild(@, [key |-> r.key, sha |-> objects[r.key].sha],
                            stamps[p][r.key.slot.version], clock + 1)]
               /\ listed' = [listed EXCEPT ![p] = @ \ {r}]
               /\ IF listed[p] = {r} THEN Goto(p, "get") ELSE UNCHANGED pc
      BY <2>6 DEF Hash
    <3>2. CASE Goto(p, "failed")
      BY <1>1, <3>2 DEF Goto, Typed, Adopting
    <3>3. CASE ~Goto(p, "failed")
      <4> DEFINE art == [key |-> r.key, sha |-> objects[r.key].sha]
      <4>1. /\ draft'[p] = Rebuild(draft[p], art, stamps[p][r.key.slot.version], clock + 1)
            /\ listed'[p] = listed[p] \ {r}
            /\ pc'[p] = IF listed[p] = {r} THEN "get" ELSE "hash"
        BY <1>1, <2>6, <3>1, <3>3 DEF Hash, Goto, Typed
      <4>2. r.key \in Key /\ objects[r.key] \in Object /\ draft[p] \in Document
        BY <1>1, <3>1, <3>3 DEF Typed, Listing
      <4>3. art \in Artifact /\ art # None /\ art.key.slot = r.key.slot
        BY <4>2, CatalogueAssumption DEF Artifact, Object
      <4> HIDE DEF art
      <4>4. draft'[p].arts[s] = IF s = r.key.slot THEN art ELSE draft[p].arts[s]
        BY <2>1, <4>1, <4>2, <4>3, RebuildEntry
      <4>5. Listed(p, k) \/ draft[p].arts[s] # None
        BY <2>3, <2>6 DEF Adopting, Hash, s
      <4>6. (\E q \in listed'[p] : q.key = k) \/ draft'[p].arts[s] # None
        BY <4>1, <4>3, <4>4, <4>5 DEF Listed, s
      <4>7. pc'[p] = "get" => listed'[p] = {}
        BY <4>1
      <4> QED
        BY <4>1, <4>6, <4>7 DEF Adopting, Listed, s
    <3> QED
      BY <3>2, <3>3
  <2>7. CASE Get(p)
    <3>1. Mutate(cmd[p], index.doc, draft[p], clock + 1) = draft[p]
      BY <2>1 DEF Mutate, Reindexes
    <3>2. pc'[p] = "put" /\ draft'[p] = draft[p]
      BY <1>1, <2>7, <3>1 DEF Get, Goto, Typed
    <3> QED
      BY <2>3, <2>7, <3>2 DEF Get, Adopting
  <2>8. CASE PutAck(p)
    <3>1. Entry(s)' = draft[p].arts[s]
      BY <2>1, <2>8, WriteEntry DEF PutAck
    <3>2. pc'[p] = "ok"
      BY <1>1, <2>1, <2>8 DEF PutAck, Goto, Typed, Reindexes
    <3> QED
      BY <2>3, <2>8, <3>1, <3>2 DEF Adopting, PutAck, s
  <2>9. CASE PutConflict(p)
    <3>1. pc'[p] \in {"get", "contended"} /\ draft' = draft
      BY <1>1, <2>9 DEF PutConflict, Goto, Typed
    <3> QED
      BY <2>3, <2>9, <3>1 DEF PutConflict, Adopting
  <2>10. CASE Abort(p)
    BY <1>1, <2>10 DEF Abort, Goto, Typed, Adopting
  <2>11. CASE pc'[p] = pc[p] /\ listed'[p] = listed[p] /\ draft'[p] = draft[p]
    <3>1. ASSUME pc[p] = "ok" PROVE Entry(s)' # None
      <4>1. Entry(s) # None
        BY <2>3, <3>1 DEF Adopting, s
      <4>2. ASSUME NEW q \in Procs, Publishes(q, s), Entry(s)' \in Landed(cmd[q].staged)
            PROVE  Entry(s)' # None
        BY <1>1, <4>2, CommandFields, LandedStaged, CatalogueAssumption DEF Publishes
      <4>3. ASSUME NEW q \in Procs, pc[q] = "put", Reindexes(q), Entry(s)' = draft[q].arts[s]
            PROVE  Entry(s)' # None
        BY <2>2, <4>3 DEF Adopting, s
      <4> QED
        BY <2>1, <4>1, <4>2, <4>3, EntryStep
    <3> QED
      BY <2>3, <2>11, <3>1 DEF Adopting, Listed, s
  <2> QED
    BY <1>1, <2>1, <2>4, <2>5, <2>6, <2>7, <2>8, <2>9, <2>10, <2>11, ReindexStep
<1> QED
  BY <1>2, <1>3 DEF AdoptionInv

LEMMA InitAdoption == Init => AdoptionInv
<1> SUFFICES ASSUME Init PROVE AdoptionInv
  OBVIOUS
<1>1. \A p \in Procs : pc[p] \in {"upload", "scan", "list"} /\ listed[p] = {}
  BY InitIdle DEF Init
<1>2. clock = 2
  BY InitObjects
<1> QED
  BY <1>1, <1>2 DEF AdoptionInv, Adopting

LEMMA AdoptionInvariant == Spec => []AdoptionInv
BY InitAdoption, StepAdoption, RefinementInvariant, PTL DEF Spec

\* However S3 cuts the listing into pages, and whatever else writes the index: after
\* a reindex that reported success every object that was there before is indexed,
\* unless it was to be removed (README.md:136-139).
THEOREM ReindexAdoptsAll == Spec => []ReindexAdopts
<1>1. AdoptionInv => ReindexAdopts
  BY DEF AdoptionInv, Kept, Adopting, ReindexAdopts
<1> QED
  BY <1>1, AdoptionInvariant, PTL

---------------------------------------------------------------------------
(* What a mutation of the document does to a publish time. *)

LEMMA UpsertAllDates ==
    ASSUME NEW doc \in Document, NEW staged \in Seq(Artifact), NEW now, NEW v \in Versions
    PROVE  LET new == UpsertAll(doc, staged, now)
           IN  /\ HasVersion(doc, v) => new.created[v] = doc.created[v] /\ HasVersion(new, v)
               /\ (~\E a \in Landed(staged) : a.key.slot.version = v)
                    => new.created[v] = doc.created[v]
               /\ Dated(doc) /\ new.created[v] # 0 => HasVersion(new, v)
<1> DEFINE new == UpsertAll(doc, staged, now)
<1>1. new.created[v] = IF /\ ~HasVersion(doc, v)
                          /\ \E a \in Landed(staged) : a.key.slot.version = v
                       THEN now ELSE doc.created[v]
  BY DEF UpsertAll
<1>2. ASSUME HasVersion(doc, v) PROVE HasVersion(new, v)
  <2>1. PICK s \in Slot : s.version = v /\ doc.arts[s] # None
    BY <1>2 DEF HasVersion
  <2>2. new.arts[s] = doc.arts[s] \/ new.arts[s] \in Landed(staged)
    BY UpsertAllEntry
  <2>3. new.arts[s] # None
    BY <2>1, <2>2, LandedStaged, CatalogueAssumption
  <2> QED
    BY <2>1, <2>3 DEF HasVersion
<1>3. ASSUME NEW a \in Landed(staged), a.key.slot.version = v PROVE HasVersion(new, v)
  <2>1. a \in Artifact /\ a # None
    BY LandedStaged, CatalogueAssumption
  <2>2. a.key.slot \in Slot
    BY <2>1 DEF Artifact, Key
  <2>3. new.arts[a.key.slot] = a
    BY <2>2, UpsertAllEntry
  <2> QED
    BY <1>3, <2>1, <2>2, <2>3 DEF HasVersion
<1> HIDE DEF new
<1>4. (~\E a \in Landed(staged) : a.key.slot.version = v) => new.created[v] = doc.created[v]
  BY <1>1
<1>5. Dated(doc) /\ new.created[v] # 0 => HasVersion(new, v)
  BY <1>1, <1>2, <1>3 DEF Dated
<1> QED
  BY <1>1, <1>2, <1>4, <1>5 DEF new

LEMMA RemoveDates ==
    ASSUME NEW doc \in Document, NEW slots \in SUBSET Slot, NEW now, NEW v \in Versions
    PROVE  LET new == Remove(doc, slots, now)
           IN  /\ HasVersion(new, v) => new.created[v] = doc.created[v]
               /\ (\A s \in slots : s.version # v) /\ Dated(doc)
                    => new.created[v] = doc.created[v]
               /\ Dated(doc) /\ new.created[v] # 0 => HasVersion(new, v)
<1> DEFINE new == Remove(doc, slots, now)
           kept == [s \in Slot |-> IF s \in slots THEN None ELSE doc.arts[s]]
<1>1. CASE new = doc
  BY <1>1 DEF Dated
<1>2. CASE new # doc
  <2>1. /\ new.arts = kept
        /\ new.created[v] = IF \E s \in Slot : s.version = v /\ kept[s] # None
                            THEN doc.created[v] ELSE 0
    BY <1>2 DEF Remove
  <2> HIDE DEF new
  <2>2. HasVersion(new, v) <=> \E s \in Slot : s.version = v /\ kept[s] # None
    BY <2>1 DEF HasVersion
  <2>3. ASSUME \A s \in slots : s.version # v
        PROVE  HasVersion(new, v) <=> HasVersion(doc, v)
    BY <2>2, <2>3 DEF HasVersion
  <2>4. ASSUME Dated(doc), ~HasVersion(doc, v) PROVE doc.created[v] = 0
    BY <2>4 DEF Dated
  <2>5. /\ HasVersion(new, v) => new.created[v] = doc.created[v]
        /\ ~HasVersion(new, v) => new.created[v] = 0
    BY <2>1, <2>2
  <2>6. /\ HasVersion(new, v) => new.created[v] = doc.created[v]
        /\ (\A s \in slots : s.version # v) /\ Dated(doc)
             => new.created[v] = doc.created[v]
        /\ Dated(doc) /\ new.created[v] # 0 => HasVersion(new, v)
    BY <2>3, <2>4, <2>5
  <2> QED
    BY <2>6 DEF new
<1> QED
  BY <1>1, <1>2

LEMMA RebuildDates ==
    ASSUME NEW doc \in Document, NEW art \in Artifact, NEW stamp, NEW now, NEW v \in Versions
    PROVE  LET new == Rebuild(doc, art, stamp, now)
               own == art.key.slot.version
           IN  /\ new.created[v] = IF v = own THEN stamp ELSE doc.created[v]
               /\ HasVersion(new, v) <=> v = own \/ HasVersion(doc, v)
<1> DEFINE new == Rebuild(doc, art, stamp, now)
           own == art.key.slot.version
<1>1. new.created[v] = IF v = own THEN stamp ELSE doc.created[v]
  BY DEF Rebuild, Document
<1>2. art # None /\ art.key.slot \in Slot
  BY CatalogueAssumption DEF Artifact, Key
<1>3. \A s \in Slot : new.arts[s] = IF s = art.key.slot THEN art ELSE doc.arts[s]
  BY RebuildEntry
<1> HIDE DEF new
<1>4. HasVersion(new, v) <=> v = own \/ HasVersion(doc, v)
  BY <1>2, <1>3 DEF HasVersion
<1> QED
  BY <1>1, <1>4 DEF new

\* What a write of publish or rm does to publish times: nothing to those of other
\* versions, and nothing to that of a version which stays.
LEMMA WriteDates ==
    ASSUME RefinementInv, NEW p \in Procs, pc[p] = "put", etag[p] = index.etag,
           PutIndex(draft[p]), ~Reindexes(p), NEW v \in Versions
    PROVE  /\ HasVersion(index.doc, v) /\ HasVersion(index'.doc, v)
                => index'.doc.created[v] = index.doc.created[v]
           /\ Untouched(v) /\ Dated(index.doc) => index'.doc.created[v] = index.doc.created[v]
           /\ Dated(index.doc) /\ index'.doc.created[v] # 0 => HasVersion(index'.doc, v)
<1>1. Typed /\ NoLostUpdate
  BY DEF RefinementInv, CasInv, TypeInv
<1>2. index'.doc = draft[p] /\ index.doc \in Document
  BY <1>1, WriteFacts DEF Typed
<1>3. PICK now \in 1..clock+1 : draft[p] = Mutate(cmd[p], index.doc, draft[p], now)
  BY <1>1 DEF NoLostUpdate
<1>4. CASE cmd[p].op = "publish"
  <2>1. index'.doc = UpsertAll(index.doc, cmd[p].staged, now)
    BY <1>2, <1>3, <1>4 DEF Mutate
  <2>2. cmd[p].staged \in Seq(Artifact)
    BY <1>1, <1>4, CommandFields
  <2>3. ASSUME Untouched(v), NEW a \in Landed(cmd[p].staged), a.key.slot.version = v
        PROVE  FALSE
    <3>1. a.key.slot \in Slot
      BY <2>2, LandedStaged DEF Artifact, Key
    <3> QED
      BY <1>4, <2>3, <3>1 DEF Untouched, Publishes, LandsIn
  <2> QED
    BY <1>2, <2>1, <2>2, <2>3, UpsertAllDates
<1>5. CASE cmd[p].op = "rm"
  <2>1. index'.doc = Remove(index.doc, cmd[p].slots, now)
    BY <1>2, <1>3, <1>5 DEF Mutate
  <2>2. cmd[p].slots \in SUBSET Slot
    BY <1>1, <1>5, CommandFields
  <2>3. Untouched(v) => \A s \in cmd[p].slots : s.version # v
    BY <1>5, <2>2 DEF Untouched, Removes
  <2> QED
    BY <1>2, <2>1, <2>2, <2>3, RemoveDates
<1> QED
  BY <1>1, <1>4, <1>5, CommandFields DEF Reindexes

---------------------------------------------------------------------------
(* All reindexes agree on the publish times of a version that nothing else    *)
(* touches: the one that the index has, or that of the objects.               *)

LEMMA UntouchedStep == [Next]_vars => \A v : Untouched(v)' <=> Untouched(v)
BY CmdStep DEF Untouched, Publishes, Removes

LEMMA UntouchedObjects ==
    ASSUME PresenceInv, [Next]_vars, NEW k \in Key, Untouched(k.slot.version)
    PROVE  objects'[k] = objects[k]
<1>1. TypeInv /\ Typed /\ DoomedNamed /\ k.slot \in Slot
  BY DEF PresenceInv, RefinementInv, CasInv, TypeInv, Key
<1>2. \A p \in Procs : ~Publishes(p, k.slot) /\ ~Removes(p, k.slot)
  BY <1>1 DEF Untouched
<1>3. \A p \in Procs : ~Uploads(p, k)
  BY <1>1, <1>2, UploadsPublishes
<1>4. CASE objects'[k] # objects[k] /\ objects'[k] # NoObject
  BY <1>1, <1>3, <1>4, BytesStep
<1>5. CASE objects'[k] # objects[k] /\ objects'[k] = NoObject
  <2>1. \A p \in Procs : k \notin doomed[p]
    BY <1>1, <1>2 DEF DoomedNamed
  <2>2. ASSUME NEW p \in Procs, pc[p] = "upload"
        PROVE  [sha |-> cmd[p].staged[uploaded[p] + 1].sha, modified |-> clock + 1] # NoObject
    BY <1>1, <2>2, UploadFacts, RegistryAssumption
  <2> QED
    BY <1>1, <1>5, <2>1, <2>2, ObjectStep
<1> QED
  BY <1>4, <1>5

LEMMA StepUntouchedOld == PresenceInv /\ UntouchedOld /\ [Next]_vars => UntouchedOld'
BY UntouchedStep, UntouchedObjects DEF UntouchedOld

LEMMA StoredStep ==
    ASSUME PresenceInv, [Next]_vars, NEW v \in Versions, Untouched(v), Stored(v)'
    PROVE  Stored(v)
BY UntouchedObjects DEF Stored

LEMMA StepListedOld ==
    PresenceInv /\ UntouchedOld /\ ListedOld /\ [Next]_vars => ListedOld'
<1> SUFFICES ASSUME PresenceInv, UntouchedOld, ListedOld, [Next]_vars,
                    NEW p \in Procs, NEW r \in listed'[p], Untouched(r.key.slot.version)'
             PROVE  r.modified = 1
  BY DEF ListedOld
<1>1. Typed /\ Untouched(r.key.slot.version)
  BY UntouchedStep DEF PresenceInv, RefinementInv, CasInv, TypeInv
<1>2. CASE r \in listed[p]
  BY <1>1, <1>2 DEF ListedOld
<1>3. CASE List(p)
  <2>1. listed'[p] \subseteq listed[p] \cup Rest(p)
    BY <1>1, <1>3 DEF List, Pages, Typed
  <2>2. CASE r \in Rest(p)
    <3>1. PICK k \in Key : objects[k] # NoObject
                           /\ r = [key |-> k, modified |-> objects[k].modified]
      BY <2>2 DEF Rest
    <3> QED
      BY <1>1, <3>1 DEF UntouchedOld
  <2> QED
    BY <1>2, <2>1, <2>2
<1>4. ASSUME NEW q \in Procs, List(q), q # p PROVE listed'[p] = listed[p]
  BY <1>1, <1>4 DEF List, Typed
<1>5. ASSUME NEW q \in Procs, Hash(q) PROVE listed'[p] \subseteq listed[p]
  BY <1>1, <1>5 DEF Hash, Typed
<1>6. ASSUME NEW q \in Procs, \/ Upload(q) \/ Scan(q) \/ Current(q) \/ Get(q) \/ PutAck(q)
                              \/ PutConflict(q) \/ Delete(q) \/ Abort(q) \/ AnswerLost(q)
      PROVE  listed' = listed
  BY <1>6 DEF Upload, Scan, Current, Get, PutAck, PutConflict, Delete, Abort, AnswerLost
<1> QED
  BY <1>2, <1>3, <1>4, <1>5, <1>6 DEF Next, Step, Fault, Done, vars

LEMMA StepDated ==
    RefinementInv /\ Dated(index.doc) /\ DraftsDated /\ [Next]_vars => Dated(index.doc)'
<1> SUFFICES ASSUME RefinementInv, Dated(index.doc), DraftsDated, [Next]_vars
             PROVE  Dated(index'.doc)
  BY DEF Dated, HasVersion
<1>1. Typed
  BY DEF RefinementInv, CasInv, TypeInv
<1>2. CASE index' = index
  BY <1>2
<1>3. ASSUME NEW p \in Procs, pc[p] = "put", etag[p] = index.etag, PutIndex(draft[p])
      PROVE  Dated(index'.doc)
  <2>1. CASE Reindexes(p)
    BY <1>1, <1>3, <2>1, WriteFacts DEF DraftsDated, Typed
  <2>2. CASE ~Reindexes(p)
    BY <1>3, <2>2, WriteDates DEF Dated
  <2> QED
    BY <2>1, <2>2
<1> QED
  BY <1>1, <1>2, <1>3, IndexStep

LEMMA StepDraftsDated == RefinementInv /\ DraftsDated /\ [Next]_vars => DraftsDated'
<1> SUFFICES ASSUME RefinementInv, DraftsDated, [Next]_vars, NEW p \in Procs, Reindexes(p)'
             PROVE  /\ pc'[p] \in {"list", "current"} => draft'[p] = New
                    /\ pc'[p] \in {"hash", "get", "put"} =>
                         \A v \in Versions :
                           HasVersion(draft'[p], v) => draft'[p].created[v] = stamps'[p][v]
                    /\ Dated(draft'[p])
  BY DEF DraftsDated, Dated, HasVersion, New
<1>1. TypeInv /\ Typed /\ Reindexes(p)
  BY AboutStep DEF RefinementInv, CasInv, TypeInv
<1>2. /\ pc[p] \in {"list", "current"} => draft[p] = New
      /\ pc[p] \in {"hash", "get", "put"} =>
           \A v \in Versions : HasVersion(draft[p], v) => draft[p].created[v] = stamps[p][v]
      /\ Dated(draft[p])
  BY <1>1 DEF DraftsDated
<1>3. CASE Hash(p)
  <2>1. CASE draft'[p] = draft[p]
    <3>1. pc'[p] \in {"hash", "get", "failed"} /\ stamps' = stamps /\ pc[p] = "hash"
      BY <1>1, <1>3 DEF Hash, Goto, Typed
    <3> QED
      BY <1>2, <2>1, <3>1
  <2>2. CASE draft'[p] # draft[p]
    <3>1. PICK r \in listed[p] :
            /\ r.key \in Key
            /\ [key |-> r.key, sha |-> objects[r.key].sha] \in Artifact
            /\ draft'[p] = Rebuild(draft[p], [key |-> r.key, sha |-> objects[r.key].sha],
                                   stamps[p][r.key.slot.version], clock + 1)
      BY <1>1, <2>2, DraftStep
    <3> DEFINE art == [key |-> r.key, sha |-> objects[r.key].sha]
               own == r.key.slot.version
    <3>2. art.key.slot.version = own /\ draft[p] \in Document
      BY <1>1 DEF Typed
    <3>3. \A v \in Versions :
            /\ draft'[p].created[v] = IF v = own THEN stamps[p][own] ELSE draft[p].created[v]
            /\ HasVersion(draft'[p], v) <=> v = own \/ HasVersion(draft[p], v)
      <4> HIDE DEF art, own
      <4>1. art \in Artifact /\ draft'[p] = Rebuild(draft[p], art, stamps[p][own], clock + 1)
        BY <3>1 DEF art, own
      <4> QED
        BY <3>2, <4>1, RebuildDates
    <3>4. pc'[p] \in {"hash", "get", "failed"} /\ stamps' = stamps /\ pc[p] = "hash"
      BY <1>1, <1>3 DEF Hash, Goto, Typed
    <3> HIDE DEF art, own
    <3>5. Dated(draft'[p])
      BY <1>2, <3>3 DEF Dated
    <3> QED
      BY <1>2, <3>3, <3>4, <3>5
  <2> QED
    BY <2>1, <2>2
<1>4. CASE ~Hash(p)
  <2>1. draft'[p] = draft[p]
    BY <1>1, <1>4, DraftStep
  <2>2. CASE Current(p)
    <3>1. draft'[p] = New /\ pc'[p] \in {"hash", "get"}
      BY <1>1, <1>2, <2>1, <2>2 DEF Current, Goto, Typed
    <3>2. \A v \in Versions : ~HasVersion(draft'[p], v)
      BY <3>1 DEF HasVersion, New
    <3> QED
      BY <1>2, <2>1, <3>1, <3>2
  <2>3. CASE ~Current(p)
    <3>1. /\ pc'[p] \in {"list", "current"} => pc[p] = "list" \/ pc'[p] = pc[p]
          /\ pc'[p] \in {"hash", "get", "put"} => pc[p] \in {"hash", "get", "put"}
      BY <1>1, <1>4, <2>3, ReindexStep
         DEF List, Get, PutAck, PutConflict, Abort, Goto, Typed, Reindexes
    <3>2. stamps'[p] = stamps[p]
      BY <1>1, <1>4, <2>3, ReindexStep DEF List, Get, PutAck, PutConflict, Abort
    <3> QED
      BY <1>2, <2>1, <3>1, <3>2
  <2> QED
    BY <2>2, <2>3
<1> QED
  BY <1>3, <1>4

LEMMA EarliestOld ==
    ASSUME NEW listing, NEW v, NEW r \in listing, r.key.slot.version = v,
           \A q \in listing : q.key.slot.version = v => q.modified = 1
    PROVE  Earliest(listing, v) = 1
<1> DEFINE times == { q.modified : q \in { l \in listing : l.key.slot.version = v } }
<1>1. times = {1}
  OBVIOUS
<1>2. (CHOOSE t \in times : \A u \in times : t <= u) = 1
  BY <1>1
<1> QED
  BY <1>1, <1>2 DEF Earliest

\* There is something of an untouched version only if it was there before.
LEMMA StoredKept ==
    ASSUME DatesInv, NEW v \in Versions, Untouched(v), Stored(v)
    PROVE  \E k \in Key : k.slot \in Slot /\ k.slot.version = v /\ Kept(k)
<1>1. PICK k \in Key : k.slot.version = v /\ objects[k] # NoObject
  BY DEF Stored
<1>2. k.slot \in Slot
  BY DEF Key
<1>3. Kept(k)
  BY <1>1, <1>2 DEF DatesInv, UntouchedOld, Kept, Untouched
<1> QED
  BY <1>1, <1>2, <1>3

LEMMA DraftHasStored ==
    ASSUME DatesInv, NEW v \in Versions, Untouched(v), Stored(v),
           NEW p \in Procs, Reindexes(p), pc[p] \in {"get", "put"}
    PROVE  HasVersion(draft[p], v)
<1>1. PICK k \in Key : k.slot \in Slot /\ k.slot.version = v /\ Kept(k)
  BY StoredKept
<1>2. draft[p].arts[k.slot] # None
  BY <1>1 DEF DatesInv, AdoptionInv, Adopting
<1> QED
  BY <1>1, <1>2 DEF HasVersion

LEMMA DateStep ==
    ASSUME DatesInv, [Next]_vars, NEW v \in Versions, Untouched(v), Stored(v)
    PROVE  /\ Date(v)' = Date(v)
           /\ index.doc.created[v] # 0 => index'.doc.created[v] = index.doc.created[v]
<1>1. RefinementInv /\ Typed
  BY DEF DatesInv, PresenceInv, RefinementInv, CasInv, TypeInv
<1>2. CASE index' = index
  BY <1>2 DEF Date
<1>3. ASSUME NEW p \in Procs, pc[p] = "put", etag[p] = index.etag, PutIndex(draft[p])
      PROVE  \/ index'.doc.created[v] = index.doc.created[v]
             \/ index'.doc.created[v] = Date(v)
  <2>1. CASE Reindexes(p)
    <3>1. HasVersion(draft[p], v)
      BY <1>3, <2>1, DraftHasStored
    <3>2. draft[p].created[v] = stamps[p][v] /\ stamps[p][v] = Date(v)
      BY <1>3, <2>1, <3>1 DEF DatesInv, DraftsDated, StampsAgree
    <3>3. index'.doc = draft[p]
      BY <1>1, <1>3, WriteFacts DEF Typed
    <3> QED
      BY <3>2, <3>3
  <2>2. CASE ~Reindexes(p)
    BY <1>1, <1>3, <2>2, WriteDates DEF DatesInv
  <2> QED
    BY <2>1, <2>2
<1>4. CASE \/ index'.doc.created[v] = index.doc.created[v]
          \/ index'.doc.created[v] = Date(v)
  BY <1>4 DEF Date
<1> QED
  BY <1>1, <1>2, <1>3, <1>4, IndexStep

LEMMA StepStampsAgree == DatesInv /\ [Next]_vars => StampsAgree'
<1> SUFFICES ASSUME DatesInv, [Next]_vars, NEW p \in Procs, NEW v \in Versions,
                    Reindexes(p)', pc'[p] \in {"hash", "get", "put"},
                    Untouched(v)', Stored(v)'
             PROVE  stamps'[p][v] = Date(v)'
  BY DEF StampsAgree
<1>1. TypeInv /\ Typed /\ PresenceInv /\ Reindexes(p) /\ Untouched(v)
  BY AboutStep, UntouchedStep DEF DatesInv, PresenceInv, RefinementInv, CasInv, TypeInv
<1>2. Stored(v)
  BY <1>1, StoredStep
<1>3. CASE Current(p)
  <2>1. stamps'[p][v] = IF index.doc.created[v] # 0 THEN index.doc.created[v]
                        ELSE Earliest(listed[p], v)
    BY <1>1, <1>3 DEF Current, Typed
  <2>2. PICK k \in Key : k.slot \in Slot /\ k.slot.version = v /\ Kept(k)
    BY <1>1, <1>2, StoredKept
  <2>3. Listed(p, k)
    BY <1>1, <1>3, <2>2 DEF DatesInv, AdoptionInv, Adopting, Current
  <2>4. PICK r \in listed[p] : r.key.slot.version = v
    BY <2>2, <2>3 DEF Listed
  <2>5. \A q \in listed[p] : q.key.slot.version = v => q.modified = 1
    BY <1>1 DEF DatesInv, ListedOld
  <2>6. Earliest(listed[p], v) = 1
    BY <2>4, <2>5, EarliestOld
  <2>7. stamps'[p][v] = Date(v)
    BY <2>1, <2>6 DEF Date
  <2> QED
    BY <1>1, <1>2, <2>7, DateStep
<1>4. CASE ~Current(p)
  <2>1. stamps'[p] = stamps[p] /\ pc[p] \in {"hash", "get", "put"}
    BY <1>1, <1>4, ReindexStep
       DEF List, Hash, Get, PutAck, PutConflict, Abort, Goto, Typed, Reindexes
  <2>2. stamps[p][v] = Date(v)
    BY <1>1, <1>2, <2>1 DEF DatesInv, StampsAgree
  <2> QED
    BY <1>1, <1>2, <2>1, <2>2, DateStep
<1> QED
  BY <1>3, <1>4

LEMMA StepDatesInv == DatesInv /\ [Next]_vars => DatesInv'
<1>1. DatesInv => RefinementInv
  BY DEF DatesInv, PresenceInv
<1>2. AdoptionInv' => ReindexAdopts'
  BY DEF AdoptionInv, Kept, Adopting, ReindexAdopts
<1>3. Dated(index.doc)' <=> Dated(index'.doc)
  BY DEF Dated, HasVersion
<1> QED
  BY <1>1, <1>2, <1>3, StepPresenceInv, StepAdoption, StepUntouchedOld, StepListedOld, StepDated,
     StepStampsAgree, StepDraftsDated DEF DatesInv

LEMMA InitDatesInv == Init => DatesInv
<1> SUFFICES ASSUME Init PROVE DatesInv
  OBVIOUS
<1>1. \A p \in Procs : pc[p] \in {"upload", "scan", "list"} /\ listed[p] = {} /\ draft[p] = New
  BY InitIdle DEF Init
<1>2. PresenceInv /\ AdoptionInv
  BY InitPresenceInv, InitAdoption
<1>3. ReindexAdopts /\ ListedOld /\ StampsAgree
  BY <1>1 DEF ReindexAdopts, ListedOld, StampsAgree
<1>4. UntouchedOld
  BY InitObjects DEF UntouchedOld
<1>5. Dated(New)
  BY DEF Dated, New
<1>6. DraftsDated
  BY <1>1, <1>5 DEF DraftsDated
<1>7. Dated(index.doc)
  <2>1. PICK scenario \in Scenarios : InitBucket(scenario.bucket)
    BY DEF Init
  <2> DEFINE b == scenario.bucket
             has(v) == \E s \in Slot : s.version = v /\ b.arts[s] # None
  <2>2. PICK tag \in {0, 2} :
          index = [ etag |-> tag,
                    doc  |-> [ updated |-> tag,
                               created |-> [ v \in Versions |->
                                 IF has(v) /\ v \notin b.legacy THEN 2 ELSE 0 ],
                               arts    |-> b.arts ] ]
    BY <2>1 DEF InitBucket
  <2>3. index.doc.arts = b.arts
    BY <2>2
  <2>4. \A v \in Versions : index.doc.created[v] # 0 => has(v)
    BY <2>2
  <2> QED
    BY <2>3, <2>4 DEF Dated, HasVersion
<1> QED
  BY <1>2, <1>3, <1>4, <1>6, <1>7 DEF DatesInv

LEMMA StepCreatedStable ==
    ASSUME DatesInv, [Next]_vars, NEW v \in Versions,
           HasVersion(index.doc, v), HasVersion(index'.doc, v)
    PROVE  \/ index'.doc.created[v] = index.doc.created[v]
           \/ /\ \E p \in Procs : Reindexes(p)
              /\ \/ index.doc.created[v] = 0
                 \/ \E p \in Procs, s \in Slot :
                      s.version = v /\ (Publishes(p, s) \/ Removes(p, s))
<1>1. RefinementInv /\ Typed /\ EntryHasObject /\ IndexWellFormed
  BY DEF DatesInv, PresenceInv, RefinementInv, CasInv, TypeInv
<1>2. CASE index' = index
  BY <1>2
<1>3. ASSUME NEW p \in Procs, pc[p] = "put", etag[p] = index.etag, PutIndex(draft[p]),
             ~Reindexes(p)
      PROVE  index'.doc.created[v] = index.doc.created[v]
  BY <1>1, <1>3, WriteDates
<1>4. ASSUME Untouched(v), index.doc.created[v] # 0
      PROVE  index'.doc.created[v] = index.doc.created[v]
  <2>1. PICK s \in Slot : s.version = v /\ Entry(s) # None
    BY DEF HasVersion, Entry
  <2>2. objects[Entry(s).key] # NoObject
    BY <1>1, <1>4, <2>1 DEF EntryHasObject, Untouched
  <2>3. Entry(s).key \in Key /\ Entry(s).key.slot = s
    BY <1>1, <2>1, SameDocuments
       DEF IndexWellFormed, Atomic!WellFormed, Entry, Typed, Document, Artifact
  <2>4. Stored(v)
    BY <2>1, <2>2, <2>3 DEF Stored
  <2> QED
    BY <1>4, <2>4, DateStep
<1> QED
  BY <1>1, <1>2, <1>3, <1>4, IndexStep DEF Untouched

\* No command moves the publish time of a version that stays in the index, except
\* that a reindex supplies a missing one and overrides what others set or dropped
\* while it ran (README.md:48-49).
THEOREM PublishTimesStay == Spec => CreatedStable
<1>1. DatesInv /\ [Next]_vars =>
        [ \A v \in Versions :
            HasVersion(index.doc, v) /\ HasVersion(index'.doc, v)
            => \/ index'.doc.created[v] = index.doc.created[v]
               \/ /\ \E p \in Procs : Reindexes(p)
                  /\ \/ index.doc.created[v] = 0
                     \/ \E p \in Procs, s \in Slot :
                          s.version = v /\ (Publishes(p, s) \/ Removes(p, s))
        ]_vars
  BY StepCreatedStable
<1> QED
  BY <1>1, InitDatesInv, StepDatesInv, PTL DEF Spec, CreatedStable
=============================================================================
