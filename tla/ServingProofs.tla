---------------------------- MODULE ServingProofs ----------------------------
(***************************************************************************)
(* What the readers of a bucket see while commands change it: the requests *)
(* of the server and verify.  The commands do as in module Registry and    *)
(* the cache as in module IndexCache, so what is proved of the two holds   *)
(* here; what is added is how they bear upon each other.                   *)
(***************************************************************************)
EXTENDS Serving, ObjectProofs

CP == INSTANCE CacheProofs WITH pc <- rpc

---------------------------------------------------------------------------
(* Vocabulary *)

\* docs and written number the same writes; the last of them is the index.
DocsKept ==
    /\ docs \in Seq(Document)
    /\ Len(docs) = Len(written)
    /\ docs = << >> \/ docs[Len(docs)] = index.doc
    /\ \A n \in DOMAIN docs : Atomic!WellFormed(docs[n])
    /\ \A m, n \in DOMAIN written : m <= n => written[m] <= written[n]
    /\ \A n \in DOMAIN written : written[n] <= now

Ended(r) == rpc[r] \in {"served", "failed"}

RepliesKept ==
    /\ query \in [Requests -> Query]
    /\ reply \in [Requests -> Reply \cup {NoReply}]
    /\ \A r \in Requests : reply[r] # NoReply /\ reply[r].artifact # None
                             => reply[r].status = 200
    /\ \A r \in Requests : reply[r] # NoReply /\ Accepted(r) => Ended(r)
    /\ \A r \in Requests : rpc[r] # "idle" => Accepted(r)

\* A command that may be why an entry and its object disagree.
Excused(a) ==
    \/ \E p \in Procs : Touches(p, a) /\ (p \notin settled \/ pc[p] # "ok")
    \/ \E p, q \in Procs : p # q /\ Touches(p, a) /\ Touches(q, a)

AuditTyped ==
    /\ verify \in {"off", "start", "hashing", "ok", "failed"}
    /\ checking \cup mismatch \subseteq Artifact
    /\ unread \subseteq mismatch
    /\ settled \subseteq Procs
    /\ \A p \in settled : pc[p] \in Final
    /\ verify \in {"off", "start"} => mismatch = {}
    /\ verify = "ok" => checking = {} /\ mismatch = {}

\* Every entry is still to be hashed, or was, or is a command's that ran since.
Covered(a) ==
    \/ a \in checking \cup mismatch
    \/ AsIndexed(a)
    \/ \E p \in Procs \ settled : Touches(p, a)

Audited ==
    /\ AuditTyped
    /\ verify \in {"hashing", "ok"} => \A a \in Entries : Covered(a)
    /\ \A a \in checking : AsIndexed(a) \/ Excused(a)
    /\ \A a \in mismatch : a \in unread \/ Excused(a)

Base ==
    /\ DigestInv
    /\ CP!ShapeInv /\ CP!OrderInv /\ CP!DateInv
    /\ CP!FreshWithin /\ CP!FailsByItsFlight

ServingInv == DocsKept /\ RepliesKept /\ PublishedIsFound /\ Audited

---------------------------------------------------------------------------
(* The commands and the cache do here what they do alone. *)

LEMMA CommandsStep == [ServingNext]_allvars => [Next]_vars
BY DEF ServingNext, Mutating, Asking, Refuse, Unavailable, Operate, VerifyReads,
       VerifyNext, ServingDone, allvars, Next

LEMMA CacheStep == [ServingNext]_allvars => [CP!Next]_CP!vars
<1> SUFFICES ASSUME [ServingNext]_allvars PROVE [CP!Next]_CP!vars
  OBVIOUS
<1>1. ASSUME Cache!Write PROVE CP!Write
  BY <1>1 DEF Cache!Write, CP!Write, Cache!Live, CP!Live, Cache!local, CP!local
<1>2. ASSUME Cache!Tick PROVE CP!Tick
  BY <1>2 DEF Cache!Tick, CP!Tick, Cache!local, CP!local
<1>3. ASSUME NEW r \in Requests, Cache!Step(r) PROVE CP!Step(r)
  BY <1>3 DEF Cache!Step, Cache!Look, Cache!Check, Cache!Join, Cache!Lead, Cache!Fetch,
       Cache!FetchFails, Cache!Store, Cache!Land, Cache!Live, Cache!Fresh, Cache!Answered,
       Cache!upstream, Cache!local,
       CP!Step, CP!Look, CP!Check, CP!Join, CP!Lead, CP!Fetch,
       CP!FetchFails, CP!Store, CP!Land, CP!Live, CP!Fresh, CP!Answered,
       CP!upstream, CP!local
<1>4. UNCHANGED cvars => UNCHANGED CP!vars
  BY DEF cvars, CP!vars, CP!upstream, CP!local
<1>5. CASE Mutating
  BY <1>1, <1>4, <1>5 DEF Mutating, CP!Next
<1>6. CASE Asking
  BY <1>2, <1>3, <1>6 DEF Asking, CP!Next
<1>7. CASE UNCHANGED cvars
  BY <1>4, <1>7
<1>8. \/ Mutating \/ Asking \/ UNCHANGED cvars
  BY DEF ServingNext, Refuse, Unavailable, Operate, VerifyReads, VerifyNext, ServingDone, allvars
<1> QED
  BY <1>5, <1>6, <1>7, <1>8

\* What the server and verify do changes nothing in the bucket: the commands run
\* as in module Registry.
THEOREM CommandsAsAlone == ServingSpec => Spec
<1>1. ServingInit => Init
  BY DEF ServingInit
<1> QED
  BY <1>1, CommandsStep, PTL DEF ServingSpec, Spec

\* The cache is that of module IndexCache, whose index the commands write.
THEOREM CacheAsAlone == ServingSpec => CP!Spec
<1>1. ServingInit => CP!Init
  BY DEF ServingInit, Cache!Init, CP!Init
<1> QED
  BY <1>1, CacheStep, PTL DEF ServingSpec, CP!Spec

LEMMA BaseInvariant == ServingSpec => []Base
<1>1. /\ {TTL, MaxFlight, MaxTime} \subseteq Nat
      /\ MaxWrites \in Nat \ {0}
      /\ NoEntry \notin [doc: Nat, fetchedAt: Nat]
      /\ NoFlight \notin [leader: Requests, since: Nat]
  BY ServingAssumption
<1>2. CP!Spec => [](CP!ShapeInv /\ CP!OrderInv)
  BY <1>1, CP!CacheInvariant
<1>3. CP!Spec => [](CP!ShapeInv /\ CP!DateInv)
  BY <1>1, CP!DatesInvariant
<1>4. CP!Spec => []CP!FreshWithin
  BY <1>1, CP!FreshnessBound
<1>5. CP!Spec => []CP!FailsByItsFlight
  BY <1>1, CP!FailuresAreFair
<1> QED
  BY <1>2, <1>3, <1>4, <1>5, CommandsAsAlone, CacheAsAlone, DigestInvariant, PTL DEF Base

---------------------------------------------------------------------------
(* One step of the cache *)

\* Where a request has ended, nothing more becomes of it.
LEMMA EndedStep ==
    ASSUME CP!ShapeInv, [CP!Next]_CP!vars, NEW r \in Requests, Ended(r)
    PROVE  rpc'[r] = rpc[r] /\ asked'[r] = asked[r] /\ answer'[r] = answer[r]
<1>1. CP!TypeOK /\ rpc[r] \in {"served", "failed"}
  BY DEF CP!ShapeInv, Ended
<1>2. ASSUME NEW q \in Requests, CP!Step(q)
      PROVE  rpc'[r] = rpc[r] /\ asked'[r] = asked[r] /\ answer'[r] = answer[r]
  <2>1. CASE CP!Look(q)
    BY <1>1, <2>1 DEF CP!Look, CP!TypeOK
  <2>2. CASE CP!Check(q)
    BY <1>1, <2>2 DEF CP!Check, CP!TypeOK
  <2>3. CASE CP!Join(q) \/ CP!Lead(q)
    BY <1>1, <2>3 DEF CP!Join, CP!Lead, CP!TypeOK, CP!local
  <2>4. CASE CP!Fetch(q) \/ CP!FetchFails(q) \/ CP!Store(q)
    BY <1>1, <2>4 DEF CP!Fetch, CP!FetchFails, CP!Store, CP!TypeOK, CP!local
  <2>5. CASE CP!Land(q)
    BY <1>1, <2>5 DEF CP!Land, CP!TypeOK, CP!local
  <2> QED
    BY <1>2, <2>1, <2>2, <2>3, <2>4, <2>5 DEF CP!Step
<1>3. CASE CP!Write \/ CP!Tick \/ UNCHANGED CP!vars
  BY <1>3 DEF CP!Write, CP!Tick, CP!vars, CP!local
<1> QED
  BY <1>2, <1>3 DEF CP!Next, CP!Done

\* Time does not go back.
LEMMA TimeStep ==
    ASSUME CP!ShapeInv, [CP!Next]_CP!vars
    PROVE  /\ now \in Nat /\ now' \in Int /\ now <= now'
           /\ written' = written \/ (written' = Append(written, now) /\ now' = now)
<1>1. now \in Nat
  BY DEF CP!ShapeInv, CP!TypeOK
<1>2. ASSUME NEW q \in Requests, CP!Step(q) PROVE now' = now /\ written' = written
  BY <1>2 DEF CP!Step, CP!Look, CP!Check, CP!Join, CP!Lead, CP!Fetch, CP!FetchFails,
              CP!Store, CP!Land, CP!upstream
<1>3. CASE CP!Write
  BY <1>1, <1>3 DEF CP!Write
<1>4. CASE CP!Tick
  BY <1>1, <1>4 DEF CP!Tick
<1>5. CASE UNCHANGED CP!vars
  BY <1>1, <1>5 DEF CP!vars, CP!upstream
<1> QED
  BY <1>1, <1>2, <1>3, <1>4, <1>5 DEF CP!Next, CP!Done

\* The documents and their dates are appended to together.
LEMMA DocsStep ==
    ASSUME Base, [ServingNext]_allvars
    PROVE  \/ docs' = docs /\ index' = index /\ written' = written /\ now <= now'
           \/ /\ docs' = Append(docs, index'.doc)
              /\ written' = Append(written, now)
              /\ now' = now
<1>1. CASE Mutating
  BY <1>1 DEF Mutating, Cache!Write, cvars, Base, CP!ShapeInv, CP!TypeOK
<1>2. CASE ~Mutating
  <2>1. docs' = docs /\ index' = index
    BY <1>2 DEF ServingNext, Asking, Refuse, Unavailable, Operate, VerifyReads, VerifyNext,
                ServingDone, allvars, vars
  <2>2. ASSUME NEW q \in Requests, Cache!Step(q) PROVE written' = written
    BY <2>2 DEF Cache!Step, Cache!Look, Cache!Check, Cache!Join, Cache!Lead, Cache!Fetch,
                Cache!FetchFails, Cache!Store, Cache!Land, Cache!upstream
  <2>3. written' = written
    BY <1>2, <2>2 DEF ServingNext, Asking, Refuse, Unavailable, Operate, VerifyReads,
                VerifyNext, ServingDone, allvars, cvars, Cache!Tick
  <2>4. now <= now'
    BY CacheStep, TimeStep DEF Base
  <2> QED
    BY <2>1, <2>3, <2>4
<1> QED
  BY <1>1, <1>2

LEMMA StepDocsKept == Base /\ Base' /\ DocsKept /\ [ServingNext]_allvars => DocsKept'
<1> SUFFICES ASSUME Base, Base', DocsKept, [ServingNext]_allvars PROVE DocsKept'
  OBVIOUS
<1>1. index'.doc \in Document /\ Atomic!WellFormed(index.doc)'
  BY DEF Base, DigestInv, PresenceInv, RefinementInv, CasInv, TypeInv, Typed, IndexWellFormed
<1>2. written \in Seq(0..MaxTime) /\ now \in Nat /\ now' \in Nat /\ MaxTime \in Nat
  BY ServingAssumption DEF Base, CP!ShapeInv, CP!TypeOK
<1>3. CASE docs' = docs /\ index' = index /\ written' = written /\ now <= now'
  <2>1. \A n \in DOMAIN written : written[n] \in Nat /\ written[n] <= now
    BY <1>2 DEF DocsKept
  <2>2. \A n \in DOMAIN written : written[n] <= now'
    BY <1>2, <1>3, <2>1
  <2> QED
    BY <1>3, <2>2 DEF DocsKept, Atomic!WellFormed
<1>4. CASE /\ docs' = Append(docs, index'.doc)
           /\ written' = Append(written, now)
           /\ now' = now
  <2> DEFINE m == Len(docs) + 1
  <2>1. /\ docs \in Seq(Document) /\ m \in Nat /\ Len(docs) = Len(written)
        /\ \A n \in DOMAIN written : written[n] \in Nat /\ written[n] <= now
    BY <1>2 DEF DocsKept
  <2>2. /\ docs' \in Seq(Document) /\ Len(docs') = m /\ docs'[m] = index'.doc
        /\ DOMAIN docs' = DOMAIN docs \cup {m} /\ docs' # << >>
        /\ \A n \in DOMAIN docs : docs'[n] = docs[n]
    BY <1>1, <1>4, <2>1
  <2>3. /\ Len(written') = m /\ written'[m] = now
        /\ DOMAIN written' = DOMAIN written \cup {m}
        /\ \A n \in DOMAIN written : written'[n] = written[n] /\ n \in Nat /\ n < m
    BY <1>2, <1>4, <2>1
  <2> HIDE DEF m
  <2>4. (\A n \in DOMAIN docs : Atomic!WellFormed(docs[n]))'
    BY <1>1, <2>2 DEF DocsKept, Atomic!WellFormed
  <2>5. ASSUME NEW k \in DOMAIN written', NEW n \in DOMAIN written', k <= n
        PROVE  written'[k] <= written'[n]
    <3>1. CASE n = m
      BY <1>2, <2>1, <2>3, <2>5, <3>1
    <3>2. CASE n # m
      <4>1. n \in DOMAIN written /\ k \in DOMAIN written
        BY <2>1, <2>3, <2>5, <3>2
      <4> QED
        BY <2>3, <2>5, <4>1 DEF DocsKept
    <3> QED
      BY <3>1, <3>2
  <2>6. \A n \in DOMAIN written' : written'[n] <= now'
    BY <1>2, <1>4, <2>1, <2>3
  <2>7. docs' \in Seq(Document) /\ Len(docs') = Len(written') /\ docs'[Len(docs')] = index'.doc
    BY <2>2, <2>3
  <2> QED
    BY <2>4, <2>5, <2>6, <2>7 DEF DocsKept
<1> QED
  BY <1>3, <1>4, DocsStep

---------------------------------------------------------------------------
(* What a request is answered *)

\* The body of PublishedIsFound.
RefusedFor(r) ==
    \E n \in 0 .. Len(docs) : Lacks(n, r) /\ (n = Len(docs) \/ InWindow(r, written[n + 1]))

\* What was served is a document that was the index.
LEMMA ServedDoc ==
    ASSUME Base, DocsKept, NEW r \in Requests, rpc[r] = "served"
    PROVE  /\ answer[r] \in 1..Len(docs)
           /\ docs[answer[r]] \in Document /\ Atomic!WellFormed(docs[answer[r]])
           /\ answer[r] = Len(docs) \/ InWindow(r, written[answer[r] + 1])
<1>1. /\ answer[r] \in Nat /\ answer[r] # 0 /\ Len(docs) = Len(written)
      /\ docs \in Seq(Document) /\ Len(docs) \in Nat
  BY DEF Base, CP!ShapeInv, CP!TypeOK, DocsKept
<1>2. CP!Cached \in Nat
  BY DEF Base, CP!ShapeInv, CP!TypeOK, CP!Cached
<1>3. answer[r] <= CP!Cached /\ CP!Cached <= Len(written)
  BY DEF Base, CP!OrderInv, CP!Placed, CP!Live
<1>4. answer[r] \in 1..Len(docs)
  BY <1>1, <1>2, <1>3
<1>5. answer[r] = Len(docs) \/ InWindow(r, written[answer[r] + 1])
  BY <1>1, <1>4 DEF Base, CP!FreshWithin, CP!Live, InWindow
<1> QED
  BY <1>1, <1>4, <1>5 DEF DocsKept

\* Every answer to a request, and why it is given.
LEMMA AnswerFacts ==
    ASSUME Base, DocsKept, RepliesKept, NEW r \in Requests,
           Refuse(r) \/ Unavailable(r) \/ Operate(r)
    PROVE  /\ reply[r] = NoReply
           /\ UNCHANGED <<vars, cvars, docs, query, audit>>
           /\ \E status \in {200, 401, 404, 422, 500}, art \in Artifact \cup {None} :
                /\ Answer(r, status, art)
                /\ art # None => /\ status = 200 /\ rpc[r] = "served"
                                 /\ \E s \in Slot : art = docs[answer[r]].arts[s]
                /\ Accepted(r) => Ended(r)
                /\ Accepted(r) /\ status \in {404, 422} => RefusedFor(r)
<1>1. CASE Refuse(r)
  BY <1>1 DEF Refuse
<1>2. CASE Unavailable(r)
  <2>1. PICK status \in {404, 500} :
          /\ Answer(r, status, None) /\ rpc[r] = "failed"
          /\ status = 404 => by[r] \notin lost
    BY <1>2 DEF Unavailable, mapStoreErr
  <2>2. ASSUME by[r] \notin lost PROVE RefusedFor(r)
    <3>1. /\ asked[r] \in Nat /\ Len(docs) \in Nat /\ Len(docs) = Len(written)
      BY DEF Base, CP!ShapeInv, CP!TypeOK, DocsKept
    <3>2. Len(written) = 0 \/ asked[r] <= written[1] + MaxFlight
      BY <2>1, <2>2 DEF Base, CP!FailsByItsFlight, CP!Live
    <3>3. 0 \in 0..Len(docs) /\ Lacks(0, r) /\ (0 = Len(docs) \/ InWindow(r, written[0 + 1]))
      BY <3>1, <3>2 DEF Lacks, InWindow
    <3> QED
      BY <3>3 DEF RefusedFor
  <2>3. Ended(r)
    BY <2>1 DEF Ended
  <2> QED
    BY <1>2, <2>1, <2>2, <2>3 DEF Unavailable
<1>3. CASE Operate(r)
  <2> DEFINE doc == docs[answer[r]]
             resolved == Resolve(doc, query[r].accepts)
             found(v) == doc.arts[[version |-> v, osArch |-> query[r].osArch]]
  <2>1. rpc[r] = "served" /\ reply[r] = NoReply /\ UNCHANGED <<vars, cvars, docs, query, audit>>
    BY <1>3 DEF Operate
  <2>2. /\ answer[r] \in 0..Len(docs) /\ answer[r] # 0 /\ doc \in Document
        /\ answer[r] = Len(docs) \/ InWindow(r, written[answer[r] + 1])
    BY <2>1, ServedDoc
  <2>3. Ended(r)
    BY <2>1 DEF Ended
  <2>4. Lacks(answer[r], r) => RefusedFor(r)
    BY <2>2 DEF RefusedFor
  <2>5. /\ query[r] \in Query
        /\ resolved \subseteq Versions
    <3>1. query[r] \in Query
      BY DEF RepliesKept
    <3>2. query[r].accepts \subseteq Versions
      BY <3>1 DEF Query
    <3> QED
      BY <3>1, <3>2 DEF Resolve
  <2>6. CASE listVersions(r)
    BY <2>1, <2>3, <2>6 DEF listVersions
  <2>7. CASE resolveVersion(r, doc)
    <3>1. CASE resolved = {}
      <4>1. Lacks(answer[r], r)
        BY <2>7, <3>1 DEF resolveVersion, Lacks
      <4> QED
        BY <2>1, <2>3, <2>4, <2>7, <3>1, <4>1 DEF resolveVersion
    <3>2. CASE resolved # {}
      BY <2>1, <2>3, <2>7, <3>2 DEF resolveVersion
    <3> QED
      BY <3>1, <3>2
  <2>8. CASE getArtifact(r, doc)
    <3>1. CASE resolved = {} /\ Answer(r, 404, None)
      <4>1. Lacks(answer[r], r)
        BY <2>8, <3>1 DEF getArtifact, Lacks
      <4> QED
        BY <2>1, <2>3, <2>4, <3>1, <4>1
    <3>2. ASSUME NEW v \in resolved, found(v) = None, Answer(r, 404, None)
          PROVE  Lacks(answer[r], r)
      BY <2>8, <3>2 DEF getArtifact, Lacks
    <3>3. CASE \E v \in resolved : found(v) = None /\ Answer(r, 404, None)
      BY <2>1, <2>3, <2>4, <3>2, <3>3
    <3>4. CASE \E v \in resolved :
                 found(v) # None /\ (Answer(r, 200, found(v)) \/ Answer(r, 500, None))
      <4>1. PICK v \in resolved :
              found(v) # None /\ (Answer(r, 200, found(v)) \/ Answer(r, 500, None))
        BY <3>4
      <4>2. CASE Answer(r, 500, None)
        BY <2>1, <2>3, <4>2
      <4>3. query[r].osArch \in OsArches
        BY <2>1, <2>5, <2>8 DEF RepliesKept, Accepted, Query, getArtifact
      <4>4. CASE Answer(r, 200, found(v))
        <5>1. [version |-> v, osArch |-> query[r].osArch] \in Slot
          BY <2>5, <4>3 DEF Slot
        <5>2. found(v) \in Artifact \cup {None}
          BY <2>2, <5>1 DEF Document
        <5> HIDE DEF doc
        <5> QED
          BY <2>1, <2>3, <4>4, <5>1, <5>2 DEF doc
      <4> QED
        BY <4>1, <4>2, <4>4
    <3> QED
      BY <2>8, <3>1, <3>3, <3>4 DEF getArtifact
  <2> QED
    BY <1>3, <2>6, <2>7, <2>8 DEF Operate
<1> QED
  BY <1>1, <1>2, <1>3

\* A request that has gone to the cache was accepted.
LEMMA LeftIdle ==
    ASSUME Base, [ServingNext]_allvars, NEW r \in Requests, rpc[r] = "idle", ~Accepted(r)
    PROVE  rpc'[r] = "idle"
<1>1. CP!TypeOK
  BY DEF Base, CP!ShapeInv
<1>2. ASSUME NEW q \in Requests, Accepted(q), Cache!Step(q) PROVE rpc'[r] = "idle"
  <2>1. q # r
    BY <1>2
  <2>2. CASE Cache!Land(q)
    BY <1>1, <2>1, <2>2 DEF Cache!Land, CP!TypeOK
  <2>3. CASE \/ Cache!Look(q) \/ Cache!Check(q) \/ Cache!Join(q) \/ Cache!Lead(q)
             \/ Cache!Fetch(q) \/ Cache!FetchFails(q) \/ Cache!Store(q)
    BY <1>1, <2>1, <2>3 DEF Cache!Look, Cache!Check, Cache!Join, Cache!Lead, Cache!Fetch,
                            Cache!FetchFails, Cache!Store, CP!TypeOK
  <2> QED
    BY <1>2, <2>2, <2>3 DEF Cache!Step
<1>3. CASE Asking
  BY <1>2, <1>3 DEF Asking, Cache!Tick
<1>4. CASE ~Asking
  BY <1>4 DEF ServingNext, Mutating, Refuse, Unavailable, Operate, VerifyReads, VerifyNext,
              ServingDone, allvars, cvars, Cache!Write
<1> QED
  BY <1>3, <1>4

\* The step answers one request, or none.
LEMMA RepliesStep ==
    ASSUME [ServingNext]_allvars
    PROVE  /\ query' = query
           /\ \/ reply' = reply
              \/ \E r \in Requests : Refuse(r) \/ Unavailable(r) \/ Operate(r)
BY DEF ServingNext, Mutating, Asking, Refuse, Unavailable, Operate, VerifyReads, VerifyNext,
       ServingDone, allvars

LEMMA AnswerStep ==
    ASSUME RepliesKept, NEW r \in Requests, NEW status, NEW art, Answer(r, status, art)
    PROVE  /\ reply'[r] = [status |-> status, artifact |-> art]
           /\ \A q \in Requests : q # r => reply'[q] = reply[q]
           /\ reply' = [reply EXCEPT ![r] = [status |-> status, artifact |-> art]]
BY DEF Answer, RepliesKept

LEMMA StepRepliesKept ==
    Base /\ DocsKept /\ RepliesKept /\ [ServingNext]_allvars => RepliesKept'
<1> SUFFICES ASSUME Base, DocsKept, RepliesKept, [ServingNext]_allvars PROVE RepliesKept'
  OBVIOUS
<1>1. query' = query /\ \A r \in Requests : Accepted(r)' <=> Accepted(r)
  BY RepliesStep DEF Accepted
<1>2. \A r \in Requests : Ended(r) => Ended(r)'
  BY CacheStep, EndedStep DEF Ended, Base
<1>3. \A r \in Requests : rpc'[r] # "idle" => Accepted(r)
  BY LeftIdle DEF RepliesKept
<1>4. CASE reply' = reply
  BY <1>1, <1>2, <1>3, <1>4 DEF RepliesKept
<1>5. ASSUME NEW r \in Requests, Refuse(r) \/ Unavailable(r) \/ Operate(r)
      PROVE  RepliesKept'
  <2>1. PICK status \in {200, 401, 404, 422, 500}, art \in Artifact \cup {None} :
          /\ Answer(r, status, art)
          /\ art # None => status = 200
          /\ Accepted(r) => Ended(r)
    BY <1>5, AnswerFacts
  <2>2. /\ reply'[r] = [status |-> status, artifact |-> art]
        /\ \A q \in Requests : q # r => reply'[q] = reply[q]
        /\ reply' = [reply EXCEPT ![r] = [status |-> status, artifact |-> art]]
    BY <2>1, AnswerStep
  <2>3. [status |-> status, artifact |-> art] \in Reply
    BY DEF Reply
  <2>4. reply' \in [Requests -> Reply \cup {NoReply}]
    BY <2>2, <2>3 DEF RepliesKept
  <2>5. ASSUME NEW q \in Requests, reply'[q] # NoReply
        PROVE  /\ reply'[q].artifact # None => reply'[q].status = 200
               /\ Accepted(q) => Ended(q)
    BY <2>1, <2>2, <2>5 DEF RepliesKept
  <2> QED
    BY <1>1, <1>2, <1>3, <2>4, <2>5 DEF RepliesKept
<1> QED
  BY <1>4, <1>5, RepliesStep

\* Where a refusal was right it stays right.
LEMMA RefusedKept ==
    ASSUME Base, DocsKept, [ServingNext]_allvars, NEW r \in Requests,
           asked'[r] = asked[r], RefusedFor(r)
    PROVE  RefusedFor(r)'
<1>1. query' = query
  BY RepliesStep
<1>2. PICK n \in 0 .. Len(docs) : Lacks(n, r) /\ (n = Len(docs) \/ InWindow(r, written[n + 1]))
  BY DEF RefusedFor
<1>3. /\ docs \in Seq(Document) /\ Len(docs) = Len(written) /\ Len(docs) \in Nat
      /\ written \in Seq(0..MaxTime) /\ n \in Nat
  BY DEF DocsKept, Base, CP!ShapeInv, CP!TypeOK
<1>4. CASE docs' = docs /\ written' = written
  BY <1>1, <1>2, <1>4 DEF RefusedFor, Lacks, InWindow
<1>5. CASE docs' = Append(docs, index'.doc) /\ written' = Append(written, now)
  <2>1. /\ Len(docs') = Len(docs) + 1 /\ written'[Len(docs) + 1] = now
        /\ \A m \in 1..Len(docs) : docs'[m] = docs[m] /\ written'[m] = written[m]
    BY <1>3, <1>5
  <2>2. n \in 0..Len(docs') /\ n # Len(docs')
    BY <1>3, <2>1
  <2>3. Lacks(n, r)'
    <3>1. n # 0 => docs'[n] = docs[n]
      BY <1>3, <2>1
    <3> QED
      BY <1>1, <1>2, <3>1 DEF Lacks
  <2>4. asked[r] <= now /\ asked[r] \in Nat /\ now \in Nat /\ MaxFlight \in Nat
    BY ServingAssumption DEF Base, CP!DateInv, CP!DatedRequest, CP!ShapeInv, CP!TypeOK
  <2>5. InWindow(r, written[n + 1])'
    <3>1. CASE n = Len(docs)
      BY <2>1, <2>4, <3>1 DEF InWindow
    <3>2. CASE n # Len(docs)
      <4>1. n + 1 \in 1..Len(docs)
        BY <1>3, <3>2
      <4> QED
        BY <1>2, <2>1, <3>2, <4>1 DEF InWindow
    <3> QED
      BY <3>1, <3>2
  <2> QED
    BY <2>2, <2>3, <2>5 DEF RefusedFor
<1> QED
  BY <1>4, <1>5, DocsStep

LEMMA StepFound ==
    Base /\ DocsKept /\ RepliesKept /\ PublishedIsFound /\ [ServingNext]_allvars
      => PublishedIsFound'
<1> SUFFICES ASSUME Base, DocsKept, RepliesKept, PublishedIsFound, [ServingNext]_allvars,
                    NEW r \in Requests, reply'[r] # NoReply, Accepted(r)',
                    reply'[r].status \in {404, 422}
             PROVE  RefusedFor(r)'
  BY DEF PublishedIsFound, RefusedFor
<1>1. query' = query /\ Accepted(r)
  BY RepliesStep DEF Accepted
<1>2. CASE reply'[r] = reply[r]
  <2>1. RefusedFor(r)
    BY <1>1, <1>2 DEF PublishedIsFound, RefusedFor
  <2>2. asked'[r] = asked[r]
    BY <1>1, <1>2, CacheStep, EndedStep DEF RepliesKept, Base
  <2> QED
    BY <2>1, <2>2, RefusedKept
<1>3. CASE reply'[r] # reply[r]
  <2>1. PICK q \in Requests : Refuse(q) \/ Unavailable(q) \/ Operate(q)
    BY <1>3, RepliesStep
  <2>2. /\ UNCHANGED <<vars, cvars, docs, query, audit>>
        /\ \E status \in {200, 401, 404, 422, 500}, art \in Artifact \cup {None} :
             /\ Answer(q, status, art)
             /\ Accepted(q) /\ status \in {404, 422} => RefusedFor(q)
    BY <2>1, AnswerFacts
  <2>3. RefusedFor(r)
    <3>1. PICK status \in {200, 401, 404, 422, 500}, art \in Artifact \cup {None} :
            /\ Answer(q, status, art)
            /\ Accepted(q) /\ status \in {404, 422} => RefusedFor(q)
      BY <2>2
    <3>2. /\ reply'[q] = [status |-> status, artifact |-> art]
          /\ r # q => reply'[r] = reply[r]
      BY <3>1, AnswerStep
    <3> QED
      BY <1>1, <1>3, <3>1, <3>2
  <2>4. asked' = asked
    BY <2>2 DEF cvars
  <2> QED
    BY <2>3, <2>4, RefusedKept
<1> QED
  BY <1>2, <1>3

---------------------------------------------------------------------------
(* What verify finds *)

LEMMA TouchesStep ==
    ASSUME [Next]_vars, NEW p, NEW a
    PROVE  Touches(p, a)' <=> Touches(p, a)
BY CmdStep DEF Touches, Publishes, Removes, Reindexes, Uploads

LEMMA FinalStep ==
    ASSUME TypeInv, [Next]_vars, NEW p \in Procs, pc[p] \in Final
    PROVE  pc'[p] = pc[p]
<1>1. pc \in [Procs -> Stage] /\ pc[p] \notin {"upload", "scan", "list", "current", "hash",
                                              "get", "put", "delete"}
  BY DEF TypeInv, Typed, Final
<1>2. ASSUME NEW q \in Procs, Step(q) \/ Fault(q) PROVE pc'[p] = pc[p]
  BY <1>1, <1>2 DEF Step, Fault, Upload, Scan, List, Current, Hash, Get, PutAck, PutConflict,
                    Delete, Abort, AnswerLost, Goto
<1> QED
  BY <1>2 DEF Next, Done, vars

\* An object is made to agree or to disagree with an entry only by a command that
\* runs and is about it.
LEMMA AgreementStep ==
    ASSUME Base, [Next]_vars, NEW a \in Artifact, AsIndexed(a)
    PROVE  \/ objects'[a.key] # NoObject /\ objects'[a.key].sha = a.sha
           \/ \E p \in Procs : pc[p] \notin Final /\ Touches(p, a)
<1>1. /\ TypeInv /\ Typed /\ Staging /\ DoomedNamed /\ a.key \in Key
  BY DEF Base, DigestInv, PresenceInv, RefinementInv, CasInv, TypeInv, Artifact
<1>2. CASE objects'[a.key] = objects[a.key]
  BY <1>2 DEF AsIndexed
<1>3. ASSUME NEW p \in Procs, pc[p] = "upload",
             a.key = cmd[p].staged[uploaded[p] + 1].key
      PROVE  pc[p] \notin Final /\ Touches(p, a)
  <2>1. cmd[p].op = "publish" /\ uploaded[p] < Len(cmd[p].staged) /\ uploaded[p] \in Nat
    BY <1>1, <1>3 DEF Staging, Typed
  <2>2. cmd[p].staged \in Seq(Artifact)
    BY <1>1, <2>1, CommandFields
  <2>3. uploaded[p] + 1 \in DOMAIN cmd[p].staged
    BY <2>1, <2>2
  <2> QED
    BY <1>3, <2>1, <2>3 DEF Touches, Uploads, Final
<1>4. ASSUME NEW p \in Procs, pc[p] = "delete", a.key \in doomed[p]
      PROVE  pc[p] \notin Final /\ Touches(p, a)
  BY <1>1, <1>4 DEF DoomedNamed, Touches, Final
<1> QED
  BY <1>1, <1>2, <1>3, <1>4, ObjectStep

\* The same for an entry that is new.
LEMMA NewEntryStep ==
    ASSUME Base, [Next]_vars, NEW s \in Slot, NEW a, a.key.slot = s, a # None,
           Entry(s)' = a, Entry(s) # a
    PROVE  \E p \in Procs : pc[p] \notin Final /\ Touches(p, a)
<1>1. RefinementInv
  BY DEF Base, DigestInv, PresenceInv
<1>2. PICK p \in Procs : pc[p] = "put" /\ (Publishes(p, s) \/ Reindexes(p))
  BY <1>1, EntryStep
<1> QED
  BY <1>2 DEF Touches, Final

\* The entries of an index are artifacts, each under the slot of its key.
LEMMA EntryFacts ==
    ASSUME Base, NEW a \in Entries
    PROVE  a \in Artifact /\ \E s \in Slot : a = Entry(s) /\ a # None /\ a.key.slot = s
<1>1. /\ index.doc \in Document
      /\ \A s \in Slot : index.doc.arts[s] # None => index.doc.arts[s].key.slot = s
  BY DEF Base, DigestInv, PresenceInv, RefinementInv, CasInv, TypeInv, Typed,
         IndexWellFormed, Atomic!WellFormed, Atomic!Slot, Slot
<1>2. PICK s \in Slot : a = index.doc.arts[s] /\ a # None
  BY DEF Entries
<1>3. a \in Artifact
  BY <1>1, <1>2 DEF Document
<1> QED
  BY <1>1, <1>2, <1>3 DEF Entry

\* What is in the index disagrees with the bucket only by the doing of commands.
LEMMA DisagreementExcused ==
    ASSUME Base, NEW a \in Entries
    PROVE  \/ AsIndexed(a)
           \/ \E p \in Procs : Touches(p, a) /\ pc[p] # "ok"
           \/ \E p, q \in Procs : p # q /\ Touches(p, a) /\ Touches(q, a)
<1>1. PICK s \in Slot : a = Entry(s) /\ a # None /\ a.key.slot = s
  BY EntryFacts
<1>3. EntryHasObject /\ DigestMatches
  BY DEF Base, DigestInv, PresenceInv
<1>4. CASE objects[a.key] = NoObject
  <2>1. PICK p \in Procs, q \in Procs : Removes(p, s) /\ (Publishes(q, s) \/ Reindexes(q))
    BY <1>1, <1>3, <1>4 DEF EntryHasObject
  <2>2. p # q
    BY <2>1 DEF Removes, Publishes, Reindexes
  <2> QED
    BY <1>1, <2>1, <2>2 DEF Touches
<1>5. CASE objects[a.key] # NoObject
  BY <1>1, <1>3, <1>5 DEF DigestMatches, Touches
<1> QED
  BY <1>4, <1>5

\* A step of the commands leaves what verify has found so far as right as it was.
LEMMA AuditKept ==
    ASSUME Base, Base', Audited, [Next]_vars, UNCHANGED audit
    PROVE  Audited'
<1>1. /\ verify' = verify /\ checking' = checking /\ mismatch' = mismatch
      /\ unread' = unread /\ settled' = settled
  BY DEF audit
<1>2. TypeInv /\ AuditTyped
  BY DEF Base, DigestInv, PresenceInv, RefinementInv, CasInv, Audited
<1>3. \A p \in settled : pc'[p] = pc[p] /\ pc[p] \in Final /\ p \in Procs
  BY <1>2, FinalStep DEF AuditTyped
<1>4. AuditTyped'
  BY <1>1, <1>2, <1>3 DEF AuditTyped
<1>5. ASSUME NEW p \in Procs, pc[p] \notin Final PROVE p \in Procs \ settled
  BY <1>3, <1>5
<1>6. ASSUME NEW a, Excused(a) PROVE Excused(a)'
  BY <1>1, <1>3, <1>6, TouchesStep DEF Excused
<1>7. ASSUME NEW a \in checking PROVE (AsIndexed(a) \/ Excused(a))'
  <2>1. a \in Artifact
    BY <1>2 DEF AuditTyped
  <2>2. CASE Excused(a)
    BY <1>6, <2>2
  <2>3. CASE AsIndexed(a)
    <3>1. CASE objects'[a.key] # NoObject /\ objects'[a.key].sha = a.sha
      BY <3>1 DEF AsIndexed
    <3>2. CASE \E p \in Procs : pc[p] \notin Final /\ Touches(p, a)
      BY <1>1, <1>5, <3>2, TouchesStep DEF Excused
    <3> QED
      BY <2>1, <2>3, <3>1, <3>2, AgreementStep
  <2> QED
    BY <2>2, <2>3 DEF Audited
<1>8. ASSUME verify \in {"hashing", "ok"}, NEW a \in Entries' PROVE Covered(a)'
  <2>1. /\ index'.doc \in Document
        /\ \A s \in Slot : index'.doc.arts[s] # None => index'.doc.arts[s].key.slot = s
    <3>1. index'.doc \in Document /\ Atomic!WellFormed(index.doc)'
      BY DEF Base, DigestInv, PresenceInv, RefinementInv, CasInv, TypeInv, Typed,
             IndexWellFormed
    <3> QED
      BY <3>1 DEF Atomic!WellFormed, Atomic!Slot, Slot
  <2>2. PICK s \in Slot : a = index'.doc.arts[s] /\ a # None
    BY <1>8 DEF Entries
  <2>3. a \in Artifact /\ a.key.slot = s /\ Entry(s)' = a
    BY <2>1, <2>2 DEF Document, Entry
  <2>4. ASSUME \E p \in Procs : pc[p] \notin Final /\ Touches(p, a) PROVE Covered(a)'
    BY <1>1, <1>5, <2>4, TouchesStep DEF Covered
  <2>5. CASE Entry(s) # a
    BY <2>2, <2>3, <2>4, <2>5, NewEntryStep
  <2>6. CASE Entry(s) = a
    <3>1. Covered(a)
      BY <1>8, <2>2, <2>6 DEF Audited, Entries, Entry
    <3>2. CASE a \in checking \cup mismatch
      BY <1>1, <3>2 DEF Covered
    <3>3. CASE AsIndexed(a)
      <4>1. CASE objects'[a.key] # NoObject /\ objects'[a.key].sha = a.sha
        BY <4>1 DEF Covered, AsIndexed
      <4> QED
        BY <2>3, <2>4, <3>3, <4>1, AgreementStep
    <3>4. CASE \E p \in Procs \ settled : Touches(p, a)
      BY <1>1, <3>4, TouchesStep DEF Covered
    <3> QED
      BY <3>1, <3>2, <3>3, <3>4 DEF Covered
  <2> QED
    BY <2>5, <2>6
<1>9. (\A a \in checking : AsIndexed(a) \/ Excused(a))'
  BY <1>1, <1>7
<1>10. (\A a \in mismatch : a \in unread \/ Excused(a))'
  BY <1>1, <1>6 DEF Audited
<1>11. (verify \in {"hashing", "ok"} => \A a \in Entries : Covered(a))'
  BY <1>1, <1>8
<1> QED
  BY <1>4, <1>9, <1>10, <1>11 DEF Audited

\* verify begins: the bucket stays as it is.
LEMMA ReadsAudited == Base /\ Audited /\ VerifyReads => Audited'
<1> SUFFICES ASSUME Base, Audited, VerifyReads PROVE Audited'
  OBVIOUS
<1>1. /\ mismatch' = {} /\ unread' = {} /\ UNCHANGED vars
      /\ settled' = { p \in Procs : pc[p] \in Final }
  BY DEF VerifyReads, Audited, AuditTyped
<1>2. /\ verify' \in {"failed", "ok", "hashing"}
      /\ checking' = Entries \/ (checking' = {} /\ verify' = "failed")
      /\ verify' = "ok" => Entries = {}
  BY DEF VerifyReads
<1>3. /\ pc' = pc /\ objects' = objects /\ index' = index /\ cmd' = cmd
  BY <1>1 DEF vars
<1>4. Entries' = Entries /\ \A a \in Entries : a \in Artifact
  BY <1>3, EntryFacts DEF Entries
<1>5. AuditTyped'
  BY <1>1, <1>2, <1>3, <1>4 DEF AuditTyped
<1>6. ASSUME NEW a \in Entries PROVE (AsIndexed(a) \/ Excused(a))'
  <2>2. CASE AsIndexed(a)
    BY <1>3, <2>2 DEF AsIndexed
  <2>3. \A p \in Procs : Touches(p, a)' <=> Touches(p, a)
    BY <1>3 DEF Touches, Uploads, Publishes, Removes, Reindexes
  <2>4. CASE \E p \in Procs : Touches(p, a) /\ pc[p] # "ok"
    BY <1>3, <2>3, <2>4 DEF Excused
  <2>5. CASE \E p, q \in Procs : p # q /\ Touches(p, a) /\ Touches(q, a)
    BY <2>3, <2>5 DEF Excused
  <2> QED
    BY <2>2, <2>4, <2>5, DisagreementExcused
<1>7. (\A a \in checking : AsIndexed(a) \/ Excused(a))'
  BY <1>2, <1>6
<1>8. (verify \in {"hashing", "ok"} => \A a \in Entries : Covered(a))'
  BY <1>2, <1>4 DEF Covered
<1>9. (\A a \in mismatch : a \in unread \/ Excused(a))'
  BY <1>1
<1> QED
  BY <1>5, <1>7, <1>8, <1>9 DEF Audited

\* verify hashes one object.
LEMMA HashAudited == Audited /\ VerifyNext => Audited'
<1> SUFFICES ASSUME Audited, VerifyNext PROVE Audited'
  OBVIOUS
<1>1. PICK a \in checking :
        /\ checking' = checking \ {a}
        /\ \/ /\ mismatch' = IF Disagrees(a) THEN mismatch \cup {a} ELSE mismatch
              /\ unread' = unread
           \/ /\ mismatch' = mismatch \cup {a}
              /\ unread' = unread \cup {a}
  BY DEF VerifyNext
<1>2. /\ verify = "hashing" /\ UNCHANGED vars /\ settled' = settled
      /\ verify' \in {"hashing", "ok", "failed"}
      /\ verify' = "ok" => checking' = {} /\ mismatch' = {}
  BY DEF VerifyNext
<1>3. /\ pc' = pc /\ objects' = objects /\ index' = index /\ cmd' = cmd
  BY <1>2 DEF vars
<1>4. AuditTyped'
  BY <1>1, <1>2, <1>3 DEF Audited, AuditTyped
<1>5. ASSUME NEW b PROVE /\ AsIndexed(b)' <=> AsIndexed(b)
                         /\ Excused(b)' <=> Excused(b)
                         /\ \A p \in Procs : Touches(p, b)' <=> Touches(p, b)
  BY <1>2, <1>3 DEF AsIndexed, Excused, Touches, Uploads, Publishes, Removes, Reindexes
<1>6. (\A b \in checking : AsIndexed(b) \/ Excused(b))'
  BY <1>1, <1>5 DEF Audited
<1>7. (\A b \in mismatch : b \in unread \/ Excused(b))'
  BY <1>1, <1>5 DEF Audited, Disagrees
<1>8. ASSUME NEW b \in Entries PROVE Covered(b)'
  <2>1. Covered(b)
    BY <1>2, <1>8 DEF Audited
  <2>2. CASE b \in checking \cup mismatch /\ b # a
    BY <1>1, <2>2 DEF Covered
  <2>3. CASE b = a
    BY <1>1, <1>5, <2>3 DEF Covered, Disagrees
  <2>4. CASE AsIndexed(b)
    BY <1>5, <2>4 DEF Covered
  <2>5. CASE \E p \in Procs \ settled : Touches(p, b)
    BY <1>2, <1>5, <2>5 DEF Covered
  <2> QED
    BY <2>1, <2>2, <2>3, <2>4, <2>5 DEF Covered
<1>9. Entries' = Entries
  BY <1>3 DEF Entries
<1>10. (verify \in {"hashing", "ok"} => \A b \in Entries : Covered(b))'
  BY <1>8, <1>9
<1> QED
  BY <1>4, <1>6, <1>7, <1>10 DEF Audited

LEMMA StepAudited == Base /\ Base' /\ Audited /\ [ServingNext]_allvars => Audited'
<1> SUFFICES ASSUME Base, Base', Audited, [ServingNext]_allvars PROVE Audited'
  OBVIOUS
<1>1. CASE VerifyReads
  BY <1>1, ReadsAudited
<1>2. CASE VerifyNext
  BY <1>2, HashAudited
<1>3. CASE UNCHANGED audit
  BY <1>3, CommandsStep, AuditKept
<1> QED
  BY <1>1, <1>2, <1>3 DEF ServingNext, Mutating, Asking, Refuse, Unavailable, Operate,
                          ServingDone, allvars

---------------------------------------------------------------------------
(* All of it *)

LEMMA InitServingInv == ServingInit /\ Base => ServingInv
<1> SUFFICES ASSUME ServingInit, Base PROVE ServingInv
  OBVIOUS
<1>1. index.doc \in Document /\ Atomic!WellFormed(index.doc)
  BY DEF Base, DigestInv, PresenceInv, RefinementInv, CasInv, TypeInv, Typed, IndexWellFormed
<1>2. DocsKept
  <2>1. docs = << >> \/ docs = <<index.doc>>
    BY DEF ServingInit
  <2>2. written \in { << >>, <<0>> } /\ now = 0 /\ Len(written) = Len(docs)
    BY DEF ServingInit, Cache!Init
  <2>3. CASE docs = << >>
    <3>1. written = << >>
      BY <2>2, <2>3
    <3> QED
      BY <2>2, <2>3, <3>1 DEF DocsKept
  <2>4. CASE docs = <<index.doc>>
    <3>1. written = <<0>>
      BY <2>2, <2>4
    <3>2. docs \in Seq(Document) /\ DOMAIN docs = {1} /\ docs[1] = index.doc /\ Len(docs) = 1
      BY <1>1, <2>4
    <3>3. DOMAIN written = {1} /\ written[1] = 0 /\ Len(written) = 1
      BY <3>1
    <3> QED
      BY <1>1, <2>2, <3>2, <3>3 DEF DocsKept
  <2> QED
    BY <2>1, <2>3, <2>4
<1>3. reply = [r \in Requests |-> NoReply] /\ rpc = [r \in Requests |-> "idle"]
  BY DEF ServingInit, Cache!Init
<1>4. query \in [Requests -> Query]
  BY ServingAssumption DEF ServingInit
<1>5. RepliesKept /\ PublishedIsFound
  BY <1>3, <1>4 DEF RepliesKept, PublishedIsFound
<1>6. Audited
  BY DEF ServingInit, Audited, AuditTyped
<1> QED
  BY <1>2, <1>5, <1>6 DEF ServingInv

LEMMA ServingInvariant == ServingSpec => [](Base /\ ServingInv)
<1>1. Base /\ Base' /\ ServingInv /\ [ServingNext]_allvars => ServingInv'
  BY StepDocsKept, StepRepliesKept, StepFound, StepAudited DEF ServingInv
<1> QED
  BY <1>1, InitServingInv, BaseInvariant, PTL DEF ServingSpec

\* The state of readers and commands together is well formed: the documents are
\* those that were written, and only an answer of 200 has an artifact.
THEOREM ServingTypeCorrect == ServingSpec => []ServingTypeOK
<1>1. Base /\ ServingInv => ServingTypeOK
  <2> SUFFICES ASSUME Base, ServingInv PROVE ServingTypeOK
    OBVIOUS
  <2>1. TypeOK
    BY WellFormedState DEF Base, DigestInv
  <2>2. CP!TypeOK
    BY DEF Base, CP!ShapeInv
  <2>3. Cache!TypeOK
    BY <2>2 DEF CP!TypeOK, Cache!TypeOK, CP!Live, Cache!Live, CP!Final, Cache!Final
  <2> QED
    BY <2>1, <2>3 DEF ServingTypeOK, ServingInv, DocsKept, RepliesKept, Audited, AuditTyped
<1> QED
  BY <1>1, ServingInvariant, PTL

\* A request that passed is refused with 404 or 422 only by an index that lacked what
\* it asks for less than a TTL and a fetch before it came (README.md:62,164-165).
THEOREM WhatIsPublishedIsFound == ServingSpec => []PublishedIsFound
<1>1. ServingInv => PublishedIsFound
  BY DEF ServingInv
<1> QED
  BY <1>1, ServingInvariant, PTL

\* verify reads the index once and then the objects, while commands run and reads fail:
\* where it finds nothing it has read all and every entry describes its object; what it
\* reports it could not read (verify.go:43-46), or is the doing of a command that failed,
\* had not ended, or was not alone (README.md:147-148).
THEOREM VerifyIsRight == ServingSpec => []VerifyTells
<1>1. ServingInv => VerifyTells
  BY DEF ServingInv, Audited, AuditTyped, Covered, Excused, VerifyTells
<1> QED
  BY <1>1, ServingInvariant, PTL

\* A URL is signed, from a document that may be stale, for an object that is there and
\* is as indexed; otherwise the document was replaced less than a TTL ago, or commands
\* are at the object (rm.go:64-65, operations.go:155, README.md:62).
THEOREM SignedUrlsWork == ServingSpec => SignedObjectExists
<1>1. ASSUME Base, ServingInv, [ServingNext]_allvars, NEW r \in Requests,
             reply[r] = NoReply, reply'[r] # NoReply, NEW a, a = reply'[r].artifact, a # None
      PROVE  MaySign(r, a)
  <2>1. DocsKept /\ RepliesKept
    BY <1>1 DEF ServingInv
  <2>2. Refuse(r) \/ Unavailable(r) \/ Operate(r)
    <3>1. PICK q \in Requests : Refuse(q) \/ Unavailable(q) \/ Operate(q)
      BY <1>1, RepliesStep
    <3>2. PICK status, art : Answer(q, status, art)
      BY <1>1, <2>1, <3>1, AnswerFacts
    <3>3. q = r
      BY <1>1, <2>1, <3>2, AnswerStep
    <3> QED
      BY <3>1, <3>3
  <2>3. rpc[r] = "served" /\ \E s \in Slot : a = docs[answer[r]].arts[s]
    <3>1. PICK status \in {200, 401, 404, 422, 500}, art \in Artifact \cup {None} :
            /\ Answer(r, status, art)
            /\ art # None => /\ rpc[r] = "served"
                             /\ \E s \in Slot : art = docs[answer[r]].arts[s]
      BY <1>1, <2>1, <2>2, AnswerFacts
    <3>2. reply'[r] = [status |-> status, artifact |-> art]
      BY <2>1, <3>1, AnswerStep
    <3> QED
      BY <1>1, <3>1, <3>2
  <2>4. PICK s \in Slot : a = docs[answer[r]].arts[s]
    BY <2>3
  <2>5. /\ answer[r] \in 1..Len(docs)
        /\ Atomic!WellFormed(docs[answer[r]])
        /\ answer[r] = Len(docs) \/ InWindow(r, written[answer[r] + 1])
    BY <1>1, <2>1, <2>3, ServedDoc
  <2>6. a.key.slot = s
    BY <1>1, <2>4, <2>5 DEF Atomic!WellFormed, Atomic!Slot, Slot
  <2>7. ASSUME NEW n \in answer[r] + 1 .. Len(docs) PROVE InWindow(r, written[n])
    <3>1. /\ written \in Seq(0..MaxTime) /\ Len(docs) = Len(written) /\ Len(docs) \in Nat
          /\ answer[r] \in Nat /\ asked[r] \in Nat /\ MaxFlight \in Nat /\ TTL \in Nat
          /\ MaxTime \in Nat
      BY <1>1, <2>1, ServingAssumption DEF Base, CP!ShapeInv, CP!TypeOK, DocsKept
    <3>2. answer[r] + 1 \in DOMAIN written /\ n \in DOMAIN written /\ answer[r] + 1 <= n
          /\ answer[r] # Len(docs)
      BY <2>5, <2>7, <3>1
    <3>3. written[answer[r] + 1] <= written[n]
      BY <2>1, <3>2 DEF DocsKept
    <3>4. written[answer[r] + 1] \in Nat /\ written[n] \in Nat
      BY <3>1, <3>2
    <3>5. ASSUME NEW t \in Nat, NEW u \in Nat, t <= u, InWindow(r, t) PROVE InWindow(r, u)
      BY <3>1, <3>5 DEF InWindow
    <3> QED
      BY <2>5, <3>2, <3>3, <3>4, <3>5
  <2>8. CASE \E n \in answer[r] + 1 .. Len(docs) : docs[n].arts[s] # a
    BY <2>6, <2>7, <2>8 DEF MaySign
  <2>9. CASE \A n \in answer[r] + 1 .. Len(docs) : docs[n].arts[s] = a
    <3>1. docs[Len(docs)].arts[s] = a
      <4>1. CASE answer[r] = Len(docs)
        BY <2>4, <4>1
      <4>2. CASE answer[r] # Len(docs)
        <5>1. Len(docs) \in Nat
          BY <2>1 DEF DocsKept
        <5>2. Len(docs) \in answer[r] + 1 .. Len(docs)
          BY <2>5, <4>2, <5>1
        <5> QED
          BY <2>9, <5>2
      <4> QED
        BY <4>1, <4>2
    <3>2. Entry(s) = a
      BY <2>1, <2>5, <3>1 DEF DocsKept, Entry
    <3>3. EntryHasObject /\ DigestMatches
      BY <1>1 DEF Base, DigestInv, PresenceInv
    <3>4. CASE objects[a.key] = NoObject
      BY <1>1, <2>6, <3>2, <3>3, <3>4 DEF EntryHasObject, MaySign
    <3>5. CASE objects[a.key] # NoObject
      BY <1>1, <3>2, <3>3, <3>5 DEF DigestMatches, MaySign
    <3> QED
      BY <3>4, <3>5
  <2> QED
    BY <2>8, <2>9
<1>2. Base /\ ServingInv /\ [ServingNext]_allvars
        => [ \A r \in Requests :
               /\ reply[r] = NoReply
               /\ reply'[r] # NoReply
               /\ reply'[r].artifact # None
               => MaySign(r, reply'[r].artifact) ]_allvars
  BY <1>1
<1> QED
  BY <1>2, ServingInvariant, PTL DEF ServingSpec, SignedObjectExists
=============================================================================
