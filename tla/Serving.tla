------------------------------ MODULE Serving ------------------------------
(***************************************************************************)
(* Those who only read the bucket while the commands of module Registry    *)
(* change it: the HTTP operations of internal/server, which answer from    *)
(* the cache of module IndexCache and sign URLs for objects they do not     *)
(* look at, and s3reg verify, which reads the index once and then hashes    *)
(* one object after the other.                                             *)
(***************************************************************************)
EXTENDS Registry

CONSTANTS
    Requests, TTL, MaxFlight, MaxTime, MaxWrites, NoEntry, NoFlight,  \* of IndexCache
    Rank,        \* semver precedence of a version string, 0 if unparseable
    Audiences,   \* what the requests ask for, whether verify runs, and during
                 \* which commands
    NoReply      \* a request has not been answered

\* A request for versions, for the version that a range resolves to, or for an
\* artifact: a range is the set of versions it accepts, None an os or arch that
\* is missing.  admitted: it has the token, or none is configured.
Query == [ kind: {"versions", "resolve", "artifact"}, accepts: SUBSET Versions,
           osArch: OsArches \cup {None}, admitted: BOOLEAN ]

Reply == [status: {200, 401, 404, 422, 500}, artifact: Artifact \cup {None}]

ASSUME ServingAssumption ==
    /\ Rank \in [Versions -> Nat]
    /\ \A a \in Audiences :
         /\ a.query \in [Requests -> Query]
         /\ \A r \in Requests, v \in Versions : v \in a.query[r].accepts => Rank[v] > 0
         /\ a.verifying \in BOOLEAN
    /\ NoReply \notin Reply
    /\ {TTL, MaxFlight, MaxTime} \subseteq Nat
    /\ MaxWrites \in Nat \ {0}
    /\ NoEntry \notin [doc: Nat, fetchedAt: Nat]
    /\ NoFlight \notin [leader: Requests, since: Nat]

VARIABLES
    now, written, entry, flight, rpc, asked, seen, answer, by, lost, earlier,
                \* of IndexCache, rpc being its pc
    docs,       \* the documents that were the index, in the order written
    query,      \* what each request asks for
    reply,      \* what it was answered
    verify,     \* where verify is
    checking,   \* the entries that it has yet to hash
    mismatch,   \* those that it reports
    unread,     \* of these, those that S3 did not let it read
    settled     \* the invocations that had ended when it read the index

cvars    == <<now, written, entry, flight, rpc, asked, seen, answer, by, lost, earlier>>
audit    == <<verify, checking, mismatch, unread, settled>>
allvars  == <<vars, cvars, docs, query, reply, audit>>

Cache == INSTANCE IndexCache WITH pc <- rpc

ServingInit ==
    /\ Init
    /\ Cache!Init
    /\ docs = IF index.etag = 0 THEN << >> ELSE <<index.doc>>
    /\ Len(written) = Len(docs)
    /\ reply = [r \in Requests |-> NoReply]
    /\ \E a \in Audiences :
         /\ cmd \in a.during
         /\ query = a.query
         /\ verify = IF a.verifying THEN "start" ELSE "off"
    /\ checking = {}
    /\ mismatch = {}
    /\ unread = {}
    /\ settled = {}

---------------------------------------------------------------------------
(* The commands, and what the cache sees of them *)

Mutating ==
    /\ \E p \in Procs : Step(p) \/ Fault(p)
    /\ IF index' = index
       THEN UNCHANGED <<cvars, docs>>
       ELSE /\ docs' = Append(docs, index'.doc)
            /\ Cache!Write
    /\ UNCHANGED <<query, reply, audit>>

---------------------------------------------------------------------------
(* A request *)

\* authMiddleware lets it pass, and the parameters are there.
Accepted(r) ==
    /\ query[r].admitted
    /\ query[r].kind = "artifact" => query[r].osArch # None

Answer(r, status, art) ==
    reply' = [reply EXCEPT ![r] = [status |-> status, artifact |-> art]]

\* Neither a request without the token nor one without os and arch gets to the
\* cache.
Refuse(r) ==
    /\ rpc[r] = "idle"
    /\ reply[r] = NoReply
    /\ ~Accepted(r)
    /\ Answer(r, IF query[r].admitted THEN 422 ELSE 401, None)
    /\ UNCHANGED <<vars, cvars, docs, query, audit>>

\* cache.Get, and the clock by which it judges.
Asking ==
    /\ \/ \E r \in Requests : Accepted(r) /\ Cache!Step(r)
       \/ Cache!Tick
    /\ UNCHANGED <<vars, docs, query, reply, audit>>

\* Variant: every error is an unknown tool.
mapStoreErrAlike(r) == 404

\* mapStoreErr: no index.json is an unknown tool, any other error the server's.
mapStoreErr(r) == IF by[r] \in lost THEN 500 ELSE 404

Unavailable(r) ==
    /\ rpc[r] = "failed"
    /\ reply[r] = NoReply
    /\ Answer(r, mapStoreErr(r), None)
    /\ UNCHANGED <<vars, cvars, docs, query, audit>>

\* semver.Resolve: the highest of the document's versions that a range accepts;
\* of versions of equal precedence any.
Resolve(doc, accepts) ==
    LET fit == { v \in accepts : HasVersion(doc, v) }
    IN  { v \in fit : \A w \in fit : Rank[w] <= Rank[v] }

listVersions(r) ==
    /\ query[r].kind = "versions"
    /\ Answer(r, 200, None)

resolveVersion(r, doc) ==
    /\ query[r].kind = "resolve"
    /\ Answer(r, IF Resolve(doc, query[r].accepts) = {} THEN 422 ELSE 200, None)

\* Variant: fills in the answer before the URL is signed.
getArtifactUnsigned(r, doc) ==
    /\ query[r].kind = "artifact"
    /\ \E v \in Resolve(doc, query[r].accepts), status \in {200, 500} :
         Answer(r, status, doc.arts[[version |-> v, osArch |-> query[r].osArch]])

\* PresignGet makes no call to S3.  It fails without credentials.
getArtifact(r, doc) ==
    LET found(v) == doc.arts[[version |-> v, osArch |-> query[r].osArch]]
        resolved == Resolve(doc, query[r].accepts)
    IN  /\ query[r].kind = "artifact"
        /\ \/ resolved = {} /\ Answer(r, 404, None)
           \/ \E v \in resolved :
                IF found(v) = None THEN Answer(r, 404, None)
                ELSE Answer(r, 200, found(v)) \/ Answer(r, 500, None)

Operate(r) ==
    /\ rpc[r] = "served"
    /\ reply[r] = NoReply
    /\ LET doc == docs[answer[r]]
       IN  listVersions(r) \/ resolveVersion(r, doc) \/ getArtifact(r, doc)
    /\ UNCHANGED <<vars, cvars, docs, query, audit>>

---------------------------------------------------------------------------
(* verify *)

Entries == { index.doc.arts[s] : s \in Slot } \ {None}

\* GetIndex.  Without an index, or an answer, verify ends in its error.
VerifyReads ==
    /\ verify = "start"
    /\ settled' = { p \in Procs : pc[p] \in Final }
    /\ \/ /\ index.etag # 0
          /\ checking' = Entries
          /\ verify' = IF Entries = {} THEN "ok" ELSE "hashing"
       \/ /\ checking' = {}
          /\ verify' = "failed"
    /\ UNCHANGED <<vars, cvars, docs, query, reply, mismatch, unread>>

\* Variant: an object that is missing is passed over.
DisagreesIfRead(a) == objects[a.key] # NoObject /\ ~AsIndexed(a)

\* hashObject: an object that is missing disagrees too.
Disagrees(a) == ~AsIndexed(a)

\* The order of versions in the index: ascending, the unparseable ones last.
Precedes(v, w) == Rank[v] > 0 /\ (Rank[w] = 0 \/ Rank[v] < Rank[w])

\* The next entry, os-arches in any order.  An object that cannot be read is reported
\* like one that is wrong, whatever kept it from being read.
VerifyNext ==
    /\ verify = "hashing"
    /\ \E a \in checking :
         /\ \A b \in checking : ~Precedes(b.key.slot.version, a.key.slot.version)
         /\ checking' = checking \ {a}
         /\ \/ /\ mismatch' = IF Disagrees(a) THEN mismatch \cup {a} ELSE mismatch
               /\ unread' = unread
            \/ /\ mismatch' = mismatch \cup {a}
               /\ unread' = unread \cup {a}
    /\ verify' = CASE checking' # {} -> "hashing"
                   [] checking' = {} /\ mismatch' = {} -> "ok"
                   [] OTHER -> "failed"
    /\ UNCHANGED <<vars, cvars, docs, query, reply, settled>>

---------------------------------------------------------------------------
\* Requests are one-shot too; a process that only waits for requests stops here.
ServingDone ==
    /\ \A p \in Procs : pc[p] \in Final
    /\ \A r \in Requests : reply[r] # NoReply
    /\ verify \in {"off", "ok", "failed"}
    /\ UNCHANGED allvars

ServingNext ==
    \/ Mutating
    \/ Asking
    \/ \E r \in Requests : Refuse(r) \/ Unavailable(r) \/ Operate(r)
    \/ VerifyReads
    \/ VerifyNext
    \/ ServingDone

ServingSpec == ServingInit /\ [][ServingNext]_allvars

---------------------------------------------------------------------------
(* Properties *)

ServingTypeOK ==
    /\ TypeOK
    /\ Cache!TypeOK
    /\ docs \in Seq(Document)
    /\ Len(docs) = Len(written)
    /\ docs = << >> \/ docs[Len(docs)] = index.doc
    /\ query \in [Requests -> Query]
    /\ reply \in [Requests -> Reply \cup {NoReply}]
    /\ \A r \in Requests : reply[r] # NoReply /\ reply[r].artifact # None
                             => reply[r].status = 200
    /\ verify \in {"off", "start", "hashing", "ok", "failed"}
    /\ checking \cup mismatch \subseteq Artifact
    /\ unread \subseteq mismatch
    /\ settled \subseteq Procs

\* A request may be answered from a document that another one replaced at time t
\* if it came less than the TTL, and the time of a fetch, after.
InWindow(r, t) == asked[r] <= t + MaxFlight \/ asked[r] < t + MaxFlight + TTL

\* A URL for artifact a: it works, or the document that r is answered from lost a less
\* than the TTL ago, or commands are at a's object.
MaySign(r, a) ==
    \/ AsIndexed(a)
    \/ \E n \in answer[r] + 1 .. Len(docs) :
         docs[n].arts[a.key.slot] # a /\ InWindow(r, written[n])
    \/ \E p \in Procs : Uploads(p, a.key) /\ pc[p] # "ok"
    \/ \E p, q \in Procs : Removes(p, a.key.slot) /\ (Publishes(q, a.key.slot) \/ Reindexes(q))
    \/ \E p, q \in Procs : p # q /\ Uploads(p, a.key) /\ (Uploads(q, a.key) \/ Reindexes(q))

\* rm.go:64-65, operations.go:155, README.md:62: a URL is signed for an object that
\* is there with the digest that goes with it -- except within the TTL of the index
\* write that dropped or replaced the entry, while a publish of the same key, or one
\* that died, has not written the index, or where two commands are about the entry.
SignedObjectExists ==
    [][ \A r \in Requests :
          /\ reply[r] = NoReply
          /\ reply'[r] # NoReply
          /\ reply'[r].artifact # None
          => MaySign(r, reply'[r].artifact) ]_allvars

\* Whether the n-th document, the 0th being none, lacks what a request asks for: a
\* version that the range accepts or, in one to which it resolves, the os and arch.
Lacks(n, r) ==
    \/ n = 0
    \/ /\ query[r].kind # "versions"
       /\ Resolve(docs[n], query[r].accepts) = {}
    \/ /\ query[r].kind = "artifact"
       /\ \E v \in Resolve(docs[n], query[r].accepts) :
            docs[n].arts[[version |-> v, osArch |-> query[r].osArch]] = None

\* README.md:62,164-165: a request that passed is refused with 404 or 422 only if the
\* index lacked what it asks for less than a TTL and a fetch before it came; what a
\* publish has put there is found from then on, whatever failed meanwhile.
PublishedIsFound ==
    \A r \in Requests :
      /\ reply[r] # NoReply
      /\ Accepted(r)
      /\ reply[r].status \in {404, 422}
      => \E n \in 0 .. Len(docs) :
           Lacks(n, r) /\ (n = Len(docs) \/ InWindow(r, written[n + 1]))

Touches(p, a) ==
    \/ Uploads(p, a.key)
    \/ Publishes(p, a.key.slot)
    \/ Removes(p, a.key.slot)
    \/ Reindexes(p)

\* README.md:147-148: where verify found nothing it has read every object, and every
\* entry describes its own; what it reports it could not read (verify.go:43-46), or is a
\* command's doing -- of one that failed, of one that had not ended when verify read
\* the index, or of two that touched the same entry.
VerifyTells ==
    /\ verify = "ok" =>
         /\ unread = {}
         /\ \A a \in Entries :
              AsIndexed(a) \/ \E p \in Procs \ settled : Touches(p, a)
    /\ \A a \in mismatch :
         \/ a \in unread
         \/ \E p \in Procs : Touches(p, a) /\ (p \notin settled \/ pc[p] # "ok")
         \/ \E p, q \in Procs : p # q /\ Touches(p, a) /\ Touches(q, a)

---------------------------------------------------------------------------
(* What the documentation says and the code does not do *)

\* README.md:164-165: "422 when no version satisfies a range" -- the artifact
\* operation answers 404 to that as well.
NoMatchIs422 ==
    \A r \in Requests :
      /\ reply[r] # NoReply
      /\ rpc[r] = "served"
      /\ query[r].kind # "versions"
      /\ Resolve(docs[answer[r]], query[r].accepts) = {}
      => reply[r].status = 422
=============================================================================
