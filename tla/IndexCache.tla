----------------------------- MODULE IndexCache -----------------------------
(***************************************************************************)
(* The server's cache of one tool's index (indexCache in internal/server). *)
(* Requests run concurrently, each in a goroutine of its own: a request    *)
(* takes the cached document if it is young enough; otherwise it leads a   *)
(* flight that fetches index.json, or joins the one under way.  Meanwhile   *)
(* commands write the index, clients disconnect and S3 fails.  Documents    *)
(* are numbered in the order they were written; tools do not interact.      *)
(***************************************************************************)
EXTENDS Integers, Sequences, FiniteSets

CONSTANTS
    Requests,   \* the requests
    TTL,        \* S3REG_CACHE_TTL
    MaxFlight,  \* assumed: no flight takes longer, so no request waits longer
    MaxTime,    \* bound: how far the clock runs
    MaxWrites,  \* bound: how often the index is written
    NoEntry,    \* nothing is cached
    NoFlight    \* no flight is under way

ASSUME IndexCacheAssumption ==
    /\ {TTL, MaxFlight, MaxTime} \subseteq Nat
    /\ MaxWrites \in Nat \ {0}
    /\ NoEntry \notin [doc: Nat, fetchedAt: Nat]
    /\ NoFlight \notin [leader: Requests, since: Nat]

VARIABLES
    now,       \* time
    written,   \* when each document became the index, in order
    entry,     \* the cached document and when it was fetched
    flight,    \* the flight under way: its leader and its start
    pc,        \* where each request is
    asked,     \* when it looked at the cache
    seen,      \* the entry that it saw there
    answer,    \* the document that it got, 0 for an error
    by,        \* the leader of the flight it got it from, itself if none
    lost,      \* leaders whose fetch has failed
    earlier    \* the documents served to others before it looked

upstream == <<now, written>>
local    == <<asked, seen, earlier>>
vars     == <<upstream, entry, flight, pc, local, answer, by, lost>>

Live == Len(written)

Final == {"served", "failed"}

Init ==
    /\ now = 0
    /\ written \in { << >>, <<0>> }
    /\ entry = NoEntry
    /\ flight = NoFlight
    /\ pc = [r \in Requests |-> "idle"]
    /\ asked = [r \in Requests |-> 0]
    /\ seen = [r \in Requests |-> NoEntry]
    /\ answer = [r \in Requests |-> 0]
    /\ by = [r \in Requests |-> r]
    /\ lost = {}
    /\ earlier = [r \in Requests |-> {}]

Answered == { answer[q] : q \in { r \in Requests : pc[r] = "served" } }

---------------------------------------------------------------------------
(* A request *)

\* Reads the entry under the read lock.
Look(r) ==
    /\ pc[r] = "idle"
    /\ pc' = [pc EXCEPT ![r] = "looked"]
    /\ asked' = [asked EXCEPT ![r] = now]
    /\ seen' = [seen EXCEPT ![r] = entry]
    /\ earlier' = [earlier EXCEPT ![r] = Answered]
    /\ UNCHANGED <<upstream, entry, flight, answer, by, lost>>

Fresh(e) == e # NoEntry /\ now - e.fetchedAt < TTL

\* Variant: an entry of exactly the TTL still counts.
CheckInclusive(r) ==
    /\ pc[r] = "looked"
    /\ IF seen[r] # NoEntry /\ now - seen[r].fetchedAt <= TTL
       THEN /\ answer' = [answer EXCEPT ![r] = seen[r].doc]
            /\ pc' = [pc EXCEPT ![r] = "served"]
       ELSE /\ pc' = [pc EXCEPT ![r] = "missed"]
            /\ UNCHANGED answer
    /\ seen' = [seen EXCEPT ![r] = NoEntry]
    /\ UNCHANGED <<upstream, entry, flight, asked, earlier, by, lost>>

\* Without the lock, and with the clock as it is by now.
Check(r) ==
    /\ pc[r] = "looked"
    /\ IF Fresh(seen[r])
       THEN /\ answer' = [answer EXCEPT ![r] = seen[r].doc]
            /\ pc' = [pc EXCEPT ![r] = "served"]
       ELSE /\ pc' = [pc EXCEPT ![r] = "missed"]
            /\ UNCHANGED answer
    /\ seen' = [seen EXCEPT ![r] = NoEntry]
    /\ UNCHANGED <<upstream, entry, flight, asked, earlier, by, lost>>

\* sf.Do while a flight is under way.
Join(r) ==
    /\ pc[r] = "missed"
    /\ flight # NoFlight
    /\ pc' = [pc EXCEPT ![r] = "waiting"]
    /\ UNCHANGED <<upstream, entry, flight, local, answer, by, lost>>

\* Variant: no singleflight, every miss fetches.
LeadAlways(r) ==
    /\ pc[r] = "missed"
    /\ flight' = [leader |-> r, since |-> now]
    /\ pc' = [pc EXCEPT ![r] = "fetching"]
    /\ UNCHANGED <<upstream, entry, local, answer, by, lost>>

\* sf.Do otherwise.  Having missed once is enough: the entry is not looked at again.
Lead(r) ==
    /\ pc[r] = "missed"
    /\ flight = NoFlight
    /\ flight' = [leader |-> r, since |-> now]
    /\ pc' = [pc EXCEPT ![r] = "fetching"]
    /\ UNCHANGED <<upstream, entry, local, answer, by, lost>>

\* Variant: remembers that there was no index.
FetchRemembers(r) ==
    /\ pc[r] = "fetching"
    /\ answer' = [answer EXCEPT ![r] = Live]
    /\ pc' = [pc EXCEPT ![r] = "storing"]
    /\ UNCHANGED <<upstream, entry, flight, local, by, lost>>

\* store.GetIndex: S3 reads the index, or there is none.
Fetch(r) ==
    /\ pc[r] = "fetching"
    /\ answer' = [answer EXCEPT ![r] = Live]
    /\ pc' = [pc EXCEPT ![r] = IF Live = 0 THEN "landing" ELSE "storing"]
    /\ UNCHANGED <<upstream, entry, flight, local, by, lost>>

\* It fails: S3 does, or the leader's client disconnects, which cancels the
\* context that the fetch has.
FetchFails(r) ==
    /\ pc[r] = "fetching"
    /\ lost' = lost \cup {r}
    /\ pc' = [pc EXCEPT ![r] = "landing"]
    /\ UNCHANGED <<upstream, entry, flight, local, answer, by>>

\* The entry is written under the lock, dated by the clock after the fetch.
Store(r) ==
    /\ pc[r] = "storing"
    /\ entry' = [doc |-> answer[r], fetchedAt |-> now]
    /\ pc' = [pc EXCEPT ![r] = "landing"]
    /\ UNCHANGED <<upstream, flight, local, answer, by, lost>>

\* Variant: those who joined a flight are not given its result.
LandAlone(r) ==
    /\ pc[r] = "landing"
    /\ flight' = NoFlight
    /\ pc' = [ q \in Requests |->
         IF q = r THEN (IF answer[r] = 0 THEN "failed" ELSE "served")
         ELSE IF pc[q] = "waiting" THEN "failed" ELSE pc[q] ]
    /\ by' = [q \in Requests |-> IF pc[q] = "waiting" THEN r ELSE by[q]]
    /\ UNCHANGED <<upstream, entry, local, answer, lost>>

\* Variant: after an error all of them try again.
LandRetrying(r) ==
    LET aboard == {r} \cup { q \in Requests : pc[q] = "waiting" }
    IN  /\ pc[r] = "landing"
        /\ flight' = NoFlight
        /\ pc' = [ q \in Requests |->
             IF q \notin aboard THEN pc[q]
             ELSE IF answer[r] = 0 THEN "missed" ELSE "served" ]
        /\ answer' = [q \in Requests |-> IF q \in aboard THEN answer[r] ELSE answer[q]]
        /\ by' = [q \in Requests |-> IF q \in aboard THEN r ELSE by[q]]
        /\ UNCHANGED <<upstream, entry, local, lost>>

\* The flight ends, and its result, a document or an error, is everybody's.
Land(r) ==
    LET aboard == {r} \cup { q \in Requests : pc[q] = "waiting" }
    IN  /\ pc[r] = "landing"
        /\ flight' = NoFlight
        /\ pc' = [ q \in Requests |->
             IF q \notin aboard THEN pc[q]
             ELSE IF answer[r] = 0 THEN "failed" ELSE "served" ]
        /\ answer' = [q \in Requests |-> IF q \in aboard THEN answer[r] ELSE answer[q]]
        /\ by' = [q \in Requests |-> IF q \in aboard THEN r ELSE by[q]]
        /\ UNCHANGED <<upstream, entry, local, lost>>

---------------------------------------------------------------------------
(* Around it *)

\* A command writes the index.
Write ==
    /\ Live < MaxWrites
    /\ written' = Append(written, now)
    /\ UNCHANGED <<now, entry, flight, pc, local, answer, by, lost>>

\* Time passes, but no flight grows older than MaxFlight.
Tick ==
    /\ now < MaxTime
    /\ flight # NoFlight => now < flight.since + MaxFlight
    /\ now' = now + 1
    /\ UNCHANGED <<written, entry, flight, pc, local, answer, by, lost>>

Done == (\A r \in Requests : pc[r] \in Final) /\ UNCHANGED vars

Step(r) ==
    \/ Look(r)
    \/ Check(r)
    \/ Join(r)
    \/ Lead(r)
    \/ Fetch(r)
    \/ FetchFails(r)
    \/ Store(r)
    \/ Land(r)

Next ==
    \/ \E r \in Requests : Step(r)
    \/ Write
    \/ Tick
    \/ Done

\* The goroutines of requests run, and S3 answers every call or fails it.
Fairness == \A r \in Requests : WF_vars(Step(r))

Spec == Init /\ [][Next]_vars

FairSpec == Spec /\ Fairness

---------------------------------------------------------------------------
(* Properties *)

TypeOK ==
    /\ now \in 0..MaxTime
    /\ written \in Seq(0..MaxTime)
    /\ Live <= MaxWrites
    /\ entry \in [doc: 1..MaxWrites, fetchedAt: 0..MaxTime] \cup {NoEntry}
    /\ flight \in [leader: Requests, since: 0..MaxTime] \cup {NoFlight}
    /\ pc \in [Requests -> {"idle", "looked", "missed", "waiting", "fetching",
                            "storing", "landing"} \cup Final]
    /\ asked \in [Requests -> 0..MaxTime]
    /\ seen \in [Requests -> [doc: 1..MaxWrites, fetchedAt: 0..MaxTime] \cup {NoEntry}]
    /\ answer \in [Requests -> 0..MaxWrites]
    /\ by \in [Requests -> Requests]
    /\ lost \subseteq Requests
    /\ earlier \in [Requests -> SUBSET (1..MaxWrites)]
    /\ \A r \in Requests : pc[r] = "served" => answer[r] # 0

\* cache.go:23-24: concurrent misses collapse, so no two fetches of a tool's index
\* overlap, and whoever waits has someone to wait for.
OneFlight ==
    /\ \A r \in Requests : pc[r] \in {"fetching", "storing", "landing"}
                             => flight # NoFlight /\ flight.leader = r
    /\ \A r \in Requests : pc[r] = "waiting" => flight # NoFlight

\* cache.go:53-65: the entry is written inside the flight, so the cache never goes
\* back to an older document, however long a fetch takes.
NeverBackwards ==
    [][ entry # NoEntry => entry' # NoEntry /\ entry'.doc >= entry.doc ]_vars

\* cache.go:45-70: nobody is served an older index than one that was served before
\* its request came, by the cache or by a flight.
MonotonicReads ==
    \A r \in Requests : pc[r] = "served" => \A d \in earlier[r] : d <= answer[r]

\* README.md:62: after another document took its place in the bucket, a document is
\* served for less than the TTL, beyond the time that one fetch may take.
FreshWithin ==
    \A r \in Requests :
      /\ pc[r] = "served"
      /\ answer[r] < Live
      => \/ asked[r] <= written[answer[r] + 1] + MaxFlight
         \/ asked[r] < written[answer[r] + 1] + MaxFlight + TTL

\* cache.go:53-68: a request fails only by the flight that it was in -- its leader's
\* fetch failed, or read the bucket before the index was first written; never
\* because a flight failed before, as errors are not kept.
FailsByItsFlight ==
    \A r \in Requests :
      pc[r] = "failed" =>
        \/ by[r] \in lost
        \/ Live = 0
        \/ asked[r] <= written[1] + MaxFlight

\* Every request is answered, whoever disconnects.
EveryRequestEnds == \A r \in Requests : pc[r] = "looked" ~> pc[r] \in Final
=============================================================================
