---------------------------- MODULE CacheProofs ----------------------------
(***************************************************************************)
(* Proofs about IndexCache, for any number of requests, writes and flights: *)
(* type correctness, one flight at a time, and what that gives -- the      *)
(* cache and its readers never go back to an older document, a document    *)
(* that was replaced is not served for long, and no request fails by       *)
(* another's flight.                                                       *)
(***************************************************************************)
EXTENDS IndexCache, TLAPS

Leading == {"fetching", "storing", "landing"}

\* The one who leads the flight is the only one between sf.Do and its result.
FlightInv ==
    /\ OneFlight
    /\ flight # NoFlight => pc[flight.leader] \in Leading

\* Nobody has an answer that it was not given.
Unanswered ==
    \A r \in Requests :
      pc[r] \in {"idle", "looked", "missed", "waiting", "fetching"} => answer[r] = 0

ShapeInv == TypeOK /\ FlightInv /\ Unanswered /\
    \A r \in Requests : pc[r] = "storing" => answer[r] # 0

USE IndexCacheAssumption

LEMMA InitShape == Init => ShapeInv
<1> SUFFICES ASSUME Init PROVE ShapeInv
  OBVIOUS
<1>1. written \in Seq(0..MaxTime) /\ Live <= MaxWrites
  <2>1. CASE written = << >>
    BY <2>1 DEF Live
  <2>2. CASE written = <<0>>
    BY <2>2 DEF Live
  <2> QED
    BY <2>1, <2>2 DEF Init
<1>2. TypeOK
  BY <1>1 DEF Init, TypeOK, Final
<1> QED
  BY <1>2 DEF Init, ShapeInv, FlightInv, OneFlight, Unanswered

LEMMA StepShape == ShapeInv /\ [Next]_vars => ShapeInv'
<1> SUFFICES ASSUME ShapeInv, [Next]_vars PROVE ShapeInv'
  OBVIOUS
<1> USE DEF ShapeInv, FlightInv, OneFlight, Unanswered, TypeOK, Final, Leading, Live,
            upstream, local
<1>1. ASSUME NEW r \in Requests, Look(r) PROVE ShapeInv'
  <2>1. Answered \subseteq 1..MaxWrites
    BY DEF Answered
  <2>2. earlier' \in [Requests -> SUBSET (1..MaxWrites)]
    BY <1>1, <2>1 DEF Look
  <2>3. pc' \in [Requests -> {"idle", "looked", "missed", "waiting", "fetching",
                              "storing", "landing"} \cup Final]
    BY <1>1 DEF Look
  <2>4. /\ asked' \in [Requests -> 0..MaxTime]
        /\ seen' \in [Requests -> [doc: 1..MaxWrites, fetchedAt: 0..MaxTime] \cup {NoEntry}]
    BY <1>1 DEF Look
  <2>5. TypeOK'
    BY <1>1, <2>2, <2>3, <2>4 DEF Look
  <2>6. \A q \in Requests : q # r => pc'[q] = pc[q]
    BY <1>1 DEF Look
  <2>7. pc'[r] = "looked" /\ pc[r] = "idle"
    BY <1>1 DEF Look
  <2>8. FlightInv'
    BY <1>1, <2>6, <2>7 DEF Look
  <2>9. Unanswered' /\ \A q \in Requests : pc'[q] = "storing" => answer'[q] # 0
    BY <1>1, <2>6, <2>7 DEF Look
  <2> QED
    BY <2>5, <2>8, <2>9
<1>2. ASSUME NEW r \in Requests, Check(r) PROVE ShapeInv'
  <2>1. CASE Fresh(seen[r])
    <3>1. seen[r].doc \in 1..MaxWrites
      BY <2>1 DEF Fresh
    <3>2. /\ pc' = [pc EXCEPT ![r] = "served"]
          /\ answer' = [answer EXCEPT ![r] = seen[r].doc]
          /\ seen' = [seen EXCEPT ![r] = NoEntry]
          /\ pc[r] = "looked"
          /\ UNCHANGED <<upstream, entry, flight, asked, earlier, by, lost>>
      BY <1>2, <2>1 DEF Check
    <3>3. TypeOK'
      BY <3>1, <3>2
    <3> QED
      BY <3>1, <3>2, <3>3
  <2>2. CASE ~Fresh(seen[r])
    BY <1>2, <2>2 DEF Check
  <2> QED
    BY <2>1, <2>2
<1>3. ASSUME NEW r \in Requests, Join(r) PROVE ShapeInv'
  BY <1>3 DEF Join
<1>4. ASSUME NEW r \in Requests, Lead(r) PROVE ShapeInv'
  BY <1>4 DEF Lead
<1>5. ASSUME NEW r \in Requests, Fetch(r) PROVE ShapeInv'
  BY <1>5 DEF Fetch
<1>6. ASSUME NEW r \in Requests, FetchFails(r) PROVE ShapeInv'
  BY <1>6 DEF FetchFails
<1>7. ASSUME NEW r \in Requests, Store(r) PROVE ShapeInv'
  BY <1>7 DEF Store
<1>8. ASSUME NEW r \in Requests, Land(r) PROVE ShapeInv'
  BY <1>8 DEF Land
<1>9. CASE Write
  BY <1>9 DEF Write
<1>10. CASE Tick
  BY <1>10 DEF Tick
<1>11. CASE UNCHANGED vars
  BY <1>11 DEF vars
<1> QED
  BY <1>1, <1>2, <1>3, <1>4, <1>5, <1>6, <1>7, <1>8, <1>9, <1>10, <1>11 DEF Next, Step, Done

\* Every reachable state of the cache is well formed.
THEOREM CacheTypeCorrect == Spec => []TypeOK
<1>1. ShapeInv => TypeOK
  BY DEF ShapeInv
<1> QED
  BY <1>1, InitShape, StepShape, PTL DEF Spec

\* cache.go:23-24: no two fetches of a tool's index overlap, and nobody waits for
\* a flight that has ended.
THEOREM OneFlightAtATime == Spec => []OneFlight
<1>1. ShapeInv => OneFlight
  BY DEF ShapeInv, FlightInv
<1> QED
  BY <1>1, InitShape, StepShape, PTL DEF Spec

---------------------------------------------------------------------------
(* Order.  All documents that anybody has got so far are at most as new as  *)
(* the entry, the entry is at most as new as what the flight has fetched,   *)
(* and that is at most as new as the bucket's index.                       *)

Cached == IF entry = NoEntry THEN 0 ELSE entry.doc

Placed(r) ==
    /\ \A d \in earlier[r] : d <= Cached
    /\ pc[r] = "looked" =>
         IF seen[r] = NoEntry THEN earlier[r] = {}
         ELSE seen[r].doc <= Cached /\ \A d \in earlier[r] : d <= seen[r].doc
    /\ pc[r] = "storing" => Cached <= answer[r] /\ answer[r] <= Live
    /\ pc[r] = "landing" => answer[r] \in {0, Cached}
    /\ pc[r] = "served" => answer[r] <= Cached /\ \A d \in earlier[r] : d <= answer[r]

OrderInv == Cached <= Live /\ \A r \in Requests : Placed(r)

LEMMA InitOrder == Init => OrderInv
<1> SUFFICES ASSUME Init PROVE OrderInv
  OBVIOUS
<1>1. entry = NoEntry /\ Cached = 0
  BY DEF Init, Cached
<1>2. 0 <= Live
  <2>1. CASE written = << >>
    BY <2>1 DEF Live
  <2>2. CASE written = <<0>>
    BY <2>2 DEF Live
  <2> QED
    BY <2>1, <2>2 DEF Init
<1>3. ASSUME NEW r \in Requests PROVE Placed(r)
  BY <1>1 DEF Placed, Init
<1> QED
  BY <1>1, <1>2, <1>3 DEF OrderInv

LEMMA Numbers ==
    ASSUME TypeOK
    PROVE  /\ Cached \in Nat /\ Live \in Nat
           /\ \A r \in Requests : answer[r] \in Nat /\ earlier[r] \subseteq Nat
           /\ \A r \in Requests : seen[r] # NoEntry => seen[r].doc \in Nat
BY DEF TypeOK, Cached, Live

\* A request that does not move keeps its place while the entry stays.
LEMMA PlaceKept ==
    ASSUME TypeOK, TypeOK', NEW r \in Requests, Placed(r),
           pc'[r] = pc[r], answer'[r] = answer[r], seen'[r] = seen[r],
           earlier'[r] = earlier[r], Cached' = Cached, Live <= Live'
    PROVE  Placed(r)'
<1>1. /\ Cached \in Nat /\ Live \in Nat /\ answer[r] \in Nat
      /\ earlier[r] \subseteq Nat
      /\ seen[r] # NoEntry => seen[r].doc \in Nat
  BY Numbers
<1>2. Live' \in Nat
  BY DEF TypeOK, Live
<1> QED
  BY <1>1, <1>2 DEF Placed

LEMMA StepOrder == ShapeInv /\ ShapeInv' /\ OrderInv /\ [Next]_vars => OrderInv'
<1> SUFFICES ASSUME ShapeInv, ShapeInv', OrderInv, [Next]_vars PROVE OrderInv'
  OBVIOUS
<1>1. TypeOK /\ TypeOK' /\ FlightInv /\ Unanswered
  BY DEF ShapeInv
<1>2. /\ Cached \in Nat /\ Live \in Nat
      /\ \A r \in Requests : answer[r] \in Nat /\ earlier[r] \subseteq Nat
      /\ \A r \in Requests : seen[r] # NoEntry => seen[r].doc \in Nat
  BY <1>1, Numbers
<1>3. Cached <= Live /\ \A q \in Requests : Placed(q)
  BY DEF OrderInv
<1> USE DEF upstream, local
\* The steps of one request that leave the entry alone.
<1>4. ASSUME NEW r \in Requests, UNCHANGED <<entry, written>>, Placed(r)',
             \A q \in Requests \ {r} :
               /\ pc'[q] = pc[q] /\ answer'[q] = answer[q]
               /\ seen'[q] = seen[q] /\ earlier'[q] = earlier[q]
      PROVE  OrderInv'
  <2>1. Cached' = Cached /\ Live' = Live
    BY <1>4 DEF Cached, Live
  <2>2. ASSUME NEW q \in Requests PROVE Placed(q)'
    <3>1. CASE q = r
      BY <3>1, <1>4
    <3>2. CASE q # r
      BY <3>2, <1>1, <1>2, <1>3, <1>4, <2>1, PlaceKept
    <3> QED
      BY <3>1, <3>2
  <2> QED
    BY <1>3, <2>1, <2>2 DEF OrderInv
<1>5. ASSUME NEW r \in Requests, Look(r) PROVE OrderInv'
  <2>1. \A d \in Answered : d \in Nat /\ d <= Cached
    BY <1>2, <1>3 DEF Answered, Placed
  <2>2. Cached' = Cached /\ pc'[r] = "looked" /\ seen'[r] = entry /\ earlier'[r] = Answered
    BY <1>1, <1>5 DEF Look, Cached, TypeOK
  <2>3. entry = NoEntry => Answered = {}
    BY <1>1, <1>2, <1>3 DEF Answered, Placed, TypeOK, Cached
  <2>4. Placed(r)'
    BY <1>2, <2>1, <2>2, <2>3 DEF Placed, Cached
  <2> QED
    BY <1>1, <1>4, <1>5, <2>4 DEF Look, TypeOK
<1>6. ASSUME NEW r \in Requests, Check(r) PROVE OrderInv'
  <2>1. Cached' = Cached /\ earlier'[r] = earlier[r] /\ pc[r] = "looked"
    BY <1>6 DEF Check, Cached
  <2>2. CASE Fresh(seen[r])
    <3>1. pc'[r] = "served" /\ answer'[r] = seen[r].doc /\ seen[r] # NoEntry
      BY <1>1, <1>6, <2>2 DEF Check, Fresh, TypeOK
    <3>2. Placed(r)'
      BY <1>2, <1>3, <2>1, <3>1 DEF Placed
    <3> QED
      BY <1>1, <1>4, <1>6, <3>2 DEF Check, TypeOK
  <2>3. CASE ~Fresh(seen[r])
    <3>1. pc'[r] = "missed"
      BY <1>1, <1>6, <2>3 DEF Check, TypeOK
    <3>2. Placed(r)'
      BY <1>2, <1>3, <2>1, <3>1 DEF Placed
    <3> QED
      BY <1>1, <1>4, <1>6, <3>2 DEF Check, TypeOK
  <2> QED
    BY <2>2, <2>3
<1>7. ASSUME NEW r \in Requests, Join(r) PROVE OrderInv'
  <2>1. Placed(r)'
    BY <1>1, <1>2, <1>3, <1>7 DEF Join, Placed, TypeOK, Cached
  <2> QED
    BY <1>1, <1>4, <1>7, <2>1 DEF Join, TypeOK
<1>8. ASSUME NEW r \in Requests, Lead(r) PROVE OrderInv'
  <2>1. Placed(r)'
    BY <1>1, <1>2, <1>3, <1>8 DEF Lead, Placed, TypeOK, Cached
  <2> QED
    BY <1>1, <1>4, <1>8, <2>1 DEF Lead, TypeOK
<1>9. ASSUME NEW r \in Requests, Fetch(r) PROVE OrderInv'
  <2>1. Placed(r)'
    BY <1>1, <1>2, <1>3, <1>9 DEF Fetch, Placed, TypeOK, Cached, Live
  <2> QED
    BY <1>1, <1>4, <1>9, <2>1 DEF Fetch, TypeOK
<1>10. ASSUME NEW r \in Requests, FetchFails(r) PROVE OrderInv'
  <2>1. Placed(r)'
    BY <1>1, <1>2, <1>3, <1>10 DEF FetchFails, Placed, TypeOK, Cached, Unanswered
  <2> QED
    BY <1>1, <1>4, <1>10, <2>1 DEF FetchFails, TypeOK
\* No other request is storing or landing, and Cached does not decrease.
<1>11. ASSUME NEW r \in Requests, Store(r) PROVE OrderInv'
  <2>1. /\ pc[r] = "storing" /\ pc'[r] = "landing" /\ Live' = Live
        /\ Cached' = answer[r] /\ UNCHANGED <<answer, seen, earlier>>
        /\ \A q \in Requests : q # r => pc'[q] = pc[q]
    BY <1>1, <1>2, <1>11 DEF Store, Cached, Live, TypeOK
  <2>2. Cached <= Cached' /\ Cached' <= Live' /\ Cached' \in Nat
    BY <1>2, <1>3, <2>1 DEF Placed
  <2>3. ASSUME NEW q \in Requests PROVE Placed(q)'
    <3>1. CASE q = r
      BY <3>1, <1>2, <1>3, <2>1, <2>2 DEF Placed
    <3>2. CASE q # r
      <4>1. pc[q] \notin {"storing", "landing"}
        BY <1>1, <2>1, <3>2 DEF FlightInv, OneFlight
      <4>2. pc'[q] = pc[q]
        BY <2>1, <3>2
      <4> QED
        BY <4>1, <4>2, <1>2, <1>3, <2>1, <2>2 DEF Placed
    <3> QED
      BY <3>1, <3>2
  <2> QED
    BY <2>2, <2>3 DEF OrderInv
<1>12. ASSUME NEW r \in Requests, Land(r) PROVE OrderInv'
  <2>1. Cached' = Cached /\ Live' = Live /\ UNCHANGED <<seen, earlier>>
    BY <1>12 DEF Land, Cached, Live
  <2>2. ASSUME NEW q \in Requests PROVE Placed(q)'
    <3>1. CASE q = r \/ pc[q] = "waiting"
      <4>1. /\ pc'[q] = IF answer[r] = 0 THEN "failed" ELSE "served"
            /\ answer'[q] = answer[r]
            /\ answer[r] \in {0, Cached}
        BY <1>3, <1>12, <3>1 DEF Land, Placed
      <4> QED
        BY <4>1, <1>2, <1>3, <2>1 DEF Placed
    <3>2. CASE q # r /\ pc[q] # "waiting"
      <4>1. pc'[q] = pc[q] /\ answer'[q] = answer[q]
        BY <1>12, <3>2 DEF Land
      <4> QED
        BY <4>1, <1>1, <1>2, <1>3, <2>1, PlaceKept
    <3> QED
      BY <3>1, <3>2
  <2> QED
    BY <1>3, <2>1, <2>2 DEF OrderInv
<1>13. CASE Write \/ Tick \/ UNCHANGED vars
  <2>1. /\ UNCHANGED <<pc, answer, seen, earlier>>
        /\ Cached' = Cached /\ Live <= Live' /\ Live' \in Nat
    BY <1>1, <1>2, <1>13 DEF Write, Tick, vars, Cached, Live, TypeOK
  <2> QED
    BY <1>1, <1>2, <1>3, <2>1, PlaceKept DEF OrderInv
<1> QED
  BY <1>5, <1>6, <1>7, <1>8, <1>9, <1>10, <1>11, <1>12, <1>13 DEF Next, Step, Done

LEMMA CacheInvariant == Spec => [](ShapeInv /\ OrderInv)
BY InitShape, StepShape, InitOrder, StepOrder, PTL DEF Spec

\* cache.go:45-70: no request is served an older document than one that was
\* served before it came.
THEOREM ReadsAreMonotonic == Spec => []MonotonicReads
<1>1. OrderInv => MonotonicReads
  BY DEF OrderInv, Placed, MonotonicReads
<1> QED
  BY <1>1, CacheInvariant, PTL

LEMMA StepAdvances ==
    ASSUME ShapeInv, OrderInv, [Next]_vars, entry # NoEntry
    PROVE  entry' # NoEntry /\ entry'.doc >= entry.doc
<1>1. entry' = entry \/ \E r \in Requests : Store(r)
  BY DEF Next, Step, Look, Check, Join, Lead, Fetch, FetchFails, Land, Write, Tick, Done,
         vars, upstream, local
<1>2. CASE entry' = entry
  BY <1>2 DEF ShapeInv, TypeOK
<1>3. ASSUME NEW r \in Requests, Store(r) PROVE entry' # NoEntry /\ entry'.doc >= entry.doc
  BY <1>3 DEF Store, ShapeInv, TypeOK, OrderInv, Placed, Cached
<1> QED
  BY <1>1, <1>2, <1>3

\* cache.go:53-65: the cache is never overwritten by an older document.
THEOREM CacheAdvances == Spec => NeverBackwards
<1>1. ShapeInv /\ OrderInv /\ [Next]_vars
        => [entry # NoEntry => entry' # NoEntry /\ entry'.doc >= entry.doc]_vars
  BY StepAdvances
<1> QED
  BY <1>1, CacheInvariant, PTL DEF Spec, NeverBackwards

---------------------------------------------------------------------------
(* Dates.  What a step holds is dated: document d was still the index at     *)
(* time t.  A flight's document at its start; an entry, which is dated by   *)
(* the end of its flight, at most MaxFlight before that.                   *)

Held(d, t) == d < Live => t <= written[d + 1]

Dated(e) == e # NoEntry => e.fetchedAt <= now /\ Held(e.doc, e.fetchedAt - MaxFlight)

FlightDated == flight # NoFlight => flight.since <= now /\ now <= flight.since + MaxFlight

\* What the flight has fetched, if its fetch has not failed.
Carries(r) ==
    pc[r] \in {"storing", "landing"} =>
      \/ r \in lost /\ answer[r] = 0
      \/ Held(answer[r], flight.since)

ServedFresh(r) ==
    pc[r] = "served" =>
      \/ Held(answer[r], asked[r] - MaxFlight)
      \/ Held(answer[r], asked[r] - MaxFlight - TTL + 1)

FailedFairly(r) == pc[r] = "failed" => by[r] \in lost \/ Held(0, asked[r] - MaxFlight)

DatedRequest(r) ==
    asked[r] <= now /\ Dated(seen[r]) /\ Carries(r) /\ ServedFresh(r) /\ FailedFairly(r)

DateInv == FlightDated /\ Dated(entry) /\ \A r \in Requests : DatedRequest(r)

LEMMA InitDates == Init => DateInv
BY DEF Init, DateInv, FlightDated, Dated, DatedRequest, Carries, ServedFresh, FailedFairly

\* A date stays right while the index does not change; when it does, the document
\* that is replaced was the index until now.
LEMMA HeldKept ==
    ASSUME TypeOK, NEW d \in Nat, NEW t \in Int, Held(d, t),
           written' = written \/ (t <= now /\ written' = Append(written, now))
    PROVE  Held(d, t)'
<1>1. CASE written' = written
  BY <1>1 DEF Held, Live
<1>2. CASE t <= now /\ written' = Append(written, now)
  <2>1. /\ Len(written) \in Nat /\ Len(written') = Len(written) + 1
        /\ \A i \in 1..Len(written) : written'[i] = written[i]
        /\ written'[Len(written) + 1] = now
    BY <1>2 DEF TypeOK
  <2>2. CASE d < Len(written)
    <3>1. written'[d + 1] = written[d + 1]
      BY <2>1, <2>2
    <3> QED
      BY <2>2, <3>1 DEF Held, Live
  <2>3. CASE d = Len(written)
    BY <1>2, <2>1, <2>3 DEF Held, Live
  <2>4. CASE d > Len(written)
    BY <2>1, <2>4 DEF Held, Live
  <2> QED
    BY <2>1, <2>2, <2>3, <2>4
<1> QED
  BY <1>1, <1>2

\* What time and the bucket may do in one step.
Passes == \/ written' = written /\ now <= now'
          \/ written' = Append(written, now) /\ now' = now

LEMMA DatedKept ==
    ASSUME TypeOK, TypeOK', Passes,
           NEW e \in [doc: 1..MaxWrites, fetchedAt: 0..MaxTime] \cup {NoEntry}, Dated(e)
    PROVE  Dated(e)'
<1>1. CASE e = NoEntry
  BY <1>1 DEF Dated
<1>2. CASE e # NoEntry
  <2>1. e.doc \in Nat /\ e.fetchedAt \in Nat
    BY <1>2
  <2>2. now \in Nat /\ now' \in Nat /\ now <= now' /\ MaxFlight \in Nat
    BY DEF TypeOK, Passes
  <2>3. e.fetchedAt <= now /\ Held(e.doc, e.fetchedAt - MaxFlight)
    BY <1>2 DEF Dated
  <2>4. e.fetchedAt - MaxFlight \in Int /\ e.fetchedAt - MaxFlight <= now /\ e.fetchedAt <= now'
    BY <2>1, <2>2, <2>3
  <2>5. Held(e.doc, e.fetchedAt - MaxFlight)'
    BY <2>1, <2>3, <2>4, HeldKept DEF Passes
  <2> QED
    BY <2>4, <2>5 DEF Dated
<1> QED
  BY <1>1, <1>2

\* A request that does not move stays dated.
LEMMA DatesKept ==
    ASSUME TypeOK, TypeOK', Passes, FlightDated, NEW r \in Requests, DatedRequest(r),
           pc'[r] = pc[r], asked'[r] = asked[r], seen'[r] = seen[r],
           answer'[r] = answer[r], by'[r] = by[r], lost \subseteq lost',
           pc[r] \in {"storing", "landing"} => flight # NoFlight /\ flight' = flight
    PROVE  DatedRequest(r)'
<1>1. /\ now \in Nat /\ now' \in Nat /\ now <= now' /\ MaxFlight \in Nat /\ TTL \in Nat
      /\ asked[r] \in Nat /\ answer[r] \in Nat /\ asked[r] <= now
  BY DEF TypeOK, Passes, DatedRequest
<1>2. Dated(seen[r])'
  BY DatedKept DEF TypeOK, DatedRequest
<1>3. Carries(r)'
  <2> SUFFICES ASSUME pc[r] \in {"storing", "landing"} PROVE Carries(r)'
    BY DEF Carries
  <2>1. CASE r \in lost /\ answer[r] = 0
    BY <2>1 DEF Carries
  <2>2. CASE Held(answer[r], flight.since)
    <3>1. flight.since \in Int /\ flight.since <= now
      BY DEF TypeOK, FlightDated
    <3>2. Held(answer[r], flight.since)'
      BY <1>1, <2>2, <3>1, HeldKept DEF Passes
    <3> QED
      BY <3>2 DEF Carries
  <2> QED
    BY <2>1, <2>2 DEF DatedRequest, Carries
<1>4. asked[r] - MaxFlight \in Int /\ asked[r] - MaxFlight <= now
  BY <1>1
<1>5. FailedFairly(r)'
  <2>1. Held(0, asked[r] - MaxFlight) => Held(0, asked[r] - MaxFlight)'
    BY <1>4, HeldKept DEF Passes
  <2> QED
    BY <2>1 DEF DatedRequest, FailedFairly
<1>6. ServedFresh(r)'
  <2> SUFFICES ASSUME pc[r] = "served" PROVE ServedFresh(r)'
    BY DEF ServedFresh
  <2>1. CASE Held(answer[r], asked[r] - MaxFlight)
    <3>1. Held(answer[r], asked[r] - MaxFlight)'
      BY <1>1, <1>4, <2>1, HeldKept DEF Passes
    <3> QED
      BY <3>1 DEF ServedFresh
  <2>2. CASE ~Held(answer[r], asked[r] - MaxFlight)
    <3>1. Held(answer[r], asked[r] - MaxFlight - TTL + 1)
      BY <2>2 DEF DatedRequest, ServedFresh
    <3>2. answer[r] < Live /\ Live = Len(written) /\ Len(written) \in Nat
      BY <2>2 DEF Held, Live, TypeOK
    <3>3. written'[answer[r] + 1] = written[answer[r] + 1]
      <4>1. CASE written' = written
        BY <4>1
      <4>2. CASE written' = Append(written, now)
        <5>1. written \in Seq(0..MaxTime) /\ now \in 0..MaxTime
          BY DEF TypeOK
        <5>2. \A i \in 1..Len(written) : written'[i] = written[i]
          BY <4>2, <5>1
        <5>3. answer[r] + 1 \in 1..Len(written)
          BY <1>1, <3>2
        <5> QED
          BY <5>2, <5>3
      <4> QED
        BY <4>1, <4>2 DEF Passes
    <3>4. Held(answer[r], asked[r] - MaxFlight - TTL + 1)'
      BY <1>1, <3>1, <3>2, <3>3 DEF Held
    <3> QED
      BY <3>4 DEF ServedFresh
  <2> QED
    BY <2>1, <2>2
<1> QED
  BY <1>1, <1>2, <1>3, <1>5, <1>6 DEF DatedRequest

LEMMA StepDates == ShapeInv /\ ShapeInv' /\ DateInv /\ [Next]_vars => DateInv'
<1> SUFFICES ASSUME ShapeInv, ShapeInv', DateInv, [Next]_vars PROVE DateInv'
  OBVIOUS
<1>1. TypeOK /\ TypeOK' /\ OneFlight /\ FlightInv /\ Unanswered
  BY DEF ShapeInv, FlightInv
<1>2. FlightDated /\ Dated(entry) /\ \A q \in Requests : DatedRequest(q)
  BY DEF DateInv
<1>3. /\ now \in Nat /\ MaxFlight \in Nat /\ TTL \in Nat
      /\ \A q \in Requests : asked[q] \in Nat /\ answer[q] \in Nat
      /\ flight # NoFlight => flight.since \in Nat
      /\ entry # NoEntry => entry.doc \in Nat /\ entry.fetchedAt \in Nat
      /\ \A q \in Requests : seen[q] # NoEntry => seen[q].doc \in Nat /\ seen[q].fetchedAt \in Nat
      /\ Live \in Nat /\ \A i \in 1..Live : written[i] \in Nat
  BY <1>1 DEF TypeOK, Live
<1> USE DEF upstream, local
\* The steps of one request that leave the entry and the bucket alone.
<1>4. ASSUME NEW r \in Requests, UNCHANGED <<upstream, entry>>, lost \subseteq lost',
             FlightDated', DatedRequest(r)',
             flight # NoFlight /\ flight.leader # r => flight' = flight,
             \A q \in Requests \ {r} :
               /\ pc'[q] = pc[q] /\ asked'[q] = asked[q] /\ seen'[q] = seen[q]
               /\ answer'[q] = answer[q] /\ by'[q] = by[q]
      PROVE  DateInv'
  <2>1. Passes
    BY <1>3, <1>4 DEF Passes
  <2>2. Dated(entry)'
    BY <1>2, <1>4 DEF Dated, Held, Live
  <2>3. ASSUME NEW q \in Requests PROVE DatedRequest(q)'
    <3>1. CASE q = r
      BY <3>1, <1>4
    <3>2. CASE q # r
      <4>1. pc[q] \in {"storing", "landing"} => flight # NoFlight /\ flight' = flight
        BY <1>1, <1>4, <3>2 DEF OneFlight
      <4> QED
        BY <1>1, <1>2, <1>4, <2>1, <3>2, <4>1, DatesKept
    <3> QED
      BY <3>1, <3>2
  <2> QED
    BY <1>4, <2>2, <2>3 DEF DateInv
<1>5. ASSUME NEW r \in Requests, Look(r) PROVE DateInv'
  <2>1. /\ pc'[r] = "looked" /\ asked'[r] = now /\ seen'[r] = entry /\ now' = now
        /\ UNCHANGED <<written, entry, flight>>
    BY <1>1, <1>5 DEF Look, TypeOK
  <2>2. DatedRequest(r)'
    BY <1>2, <1>3, <2>1
       DEF DatedRequest, Dated, Held, Live, Carries, ServedFresh, FailedFairly
  <2>3. FlightDated'
    BY <1>2, <2>1 DEF FlightDated
  <2> QED
    BY <1>1, <1>4, <1>5, <2>2, <2>3 DEF Look, TypeOK
<1>6. ASSUME NEW r \in Requests, Check(r) PROVE DateInv'
  <2>1. /\ seen'[r] = NoEntry /\ asked'[r] = asked[r] /\ now' = now
        /\ UNCHANGED <<written, entry, flight>>
    BY <1>1, <1>6 DEF Check, TypeOK
  <2>2. FlightDated' /\ Dated(seen[r])' /\ asked'[r] <= now'
    BY <1>2, <2>1 DEF FlightDated, Dated, Held, Live, DatedRequest
  <2>3. CASE Fresh(seen[r])
    <3>1. pc'[r] = "served" /\ answer'[r] = seen[r].doc
      BY <1>1, <1>6, <2>3 DEF Check, TypeOK
    <3>2. /\ seen[r] # NoEntry /\ now < seen[r].fetchedAt + TTL /\ asked[r] <= now
          /\ Held(seen[r].doc, seen[r].fetchedAt - MaxFlight)
      BY <1>2, <1>3, <2>3 DEF Fresh, DatedRequest, Dated
    <3>3. asked[r] - MaxFlight - TTL + 1 <= seen[r].fetchedAt - MaxFlight
      BY <1>3, <3>2
    <3>4. Held(seen[r].doc, asked[r] - MaxFlight - TTL + 1)
      BY <1>3, <3>2, <3>3 DEF Held
    <3>5. Held(answer[r], asked[r] - MaxFlight - TTL + 1)'
      BY <2>1, <3>1, <3>4 DEF Held, Live
    <3>6. DatedRequest(r)'
      BY <2>2, <3>1, <3>5, <2>1 DEF DatedRequest, Dated, Carries, ServedFresh, FailedFairly
    <3> QED
      BY <1>1, <1>4, <1>6, <2>2, <3>6 DEF Check, TypeOK
  <2>4. CASE ~Fresh(seen[r])
    <3>1. pc'[r] = "missed"
      BY <1>1, <1>6, <2>4 DEF Check, TypeOK
    <3>2. DatedRequest(r)'
      BY <2>1, <2>2, <3>1 DEF DatedRequest, Dated, Carries, ServedFresh, FailedFairly
    <3> QED
      BY <1>1, <1>4, <1>6, <2>2, <3>2 DEF Check, TypeOK
  <2> QED
    BY <2>3, <2>4
<1>7. ASSUME NEW r \in Requests, Join(r) PROVE DateInv'
  <2>1. /\ pc'[r] = "waiting" /\ now' = now
        /\ UNCHANGED <<written, entry, flight, asked, seen>>
    BY <1>1, <1>7 DEF Join, TypeOK
  <2>2. FlightDated' /\ DatedRequest(r)'
    BY <1>2, <2>1
       DEF FlightDated, DatedRequest, Dated, Held, Live, Carries, ServedFresh, FailedFairly
  <2> QED
    BY <1>1, <1>4, <1>7, <2>2 DEF Join, TypeOK
<1>8. ASSUME NEW r \in Requests, Lead(r) PROVE DateInv'
  <2>1. /\ pc'[r] = "fetching" /\ now' = now /\ flight = NoFlight
        /\ flight' = [leader |-> r, since |-> now]
        /\ UNCHANGED <<written, entry, asked, seen>>
    BY <1>1, <1>8 DEF Lead, TypeOK
  <2>2. FlightDated'
    BY <1>3, <2>1 DEF FlightDated
  <2>3. DatedRequest(r)'
    BY <1>2, <2>1
       DEF DatedRequest, Dated, Held, Live, Carries, ServedFresh, FailedFairly
  <2> QED
    BY <1>1, <1>4, <1>8, <2>1, <2>2, <2>3 DEF Lead, TypeOK
\* What is fetched is the index of this moment, so it was not replaced before.
<1>9. ASSUME NEW r \in Requests, Fetch(r) PROVE DateInv'
  <2>1. /\ pc'[r] \in {"landing", "storing"} /\ answer'[r] = Live /\ now' = now
        /\ UNCHANGED <<written, entry, flight, asked, seen>>
    BY <1>1, <1>9 DEF Fetch, TypeOK
  <2>2. Held(answer[r], flight.since)'
    BY <1>3, <2>1 DEF Held, Live
  <2>3. FlightDated' /\ DatedRequest(r)'
    BY <1>2, <2>1, <2>2
       DEF FlightDated, DatedRequest, Dated, Held, Live, Carries, ServedFresh, FailedFairly
  <2> QED
    BY <1>1, <1>4, <1>9, <2>3 DEF Fetch, TypeOK
<1>10. ASSUME NEW r \in Requests, FetchFails(r) PROVE DateInv'
  <2>1. /\ pc'[r] = "landing" /\ now' = now /\ r \in lost' /\ lost \subseteq lost'
        /\ answer'[r] = 0
        /\ UNCHANGED <<written, entry, flight, asked, seen>>
    BY <1>1, <1>10 DEF FetchFails, TypeOK, Unanswered
  <2>2. FlightDated' /\ DatedRequest(r)'
    BY <1>2, <2>1
       DEF FlightDated, DatedRequest, Dated, Held, Live, Carries, ServedFresh, FailedFairly
  <2> QED
    BY <1>1, <1>4, <1>10, <2>1, <2>2 DEF FetchFails, TypeOK
\* The entry is dated now, at most MaxFlight after its flight's start.
<1>11. ASSUME NEW r \in Requests, Store(r) PROVE DateInv'
  <2>1. /\ entry' = [doc |-> answer[r], fetchedAt |-> now]
        /\ pc[r] = "storing" /\ pc'[r] = "landing" /\ answer[r] # 0
        /\ \A q \in Requests : q # r => pc'[q] = pc[q]
        /\ UNCHANGED <<upstream, flight, local, answer, by, lost>>
    BY <1>1, <1>11 DEF Store, TypeOK, ShapeInv
  <2>2. flight # NoFlight /\ now <= flight.since + MaxFlight /\ Held(answer[r], flight.since)
    BY <1>1, <1>2, <2>1 DEF OneFlight, FlightDated, DatedRequest, Carries
  <2>3. Held(answer[r], now - MaxFlight)
    BY <1>3, <2>2 DEF Held
  <2>4. Dated(entry)'
    BY <1>3, <2>1, <2>3 DEF Dated, Held, Live
  <2>5. FlightDated'
    BY <1>2, <2>1 DEF FlightDated
  <2>6. ASSUME NEW q \in Requests PROVE DatedRequest(q)'
    <3>1. CASE q = r
      BY <3>1, <1>2, <2>1, <2>2
         DEF DatedRequest, Dated, Held, Live, Carries, ServedFresh, FailedFairly
    <3>2. CASE q # r
      BY <3>2, <1>2, <2>1
         DEF DatedRequest, Dated, Held, Live, Carries, ServedFresh, FailedFairly
    <3> QED
      BY <3>1, <3>2
  <2> QED
    BY <2>4, <2>5, <2>6 DEF DateInv
\* Everybody aboard asked no later than now, at most MaxFlight after the start.
<1>12. ASSUME NEW r \in Requests, Land(r) PROVE DateInv'
  <2>1. /\ pc[r] = "landing" /\ flight' = NoFlight
        /\ UNCHANGED <<upstream, entry, local, lost>>
    BY <1>12 DEF Land
  <2>2. /\ flight # NoFlight /\ now <= flight.since + MaxFlight
        /\ (r \in lost /\ answer[r] = 0) \/ Held(answer[r], flight.since)
    BY <1>1, <1>2, <2>1 DEF OneFlight, FlightDated, DatedRequest, Carries
  <2>3. FlightDated' /\ Dated(entry)'
    BY <1>2, <2>1 DEF FlightDated, Dated, Held, Live
  <2>4. ASSUME NEW q \in Requests PROVE DatedRequest(q)'
    <3>1. asked'[q] <= now' /\ Dated(seen[q])'
      BY <1>2, <2>1 DEF DatedRequest, Dated, Held, Live
    <3>2. CASE q = r \/ pc[q] = "waiting"
      <4>1. /\ pc'[q] = IF answer[r] = 0 THEN "failed" ELSE "served"
            /\ answer'[q] = answer[r] /\ by'[q] = r
        BY <1>12, <3>2 DEF Land
      <4>2. CASE r \in lost /\ answer[r] = 0
        BY <2>1, <3>1, <4>1, <4>2 DEF DatedRequest, Carries, ServedFresh, FailedFairly
      <4>3. CASE Held(answer[r], flight.since)
        <5>1. asked[q] - MaxFlight <= flight.since
          BY <1>2, <1>3, <2>2 DEF DatedRequest
        <5>2. Held(answer[r], asked[q] - MaxFlight)
          BY <1>3, <2>2, <4>3, <5>1 DEF Held
        <5>3. Held(answer[q], asked[q] - MaxFlight)'
          BY <2>1, <4>1, <5>2 DEF Held, Live
        <5>4. answer[r] = 0 => Held(0, asked[q] - MaxFlight)'
          BY <2>1, <5>2 DEF Held, Live
        <5> QED
          BY <3>1, <4>1, <5>3, <5>4 DEF DatedRequest, Carries, ServedFresh, FailedFairly
      <4> QED
        BY <2>2, <4>2, <4>3
    <3>3. CASE q # r /\ pc[q] # "waiting"
      <4>1. pc'[q] = pc[q] /\ answer'[q] = answer[q] /\ by'[q] = by[q]
        BY <1>12, <3>3 DEF Land
      <4>2. pc[q] \notin {"storing", "landing"}
        BY <1>1, <2>1, <3>3 DEF OneFlight
      <4> QED
        BY <1>2, <2>1, <3>1, <4>1, <4>2
           DEF DatedRequest, Held, Live, Carries, ServedFresh, FailedFairly
    <3> QED
      BY <3>2, <3>3
  <2> QED
    BY <2>3, <2>4 DEF DateInv
<1>13. CASE Write \/ Tick \/ UNCHANGED vars
  <2>1. /\ Passes /\ UNCHANGED <<entry, flight, pc, local, answer, by, lost>>
    BY <1>3, <1>13 DEF Write, Tick, vars, Passes
  <2>2. FlightDated'
    BY <1>2, <1>3, <1>13 DEF Write, Tick, vars, FlightDated
  <2>3. Dated(entry)'
    BY <1>1, <1>2, <2>1, DatedKept DEF TypeOK
  <2>4. ASSUME NEW q \in Requests PROVE DatedRequest(q)'
    <3>1. pc[q] \in {"storing", "landing"} => flight # NoFlight
      BY <1>1 DEF OneFlight
    <3> QED
      BY <1>1, <1>2, <2>1, <3>1, DatesKept
  <2> QED
    BY <2>2, <2>3, <2>4 DEF DateInv
<1> QED
  BY <1>5, <1>6, <1>7, <1>8, <1>9, <1>10, <1>11, <1>12, <1>13 DEF Next, Step, Done

LEMMA DatesInvariant == Spec => [](ShapeInv /\ DateInv)
BY InitShape, StepShape, InitDates, StepDates, PTL DEF Spec

\* README.md:62: a document that was replaced is served for less than the TTL,
\* beyond the time that one fetch may take.
THEOREM FreshnessBound == Spec => []FreshWithin
<1>1. ShapeInv /\ DateInv => FreshWithin
  <2> SUFFICES ASSUME ShapeInv, DateInv, NEW r \in Requests,
                      pc[r] = "served", answer[r] < Live
               PROVE  \/ asked[r] <= written[answer[r] + 1] + MaxFlight
                      \/ asked[r] < written[answer[r] + 1] + MaxFlight + TTL
    BY DEF FreshWithin
  <2>1. asked[r] \in Int /\ written[answer[r] + 1] \in Int /\ MaxFlight \in Int /\ TTL \in Int
    BY DEF ShapeInv, TypeOK, Live
  <2> QED
    BY <2>1 DEF DateInv, DatedRequest, ServedFresh, Held
<1> QED
  BY <1>1, DatesInvariant, PTL

\* cache.go:53-68: no request fails by an error from before it, or by a look at
\* the bucket that is too old.
THEOREM FailuresAreFair == Spec => []FailsByItsFlight
<1>1. ShapeInv /\ DateInv => FailsByItsFlight
  <2> SUFFICES ASSUME ShapeInv, DateInv, NEW r \in Requests, pc[r] = "failed",
                      by[r] \notin lost, Live # 0
               PROVE  asked[r] <= written[1] + MaxFlight
    BY DEF FailsByItsFlight
  <2>1. 0 < Live /\ asked[r] \in Int /\ written[1] \in Int /\ MaxFlight \in Int
    BY DEF ShapeInv, TypeOK, Live
  <2> QED
    BY <2>1 DEF DateInv, DatedRequest, FailedFairly, Held
<1> QED
  BY <1>1, DatesInvariant, PTL
=============================================================================
