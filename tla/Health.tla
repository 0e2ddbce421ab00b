------------------------------- MODULE Health -------------------------------
(***************************************************************************)
(* The health endpoints of the server (internal/health) and how serve      *)
(* starts, drains and stops.  Requests run concurrently.  live looks at    *)
(* the drain flag; ready at the flag, the startup grace and then at the    *)
(* required dependencies; status at all of them, in parallel, for itself   *)
(* and for whoever asks meanwhile, and its answer is cached.  Dependencies *)
(* fail, hang and recover, clients disconnect, and the process is told to  *)
(* stop.  What a handler does by itself takes no time, probes do.          *)
(***************************************************************************)
EXTENDS Integers, FiniteSets

CONSTANTS
    Requests,      \* the requests
    Deps,          \* the dependencies: of the server, only the bucket
    Required,      \* those that readiness depends on
    Grace,         \* READINESS_STARTUP_GRACE; the server starts at time 0
    ReadyDeadline, \* READINESS_DEADLINE
    StatusDeadline, \* STATUS_DEADLINE
    TTL,           \* STATUS_CACHE_TTL
    Limit,         \* how long Shutdown waits for requests
    MaxAsk,        \* bound: no request and no signal comes after this
    MaxTime,       \* bound: how far the clock runs, enough to end all that came
    MaxChanges,    \* bound: how often dependencies change
    None           \* no cached status, no flight, no answer

ASSUME HealthAssumption ==
    /\ {Grace, TTL, MaxAsk, MaxTime, MaxChanges} \subseteq Nat
    /\ {ReadyDeadline, StatusDeadline, Limit} \subseteq Nat \ {0}
    /\ \A delay \in {ReadyDeadline, StatusDeadline, Limit} : MaxAsk + delay <= MaxTime
    /\ Required \subseteq Deps
    /\ IsFiniteSet(Deps)
    /\ None \notin Requests

VARIABLES
    now,       \* time since the start
    state,     \* of each dependency: up, down or hung
    past,      \* the times and states that each has been through
    changes,   \* how often they changed
    stage,     \* of the process
    signalled, \* when it was told to stop
    cached,    \* the status last stored and when
    flight,    \* the request that is probing for status
    pc,        \* where each request is
    kind,      \* what it asks for
    asked,     \* when it came
    late,      \* those that came after the signal
    began,     \* when it began to probe
    gone,      \* the requests whose client left while they probed
    found,     \* what each has found of the dependencies so far
    answer     \* what it answered and when

world   == <<state, past, changes>>
process == <<stage, signalled>>
request == <<kind, asked, late>>
server  == <<cached, flight>>
probes  == <<began, gone, found>>
vars    == <<now, world, process, server, pc, request, probes, answer>>

States == {"up", "down", "hung"}

Kinds == {"live", "ready", "status"}

Draining == stage \in {"draining", "closing"}

Ended == {"answered", "cut"}

Probing(r) == pc[r] = "probing"

Finding == UNION { [S -> {"ok", "fail", "timeout"}] : S \in SUBSET Deps }

NoFinding == [d \in {} |-> "ok"]

\* What is told of the dependencies: statusResponse.
Status == [ checkedAt: 0..MaxTime, found: [Deps -> {"ok", "fail", "timeout"}],
            incomplete: BOOLEAN, leader: Requests ]

Init ==
    /\ now = 0
    /\ state \in [Deps -> States]
    /\ past = [d \in Deps |-> {<<0, state[d]>>}]
    /\ changes = 0
    /\ stage = "serving"
    /\ signalled = None
    /\ cached = None
    /\ flight = None
    /\ pc = [r \in Requests |-> "idle"]
    /\ kind = [r \in Requests |-> "live"]
    /\ asked = [r \in Requests |-> 0]
    /\ late = {}
    /\ began = [r \in Requests |-> 0]
    /\ gone = {}
    /\ found = [r \in Requests |-> NoFinding]
    /\ answer = [r \in Requests |-> None]

---------------------------------------------------------------------------
(* Requests *)

\* A handler is called, and takes the time; nobody connects once Shutdown has
\* closed the listener.
Arrive(r) ==
    /\ pc[r] = "idle"
    /\ now <= MaxAsk
    /\ stage \in {"serving", "draining"}
    /\ pc' = [pc EXCEPT ![r] = "asked"]
    /\ \E k \in Kinds : kind' = [kind EXCEPT ![r] = k]
    /\ asked' = [asked EXCEPT ![r] = now]
    /\ late' = IF Draining THEN late \cup {r} ELSE late
    /\ UNCHANGED <<now, world, process, server, probes, answer>>

Answers(r, code, status) ==
    answer' = [answer EXCEPT ![r] = [code |-> code, at |-> now, status |-> status]]

Live(r) ==
    /\ pc[r] = "asked"
    /\ kind[r] = "live"
    /\ Answers(r, IF Draining THEN 503 ELSE 200, None)
    /\ pc' = [pc EXCEPT ![r] = "answered"]
    /\ UNCHANGED <<now, world, process, server, request, probes>>

\* Variant: the flag is not looked at.
AdmitsUnaware(r) == asked[r] >= Grace

Admits(r) == ~Draining /\ asked[r] >= Grace

Unready(r) ==
    /\ pc[r] = "asked"
    /\ kind[r] = "ready"
    /\ ~Admits(r)
    /\ Answers(r, 503, None)
    /\ pc' = [pc EXCEPT ![r] = "answered"]
    /\ UNCHANGED <<now, world, process, server, request, probes>>

Begin(r) ==
    /\ pc' = [pc EXCEPT ![r] = "probing"]
    /\ began' = [began EXCEPT ![r] = now]
    /\ found' = [found EXCEPT ![r] = NoFinding]

\* The flag is looked at here and not again.
Ready(r) ==
    /\ pc[r] = "asked"
    /\ kind[r] = "ready"
    /\ Admits(r)
    /\ Begin(r)
    /\ UNCHANGED <<now, world, process, server, request, gone, answer>>

Wanted(r) == IF kind[r] = "ready" THEN Required ELSE Deps

Allowed(r) == IF kind[r] = "ready" THEN ReadyDeadline ELSE StatusDeadline

Deadline(r) == began[r] + Allowed(r)

Expired(r) == now >= Deadline(r) /\ r \notin gone

\* A probe comes back: well from a dependency that is up; with an error from one that
\* is down, or from any once the context has ended, which a hung one waits for.
Probe(r) ==
    /\ Probing(r)
    /\ \E d \in Wanted(r) \ DOMAIN found[r] :
         \E result \in {"ok", "fail", "timeout"} :
           /\ result = "ok" => state[d] = "up"
           /\ result = "timeout" => Expired(r)
           /\ result = "fail" => ~Expired(r) /\ (state[d] = "down" \/ r \in gone)
           /\ found' = [found EXCEPT ![r] =
                [e \in DOMAIN found[r] \cup {d} |-> IF e = d THEN result ELSE found[r][e]]]
    /\ UNCHANGED <<now, world, process, server, pc, request, began, gone, answer>>

\* The client leaves, which cancels the context.
Disconnect(r) ==
    /\ Probing(r)
    /\ now < Deadline(r)
    /\ gone' = gone \cup {r}
    /\ UNCHANGED <<now, world, process, server, pc, request, began, found, answer>>

Probed(r) == Probing(r) /\ DOMAIN found[r] = Wanted(r)

ReadyAnswers(r) ==
    /\ Probed(r)
    /\ kind[r] = "ready"
    /\ Answers(r, IF \A d \in Required : found[r][d] = "ok" THEN 200 ELSE 503, None)
    /\ pc' = [pc EXCEPT ![r] = "answered"]
    /\ UNCHANGED <<now, world, process, server, request, probes>>

Unhealthy(s) == \E d \in Required : s.found[d] # "ok"

Code(s) == IF s.incomplete THEN 206 ELSE IF Unhealthy(s) THEN 503 ELSE 200

\* Variant: a status of exactly the TTL still counts.
HitsLate(r) == cached # None /\ asked[r] - cached.at <= TTL

Hits(r) == cached # None /\ asked[r] - cached.at < TTL

Hit(r) ==
    /\ pc[r] = "asked"
    /\ kind[r] = "status"
    /\ Hits(r)
    /\ Answers(r, Code(cached.status), cached.status)
    /\ pc' = [pc EXCEPT ![r] = "answered"]
    /\ UNCHANGED <<now, world, process, server, request, probes>>

Miss(r) ==
    /\ pc[r] = "asked"
    /\ kind[r] = "status"
    /\ ~Hits(r)
    /\ pc' = [pc EXCEPT ![r] = "missed"]
    /\ UNCHANGED <<now, world, process, server, request, probes, answer>>

\* Variant: without singleflight.
FreeAlways == TRUE

Free == flight = None

Join(r) ==
    /\ pc[r] = "missed"
    /\ ~Free
    /\ pc' = [pc EXCEPT ![r] = "waiting"]
    /\ UNCHANGED <<now, world, process, server, request, probes, answer>>

Lead(r) ==
    /\ pc[r] = "missed"
    /\ Free
    /\ flight' = r
    /\ Begin(r)
    /\ UNCHANGED <<now, world, process, cached, request, gone, answer>>

\* Variant: a deadline that is just over does not count.
ToldComplete(r) == [ checkedAt |-> began[r], found |-> found[r],
                     incomplete |-> now > Deadline(r), leader |-> r ]

Told(r) == [ checkedAt |-> began[r], found |-> found[r],
             incomplete |-> Expired(r), leader |-> r ]

\* All probes are back.  Whatever they say, it is stored: also what a client that
\* left has made of them.
Store(r) ==
    /\ Probed(r)
    /\ kind[r] = "status"
    /\ cached' = [status |-> Told(r), at |-> now]
    /\ pc' = [pc EXCEPT ![r] = "landing"]
    /\ UNCHANGED <<now, world, process, flight, request, probes, answer>>

\* Variant: who is told of a failure tries again.
FollowsRetrying(code) == IF code = 503 THEN "missed" ELSE "answered"

Follows(code) == "answered"

\* And it is the answer of all that wait: cached points to it.
Land(r) ==
    LET aboard == {r} \cup { q \in Requests : pc[q] = "waiting" }
        told   == [code |-> Code(cached.status), at |-> now, status |-> cached.status]
    IN  /\ pc[r] = "landing"
        /\ flight' = None
        /\ pc' = [q \in Requests |-> IF q \in aboard THEN Follows(told.code) ELSE pc[q]]
        /\ answer' = [q \in Requests |-> IF q \in aboard THEN told ELSE answer[q]]
        /\ UNCHANGED <<now, world, process, cached, request, probes>>

---------------------------------------------------------------------------
(* The process, the dependencies and time *)

InFlight == { r \in Requests : pc[r] \notin {"idle"} \cup Ended }

\* SIGTERM: the drain flag is set.
Signal ==
    /\ stage = "serving"
    /\ now <= MaxAsk
    /\ stage' = "draining"
    /\ signalled' = now
    /\ UNCHANGED <<now, world, server, pc, request, probes, answer>>

\* Shutdown closes the listener first.
Close ==
    /\ stage = "draining"
    /\ stage' = "closing"
    /\ UNCHANGED <<now, world, signalled, server, pc, request, probes, answer>>

\* It returns when no request is in flight.
Exit ==
    /\ stage = "closing"
    /\ InFlight = {}
    /\ stage' = "exited"
    /\ UNCHANGED <<now, world, signalled, server, pc, request, probes, answer>>

\* Variant: the server is closed, not shut down.
OverdueAtOnce == TRUE

Overdue == now >= signalled + Limit

\* Or when it has waited long enough.
GiveUp ==
    /\ stage = "closing"
    /\ InFlight # {}
    /\ Overdue
    /\ stage' = "exited"
    /\ pc' = [r \in Requests |-> IF r \in InFlight THEN "cut" ELSE pc[r]]
    /\ UNCHANGED <<now, world, signalled, server, request, probes, answer>>

\* The address cannot be listened on, and the process ends.
ListenFails ==
    /\ stage = "serving"
    /\ now = 0 /\ \A r \in Requests : pc[r] = "idle"
    /\ stage' = "failed"
    /\ UNCHANGED <<now, world, signalled, server, pc, request, probes, answer>>

Change(d) ==
    /\ changes < MaxChanges
    /\ changes' = changes + 1
    /\ \E s \in States \ {state[d]} :
         /\ state' = [state EXCEPT ![d] = s]
         /\ past' = [past EXCEPT ![d] = @ \cup {<<now, s>>}]
    /\ UNCHANGED <<now, process, server, pc, request, probes, answer>>

\* Only a probe takes time, until its context ends, and Shutdown while requests are
\* in flight, until its limit.
Tick ==
    /\ now < MaxTime
    /\ stage \in {"serving", "closing"}
    /\ stage = "closing" => InFlight # {} /\ ~Overdue
    /\ \A r \in InFlight :
         \/ pc[r] = "waiting"
         \/ Probing(r) /\ ~Probed(r) /\ r \notin gone /\ now < Deadline(r)
    /\ now' = now + 1
    /\ past' = [d \in Deps |-> past[d] \cup {<<now + 1, state[d]>>}]
    /\ UNCHANGED <<state, changes, process, server, pc, request, probes, answer>>

\* The process has ended, or goes on with no more to do.
Done ==
    /\ stage \in {"exited", "failed"} \/ (now > MaxAsk /\ InFlight = {})
    /\ UNCHANGED vars

Handle(r) ==
    \/ Live(r)
    \/ Unready(r)
    \/ Ready(r)
    \/ Probe(r)
    \/ ReadyAnswers(r)
    \/ Hit(r)
    \/ Miss(r)
    \/ Join(r)
    \/ Lead(r)
    \/ Store(r)
    \/ Land(r)

Next ==
    \/ \E r \in Requests :
         stage \notin {"exited", "failed"} /\ (Arrive(r) \/ Handle(r) \/ Disconnect(r))
    \/ \E d \in Deps : stage \notin {"exited", "failed"} /\ Change(d)
    \/ Signal
    \/ Close
    \/ Exit
    \/ GiveUp
    \/ ListenFails
    \/ Tick
    \/ Done

\* Handlers and Shutdown run, time passes, and a dependency that is not hung answers.
Fairness ==
    /\ \A r \in Requests : WF_vars(Handle(r))
    /\ WF_vars(Close)
    /\ WF_vars(Exit \/ GiveUp)
    /\ WF_vars(Tick)

Spec == Init /\ [][Next]_vars

FairSpec == Spec /\ Fairness

---------------------------------------------------------------------------
(* Properties *)

TypeOK ==
    /\ now \in 0..MaxTime
    /\ state \in [Deps -> States]
    /\ past \in [Deps -> SUBSET ((0..MaxTime) \X States)]
    /\ changes \in 0..MaxChanges
    /\ stage \in {"serving", "draining", "closing", "exited", "failed"}
    /\ signalled \in 0..MaxTime \cup {None}
    /\ cached \in [status: Status, at: 0..MaxTime] \cup {None}
    /\ flight \in Requests \cup {None}
    /\ pc \in [Requests -> {"idle", "asked", "probing", "missed", "waiting", "landing"}
                             \cup Ended]
    /\ kind \in [Requests -> Kinds]
    /\ asked \in [Requests -> 0..MaxTime]
    /\ late \subseteq Requests
    /\ began \in [Requests -> 0..MaxTime]
    /\ gone \subseteq Requests
    /\ \A r \in Requests : pc[r] = "landing" \/ (Probing(r) /\ kind[r] = "status") => flight = r
    /\ \A r \in Requests : pc[r] = "waiting" => flight # None
    /\ found \in [Requests -> Finding]
    /\ answer \in [Requests -> [ code: {200, 206, 503}, at: 0..MaxTime,
                                 status: Status \cup {None} ] \cup {None}]

Answered(k) == { r \in Requests : kind[r] = k /\ pc[r] = "answered" }

\* health.go:90-146: who is told "ready" did not ask in the grace or after the
\* signal, hears it at most the deadline after the signal, and each required
\* dependency was up at a moment since it asked.
ReadyHolds ==
    \A r \in Answered("ready") :
      answer[r].code = 200 =>
        /\ asked[r] >= Grace
        /\ r \notin late
        /\ signalled # None => answer[r].at <= signalled + ReadyDeadline
        /\ \A d \in Required :
             \E t \in asked[r]..answer[r].at : <<t, "up">> \in past[d]

\* README.md:65-66: the probes behind a status began less than the TTL before it was
\* asked for, beyond the deadline that they had.
StatusFresh ==
    \A r \in Answered("status") :
      \/ asked[r] <= answer[r].status.checkedAt + StatusDeadline
      \/ asked[r] < answer[r].status.checkedAt + StatusDeadline + TTL

\* health.go:173-271: what a status says of a dependency was so while its probes
\* ran, whoever asked for them and whenever it is served, unless the client that
\* they ran for left; and where a probe ran out of time the answer is a 206.
StatusTells ==
    \A r \in Answered("status") :
      LET s == answer[r].status
          Was(d, x) == \E t \in s.checkedAt..(s.checkedAt + StatusDeadline) :
                         <<t, x>> \in past[d]
      IN  \A d \in Deps :
            /\ s.found[d] = "ok" => Was(d, "up")
            /\ s.found[d] = "fail" => Was(d, "down") \/ s.leader \in gone
            /\ s.found[d] = "timeout" => answer[r].code = 206

\* serve.go:74-76, README.md:181-182: the shutdown is graceful, a request is cut off
\* only if its deadline is as long as Shutdown's limit: also one that waits for
\* another's probes, and whatever hangs.
GracefulShutdown ==
    \A r \in Requests :
      pc[r] = "cut" => kind[r] # "live" /\ Limit <= Allowed(r)

\* serve.go:68-76: the process that is told to stop stops, even with dependencies
\* that hang, and every request ends.
Stops ==
    /\ Draining ~> stage = "exited"
    /\ \A r \in Requests : pc[r] = "asked" ~> pc[r] \in Ended

\* README.md:175: "`503` during startup grace and after `SIGTERM` (drain)".
NeverReadyDraining ==
    [][ \A r \in Requests :
          Draining /\ kind[r] = "ready" /\ pc[r] # "answered" /\ pc'[r] = "answered"
            => answer'[r].code = 503 ]_vars
=============================================================================
