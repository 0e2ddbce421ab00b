---------------------------- MODULE HealthProofs ----------------------------
(***************************************************************************)
(* Proofs about Health, for any number of requests and dependencies and     *)
(* any deadlines: type correctness; from an invariant on when things happen *)
(* (Timing) that a shutdown cuts off nobody it need not; and from one on    *)
(* what was seen (Evidence) that readiness was so when it is told, and that *)
(* a status is true and not too old.                                       *)
(***************************************************************************)
EXTENDS Health, TLAPS

USE HealthAssumption

Stored == [status: Status, at: 0..MaxTime]

\* Who is about to hand out the cached status has stored one.
TypeInv ==
    /\ TypeOK
    /\ \A r \in Requests : pc[r] = "landing" => cached \in Stored

LEMMA NoFindingTyped == NoFinding \in Finding
<1>1. NoFinding \in [{} -> {"ok", "fail", "timeout"}]
  BY DEF NoFinding
<1> QED
  BY <1>1 DEF Finding

LEMMA InitType == Init => TypeInv
<1> SUFFICES ASSUME Init PROVE TypeInv
  OBVIOUS
<1>1. NoFinding \in Finding
  BY NoFindingTyped
<1>2. past \in [Deps -> SUBSET ((0..MaxTime) \X States)]
  BY DEF Init, States
<1> QED
  BY <1>1, <1>2 DEF Init, TypeInv, TypeOK, Kinds, Ended, Probing

LEMMA FindingGrows ==
    ASSUME NEW f \in Finding, NEW d \in Deps, NEW x \in {"ok", "fail", "timeout"}
    PROVE  [e \in DOMAIN f \cup {d} |-> IF e = d THEN x ELSE f[e]] \in Finding
<1>1. PICK S \in SUBSET Deps : f \in [S -> {"ok", "fail", "timeout"}]
  BY DEF Finding
<1>2. [e \in DOMAIN f \cup {d} |-> IF e = d THEN x ELSE f[e]]
        \in [S \cup {d} -> {"ok", "fail", "timeout"}]
  BY <1>1
<1> QED
  BY <1>2 DEF Finding

LEMMA ProbeTyped ==
    ASSUME TypeOK, NEW r \in Requests, Probe(r)
    PROVE  found' \in [Requests -> Finding]
<1>1. PICK d \in Wanted(r) \ DOMAIN found[r] : \E x \in {"ok", "fail", "timeout"} :
        found' = [found EXCEPT ![r] =
          [e \in DOMAIN found[r] \cup {d} |-> IF e = d THEN x ELSE found[r][e]]]
  BY DEF Probe
<1>2. PICK x \in {"ok", "fail", "timeout"} :
        found' = [found EXCEPT ![r] =
          [e \in DOMAIN found[r] \cup {d} |-> IF e = d THEN x ELSE found[r][e]]]
  BY <1>1
<1>3. d \in Deps
  BY DEF Wanted
<1>4. found \in [Requests -> Finding] /\ found[r] \in Finding
  BY DEF TypeOK
<1>5. [e \in DOMAIN found[r] \cup {d} |-> IF e = d THEN x ELSE found[r][e]] \in Finding
  BY <1>3, <1>4, FindingGrows
<1> QED
  BY <1>2, <1>4, <1>5

LEMMA ToldTyped ==
    ASSUME TypeOK, NEW r \in Requests, Probed(r), kind[r] = "status"
    PROVE  Told(r) \in Status
<1>1. found[r] \in [Deps -> {"ok", "fail", "timeout"}]
  <2>1. found[r] \in Finding
    BY DEF TypeOK
  <2>2. PICK S \in SUBSET Deps : found[r] \in [S -> {"ok", "fail", "timeout"}]
    BY <2>1 DEF Finding
  <2> QED
    BY <2>2 DEF Probed, Wanted
<1>2. Expired(r) \in BOOLEAN
  BY DEF Expired
<1>3. began[r] \in 0..MaxTime
  BY DEF TypeOK
<1> QED
  BY <1>1, <1>2, <1>3 DEF Told, Status

LEMMA StepType == TypeInv /\ [Next]_vars => TypeInv'
<1> SUFFICES ASSUME TypeInv, [Next]_vars PROVE TypeInv'
  OBVIOUS
<1> USE DEF TypeInv, TypeOK, Ended, world, process, request, server, probes
<1>1. ASSUME NEW r \in Requests, Arrive(r) PROVE TypeInv'
  BY <1>1 DEF Arrive, Probing
<1>2. ASSUME NEW r \in Requests, Live(r) PROVE TypeInv'
  BY <1>2 DEF Live, Answers, Probing
<1>3. ASSUME NEW r \in Requests, Unready(r) PROVE TypeInv'
  BY <1>3 DEF Unready, Answers, Probing
<1>4. NoFinding \in Finding
  BY NoFindingTyped
<1>5. ASSUME NEW r \in Requests, Ready(r) PROVE TypeInv'
  BY <1>4, <1>5 DEF Ready, Begin, Probing
<1>6. ASSUME NEW r \in Requests, Probe(r) PROVE TypeInv'
  BY <1>6, ProbeTyped DEF Probe, Probing
<1>7. ASSUME NEW r \in Requests, ReadyAnswers(r) PROVE TypeInv'
  BY <1>7 DEF ReadyAnswers, Answers, Probing
<1>8. ASSUME NEW r \in Requests, Hit(r) PROVE TypeInv'
  BY <1>8 DEF Hit, Hits, Answers, Code, Probing
<1>9. ASSUME NEW r \in Requests, Miss(r) PROVE TypeInv'
  BY <1>9 DEF Miss, Probing
<1>10. ASSUME NEW r \in Requests, Join(r) PROVE TypeInv'
  BY <1>10 DEF Join, Free, Probing
<1>11. ASSUME NEW r \in Requests, Lead(r) PROVE TypeInv'
  BY <1>4, <1>11 DEF Lead, Free, Begin, Probing
<1>12. ASSUME NEW r \in Requests, Store(r) PROVE TypeInv'
  BY <1>12, ToldTyped DEF Store, Stored, Probing, Probed
<1>13. ASSUME NEW r \in Requests, Land(r) PROVE TypeInv'
  <2>1. cached \in Stored /\ pc[r] = "landing"
    BY <1>13 DEF Land
  <2>2. Code(cached.status) \in {200, 206, 503}
    BY DEF Code
  <2>3. answer' \in [Requests -> [ code: {200, 206, 503}, at: 0..MaxTime,
                                   status: Status \cup {None} ] \cup {None}]
    BY <1>13, <2>1, <2>2 DEF Land, Stored
  <2> QED
    BY <1>13, <2>3 DEF Land, Follows, Probing
<1>14. ASSUME NEW r \in Requests, Disconnect(r) PROVE TypeInv'
  BY <1>14 DEF Disconnect, Probing
<1>15. ASSUME NEW d \in Deps, Change(d) PROVE TypeInv'
  <2>1. PICK s \in States : /\ state' = [state EXCEPT ![d] = s]
                            /\ past' = [past EXCEPT ![d] = @ \cup {<<now, s>>}]
    BY <1>15 DEF Change
  <2>2. past' \in [Deps -> SUBSET ((0..MaxTime) \X States)]
    BY <2>1
  <2> QED
    BY <1>15, <2>1, <2>2 DEF Change, Probing
<1>16. CASE Signal \/ Close \/ Exit \/ ListenFails
  BY <1>16 DEF Signal, Close, Exit, ListenFails, Probing
<1>17. CASE GiveUp
  BY <1>17 DEF GiveUp, Probing
<1>18. CASE Tick
  <2>1. now + 1 \in 0..MaxTime
    BY <1>18 DEF Tick
  <2>2. past' \in [Deps -> SUBSET ((0..MaxTime) \X States)]
    BY <1>18, <2>1 DEF Tick
  <2> QED
    BY <1>18, <2>1, <2>2 DEF Tick, Probing
<1>19. CASE UNCHANGED vars
  BY <1>19 DEF vars, Probing
<1> QED
  BY <1>1, <1>2, <1>3, <1>5, <1>6, <1>7, <1>8, <1>9, <1>10, <1>11, <1>12, <1>13, <1>14,
     <1>15, <1>16, <1>17, <1>18, <1>19 DEF Next, Handle, Done

\* Every reachable state of the endpoints is well formed: a status is only probed
\* for by the leader of the flight, and who waits, waits for one.
THEOREM HealthTypeCorrect == Spec => []TypeOK
<1>1. TypeInv => TypeOK
  BY DEF TypeInv
<1> QED
  BY <1>1, InitType, StepType, PTL DEF Spec

---------------------------------------------------------------------------
(* When things happen *)

Reply == [ code: {200, 206, 503}, at: 0..MaxTime, status: Status \cup {None} ]

\* The clock stands still for all that handlers do by themselves, so who has asked
\* has just asked, who probes has time left, and once the process drains nobody in
\* flight came later than the signal.
Timing ==
    /\ \A r \in Requests :
         /\ asked[r] <= now
         /\ pc[r] \in {"asked", "missed"} => asked[r] = now
         /\ pc[r] \in {"probing", "landing"} =>
              kind[r] # "live" /\ began[r] = asked[r] /\ now <= Deadline(r)
         /\ pc[r] \in {"missed", "waiting", "landing"} => kind[r] = "status"
         /\ pc[r] = "answered" => answer[r] \in Reply /\ answer[r].at <= now
    /\ flight # None /\ stage # "exited" => pc[flight] \in {"probing", "landing"} /\ kind[flight] = "status"
    /\ stage \in {"serving", "failed"} => signalled = None /\ late = {}
    /\ stage = "draining" => signalled = now
    /\ Draining => signalled \in 0..now
    /\ Draining => \A r \in InFlight : asked[r] <= signalled

LEMMA InitTiming == Init => Timing
BY DEF Init, Timing, InFlight, Ended, Draining

LEMMA StepTiming == TypeInv /\ Timing /\ [Next]_vars => Timing'
<1> SUFFICES ASSUME TypeInv, Timing, [Next]_vars PROVE Timing'
  OBVIOUS
<1> USE DEF Timing, InFlight, Ended, Draining, Deadline, Allowed, Kinds,
            world, process, request, server, probes
<1>0. TypeOK /\ TypeOK'
  BY StepType DEF TypeInv
<1> USE DEF TypeOK
<1>1. ASSUME NEW r \in Requests, Arrive(r) PROVE Timing'
  BY <1>0, <1>1 DEF Arrive
<1>2. ASSUME NEW r \in Requests, Live(r) PROVE Timing'
  BY <1>0, <1>2 DEF Live, Answers, Reply
<1>3. ASSUME NEW r \in Requests, Unready(r) PROVE Timing'
  BY <1>0, <1>3 DEF Unready, Answers, Reply
<1>4. ASSUME NEW r \in Requests, Ready(r) PROVE Timing'
  BY <1>0, <1>4 DEF Ready, Begin
<1>5. ASSUME NEW r \in Requests, Probe(r) PROVE Timing'
  BY <1>0, <1>5 DEF Probe
<1>6. ASSUME NEW r \in Requests, ReadyAnswers(r) PROVE Timing'
  BY <1>0, <1>6 DEF ReadyAnswers, Probed, Probing, Answers, Reply
<1>7. ASSUME NEW r \in Requests, Hit(r) PROVE Timing'
  BY <1>0, <1>7 DEF Hit, Hits, Answers, Reply, Code
<1>8. ASSUME NEW r \in Requests, Miss(r) PROVE Timing'
  BY <1>0, <1>8 DEF Miss
<1>9. ASSUME NEW r \in Requests, Join(r) PROVE Timing'
  BY <1>0, <1>9 DEF Join
<1>10. ASSUME NEW r \in Requests, Lead(r) PROVE Timing'
  BY <1>0, <1>10 DEF Lead, Free, Begin
<1>11. ASSUME NEW r \in Requests, Store(r) PROVE Timing'
  BY <1>0, <1>11 DEF Store, Probed, Probing
<1>12. ASSUME NEW r \in Requests, Land(r) PROVE Timing'
  <2>1. cached \in Stored /\ flight = r
    BY <1>0, <1>12 DEF Land, TypeInv
  <2>2. \A q \in Requests : pc'[q] \in {pc[q], "answered"} /\ pc'[q] # "waiting"
    BY <1>12 DEF Land, Follows
  <2>3. \A q \in Requests : pc'[q] = "answered" => answer'[q] \in Reply /\ answer'[q].at <= now
    BY <1>0, <1>12, <2>1 DEF Land, Stored, Reply, Follows, Code
  <2> QED
    BY <1>0, <1>12, <2>1, <2>2, <2>3 DEF Land
<1>13. ASSUME NEW r \in Requests, Disconnect(r) PROVE Timing'
  BY <1>0, <1>13 DEF Disconnect
<1>14. ASSUME NEW d \in Deps, Change(d) PROVE Timing'
  BY <1>0, <1>14 DEF Change
<1>15. CASE Signal
  BY <1>0, <1>15 DEF Signal
<1>16. CASE Close \/ Exit \/ ListenFails
  BY <1>0, <1>16 DEF Close, Exit, ListenFails
<1>17. CASE GiveUp
  BY <1>0, <1>17 DEF GiveUp
<1>18. CASE Tick
  <2>1. now' = now + 1 /\ stage # "draining"
    BY <1>18 DEF Tick
  <2>2. UNCHANGED <<stage, signalled, flight, pc, kind, asked, late, began, answer>>
    BY <1>18 DEF Tick
  <2>3. \A r \in Requests :
          pc[r] \in {"idle", "waiting", "answered", "cut"} \/ (pc[r] = "probing" /\ now < Deadline(r))
    BY <1>18 DEF Tick, Probing
  <2>4. \A r \in Requests :
          pc'[r] \in {"probing", "landing"} => kind'[r] # "live" /\ began'[r] = asked'[r]
                                                /\ now' <= Deadline(r)'
    BY <1>0, <2>1, <2>2, <2>3
  <2> QED
    BY <1>0, <2>1, <2>2, <2>3, <2>4 DEF Reply
<1>19. CASE UNCHANGED vars
  BY <1>0, <1>19 DEF vars
<1> QED
  BY <1>1, <1>2, <1>3, <1>4, <1>5, <1>6, <1>7, <1>8, <1>9, <1>10, <1>11, <1>12, <1>13, <1>14,
     <1>15, <1>16, <1>17, <1>18, <1>19 DEF Next, Handle, Done

---------------------------------------------------------------------------
(* What was seen *)

\* Between a time and now the dependency was so.
Seen(d, x, from) == \E t \in from..now : <<t, x>> \in past[d]

\* Each probe that is back says what was so.
FoundSo(r) ==
    \A d \in DOMAIN found[r] :
      /\ found[r][d] = "ok" => Seen(d, "up", began[r])
      /\ found[r][d] = "fail" => Seen(d, "down", began[r]) \/ r \in gone
      /\ found[r][d] = "timeout" => Expired(r)

\* What a status tells was so while its probes ran.
Truthful(s) ==
    LET Was(d, x) == \E t \in s.checkedAt..(s.checkedAt + StatusDeadline) :
                       <<t, x>> \in past[d]
    IN  \A d \in Deps :
          /\ s.found[d] = "ok" => Was(d, "up")
          /\ s.found[d] = "fail" => Was(d, "down") \/ s.leader \in gone
          /\ s.found[d] = "timeout" => s.incomplete

\* A dependency's state is on record.
Observed == \A d \in Deps : <<now, state[d]>> \in past[d]

ProbesTell == \A r \in Requests : Probing(r) => FoundSo(r)

\* A status is stored before the deadline of its probes.
CacheTells ==
    /\ cached # None =>
         /\ cached.at <= cached.status.checkedAt + StatusDeadline
         /\ Truthful(cached.status)
    /\ \A r \in Requests : pc[r] = "landing" =>
         /\ now <= cached.status.checkedAt + StatusDeadline
         /\ Truthful(cached.status)

\* Readiness is only probed for who asked after the grace and before the signal.
Admitted ==
    \A r \in Requests : Probing(r) /\ kind[r] = "ready" => asked[r] >= Grace /\ r \notin late

Evidence == Observed /\ ProbesTell /\ CacheTells /\ Admitted

\* Time, the record of it and the clients that left only grow.
Grown ==
    /\ now' \in Nat /\ now <= now'
    /\ gone \subseteq gone'
    /\ \A d \in Deps : past[d] \subseteq past'[d]

LEMMA StepObserved ==
    ASSUME TypeOK, Observed, [Next]_vars
    PROVE  Grown /\ Observed'
<1> USE DEF Observed, Grown, world, process, request, server, probes
<1>1. now \in Nat /\ past \in [Deps -> SUBSET ((0..MaxTime) \X States)] /\ state \in [Deps -> States]
  BY DEF TypeOK
<1>2. CASE UNCHANGED <<now, state, past>> /\ gone \subseteq gone'
  BY <1>1, <1>2
<1>3. ASSUME NEW d \in Deps, Change(d) PROVE Grown /\ Observed'
  <2>1. PICK s \in States : /\ state' = [state EXCEPT ![d] = s]
                            /\ past' = [past EXCEPT ![d] = @ \cup {<<now, s>>}]
    BY <1>3 DEF Change
  <2>2. now' = now /\ gone' = gone
    BY <1>3 DEF Change
  <2>3. \A e \in Deps : past[e] \subseteq past'[e]
    BY <1>1, <2>1
  <2>4. \A e \in Deps : <<now', state'[e]>> \in past'[e]
    BY <1>1, <2>1, <2>2
  <2>5. Observed'
    BY <2>4
  <2> QED
    BY <1>1, <2>2, <2>3, <2>5
<1>4. CASE Tick
  <2>1. now' = now + 1 /\ state' = state /\ gone' = gone
    BY <1>4 DEF Tick
  <2>2. past' = [d \in Deps |-> past[d] \cup {<<now + 1, state[d]>>}]
    BY <1>4 DEF Tick
  <2> QED
    BY <1>1, <2>1, <2>2
<1>5. ASSUME NEW r \in Requests, Arrive(r) \/ Handle(r) \/ Disconnect(r)
      PROVE  UNCHANGED <<now, state, past>> /\ gone \subseteq gone'
  <2>1. CASE Arrive(r) \/ Disconnect(r)
    BY <2>1 DEF Arrive, Disconnect
  <2>2. CASE Live(r) \/ Unready(r) \/ Ready(r) \/ Probe(r) \/ ReadyAnswers(r)
    BY <2>2 DEF Live, Unready, Ready, Probe, ReadyAnswers
  <2>3. CASE Hit(r) \/ Miss(r) \/ Join(r) \/ Lead(r) \/ Store(r) \/ Land(r)
    BY <2>3 DEF Hit, Miss, Join, Lead, Store, Land
  <2> QED
    BY <1>5, <2>1, <2>2, <2>3 DEF Handle
<1>6. CASE Signal \/ Close \/ Exit \/ GiveUp \/ ListenFails \/ UNCHANGED vars
  BY <1>2, <1>6 DEF Signal, Close, Exit, GiveUp, ListenFails, vars
<1> QED
  BY <1>2, <1>3, <1>4, <1>5, <1>6 DEF Next, Done

\* What probes have found stays so, unless the client leaves after they ran out of time.
LEMMA FoundSoKept ==
    ASSUME TypeOK, Grown, NEW r \in Requests, FoundSo(r),
           found'[r] = found[r], began'[r] = began[r], kind'[r] = kind[r],
           r \in gone' => r \in gone \/ ~Expired(r)
    PROVE  FoundSo(r)'
<1>1. now \in Nat /\ now' \in Nat /\ now <= now' /\ began[r] \in Nat
  BY DEF TypeOK, Grown
<1>2. \A d \in DOMAIN found[r] : d \in Deps
  <2>1. found[r] \in Finding
    BY DEF TypeOK
  <2>2. PICK S \in SUBSET Deps : found[r] \in [S -> {"ok", "fail", "timeout"}]
    BY <2>1 DEF Finding
  <2> QED
    BY <2>2
<1>3. \A d \in Deps, x \in {"up", "down"} : Seen(d, x, began[r]) => Seen(d, x, began[r])'
  <2> SUFFICES ASSUME NEW d \in Deps, NEW x \in {"up", "down"}, Seen(d, x, began[r])
               PROVE  \E t \in began'[r]..now' : <<t, x>> \in past'[d]
    BY DEF Seen
  <2>1. PICK t \in began[r]..now : <<t, x>> \in past[d]
    BY DEF Seen
  <2>2. t \in began'[r]..now' /\ <<t, x>> \in past'[d]
    BY <1>1, <2>1 DEF Grown
  <2> QED
    BY <2>2
<1>4. Expired(r) => Expired(r)'
  <2>1. Deadline(r)' = Deadline(r) /\ Deadline(r) \in Nat
    BY <1>1 DEF Deadline, Allowed
  <2> QED
    BY <1>1, <2>1 DEF Expired
<1>5. r \in gone => r \in gone'
  BY DEF Grown
<1> QED
  BY <1>2, <1>3, <1>4, <1>5 DEF FoundSo

\* A probe that comes back says what is so.
LEMMA ProbeTells ==
    ASSUME TypeOK, Observed, NEW r \in Requests, FoundSo(r), began[r] <= now, Probe(r)
    PROVE  FoundSo(r)'
<1>1. PICK d \in Wanted(r) \ DOMAIN found[r] : \E x \in {"ok", "fail", "timeout"} :
        /\ x = "ok" => state[d] = "up"
        /\ x = "timeout" => Expired(r)
        /\ x = "fail" => ~Expired(r) /\ (state[d] = "down" \/ r \in gone)
        /\ found' = [found EXCEPT ![r] =
             [e \in DOMAIN found[r] \cup {d} |-> IF e = d THEN x ELSE found[r][e]]]
  BY DEF Probe
<1>2. PICK x \in {"ok", "fail", "timeout"} :
        /\ x = "ok" => state[d] = "up"
        /\ x = "timeout" => Expired(r)
        /\ x = "fail" => state[d] = "down" \/ r \in gone
        /\ found' = [found EXCEPT ![r] =
             [e \in DOMAIN found[r] \cup {d} |-> IF e = d THEN x ELSE found[r][e]]]
  BY <1>1
<1>3. found'[r] = [e \in DOMAIN found[r] \cup {d} |-> IF e = d THEN x ELSE found[r][e]]
  BY <1>2 DEF TypeOK
<1>4. UNCHANGED <<now, past, began, gone, kind>>
  BY DEF Probe, world, request
<1>5. began[r] \in Nat /\ now \in Nat
  BY DEF TypeOK
<1>6. d \in Deps /\ \A e \in DOMAIN found[r] : e \in Deps
  <2>1. found[r] \in Finding
    BY DEF TypeOK
  <2>2. PICK S \in SUBSET Deps : found[r] \in [S -> {"ok", "fail", "timeout"}]
    BY <2>1 DEF Finding
  <2> QED
    BY <2>2 DEF Wanted
<1>7. state[d] \in {"up", "down"} => Seen(d, state[d], began[r])
  <2>1. now \in began[r]..now
    BY <1>5
  <2> QED
    BY <1>6, <2>1 DEF Seen, Observed
<1>8. /\ \A e \in Deps, y \in {"up", "down"} :
           Seen(e, y, began[r]) => Seen(e, y, began[r])'
      /\ Expired(r) => Expired(r)'
  BY <1>4 DEF Seen, Expired, Deadline, Allowed
<1>9. r \in gone => r \in gone'
  BY <1>4
<1>10. ASSUME NEW e \in DOMAIN found'[r]
       PROVE  /\ found'[r][e] = "ok" => Seen(e, "up", began[r])'
              /\ found'[r][e] = "fail" => Seen(e, "down", began[r])' \/ r \in gone'
              /\ found'[r][e] = "timeout" => Expired(r)'
  <2>1. CASE e = d
    BY <1>2, <1>3, <1>6, <1>7, <1>8, <1>9, <2>1
  <2>2. CASE e # d
    <3>1. e \in DOMAIN found[r] /\ found'[r][e] = found[r][e]
      BY <1>3, <1>10, <2>2
    <3> QED
      BY <1>6, <1>8, <1>9, <3>1 DEF FoundSo
  <2> QED
    BY <2>1, <2>2
<1> QED
  BY <1>10 DEF FoundSo

LEMMA StepProbesTell ==
    ASSUME TypeInv, Timing, Observed, ProbesTell, [Next]_vars
    PROVE  ProbesTell'
<1>0. TypeOK /\ Grown
  BY StepObserved DEF TypeInv
<1> SUFFICES ASSUME NEW r \in Requests, Probing(r)' PROVE FoundSo(r)'
  BY DEF ProbesTell
<1>1. CASE found'[r] = NoFinding
  BY <1>1 DEF FoundSo, NoFinding
<1>2. CASE Probe(r)
  <2>1. began[r] <= now /\ FoundSo(r)
    BY <1>2 DEF Probe, Probing, Timing, ProbesTell
  <2> QED
    BY <1>0, <1>2, <2>1, ProbeTells
<1>3. CASE /\ Probing(r)
           /\ found'[r] = found[r] /\ began'[r] = began[r] /\ kind'[r] = kind[r]
           /\ r \in gone' => r \in gone \/ ~Expired(r)
  BY <1>0, <1>3, FoundSoKept DEF ProbesTell
<1> DEFINE Kept == /\ Probing(r)
                   /\ found'[r] = found[r] /\ began'[r] = began[r] /\ kind'[r] = kind[r]
                   /\ r \in gone' => r \in gone \/ ~Expired(r)
<1> USE DEF world, process, request, server, probes, Probing
<1>4. ASSUME NEW q \in Requests, Arrive(q) PROVE Kept
  BY <1>0, <1>4 DEF Arrive, TypeOK
<1>5. ASSUME NEW q \in Requests, Live(q) \/ Unready(q) \/ ReadyAnswers(q) \/ Hit(q) \/ Miss(q)
                                  \/ Join(q)
      PROVE  Kept
  BY <1>0, <1>5 DEF Live, Unready, ReadyAnswers, Hit, Miss, Join, TypeOK
<1>6. ASSUME NEW q \in Requests, Ready(q) \/ Lead(q) PROVE found'[r] = NoFinding \/ Kept
  BY <1>0, <1>6 DEF Ready, Lead, Begin, TypeOK
<1>7. ASSUME NEW q \in Requests, Probe(q) PROVE Probe(r) \/ Kept
  <2>1. pc' = pc /\ kind' = kind /\ began' = began /\ gone' = gone
    BY <1>7 DEF Probe
  <2>2. q # r => found'[r] = found[r]
    BY <1>0, <1>7 DEF Probe, TypeOK
  <2> QED
    BY <1>7, <2>1, <2>2
<1>8. ASSUME NEW q \in Requests, Store(q) \/ Land(q) PROVE Kept
  BY <1>0, <1>8 DEF Store, Land, Follows, TypeOK
<1>9. ASSUME NEW q \in Requests, Disconnect(q) PROVE Kept
  BY <1>0, <1>9 DEF Disconnect, Expired, Deadline, Allowed, TypeOK
<1>10. ASSUME NEW d \in Deps, Change(d) PROVE Kept
  BY <1>10 DEF Change
<1>11. ASSUME Signal \/ Close \/ Exit \/ ListenFails \/ Tick \/ UNCHANGED vars PROVE Kept
  BY <1>11 DEF Signal, Close, Exit, ListenFails, Tick, vars
<1>12. ASSUME GiveUp PROVE Kept
  BY <1>0, <1>12 DEF GiveUp, TypeOK
<1> HIDE DEF Kept
<1> QED
  BY <1>1, <1>2, <1>3, <1>4, <1>5, <1>6, <1>7, <1>8, <1>9, <1>10, <1>11, <1>12
     DEF Next, Handle, Done, Kept

LEMMA TruthfulKept ==
    ASSUME Grown PROVE \A s \in Status : Truthful(s) => Truthful(s)'
<1> SUFFICES ASSUME NEW s \in Status, Truthful(s) PROVE Truthful(s)'
  OBVIOUS
<1> QED
  BY DEF Grown, Truthful

\* What is stored is true, and in time.
LEMMA StoreTells ==
    ASSUME TypeInv, Timing, ProbesTell, NEW r \in Requests, Store(r)
    PROVE  /\ cached'.at <= cached'.status.checkedAt + StatusDeadline
           /\ now' <= cached'.status.checkedAt + StatusDeadline
           /\ Truthful(cached.status)'
<1>1. cached' = [status |-> Told(r), at |-> now] /\ UNCHANGED <<now, past, gone>>
  BY DEF Store, world, probes
<1>2. Probing(r) /\ kind[r] = "status" /\ FoundSo(r) /\ DOMAIN found[r] = Deps
  BY DEF Store, Probed, Wanted, ProbesTell
<1>3. began[r] \in Nat /\ now \in Nat /\ now <= began[r] + StatusDeadline
  BY <1>2 DEF TypeInv, TypeOK, Timing, Deadline, Allowed, Probing
<1>4. /\ Told(r).checkedAt = began[r] /\ Told(r).found = found[r]
      /\ Told(r).leader = r /\ Told(r).incomplete = Expired(r)
  BY DEF Told
<1>5. \A d \in Deps, x \in {"up", "down"} : Seen(d, x, began[r]) =>
        \E t \in began[r]..(began[r] + StatusDeadline) : <<t, x>> \in past[d]
  BY <1>3 DEF Seen
<1>6. Truthful(Told(r))
  BY <1>2, <1>4, <1>5 DEF Truthful, FoundSo
<1>7. Truthful(cached.status)'
  BY <1>1, <1>6 DEF Truthful
<1> QED
  BY <1>1, <1>3, <1>4, <1>7

LEMMA StepCacheTells ==
    ASSUME TypeInv, Timing, Observed, ProbesTell, CacheTells, [Next]_vars
    PROVE  CacheTells'
<1>0. TypeOK /\ Grown
  BY StepObserved DEF TypeInv
<1> USE DEF world, process, request, server, probes
<1> DEFINE Quiet == /\ cached' = cached /\ now' = now
                    /\ \A q \in Requests : pc'[q] = "landing" => pc[q] = "landing"
<1>1. ASSUME cached' = cached, cached \in Stored, Truthful(cached.status)
      PROVE  Truthful(cached.status)'
  <2>1. cached.status \in Status
    BY <1>1 DEF Stored
  <2> QED
    BY <1>0, <1>1, <2>1, TruthfulKept DEF Truthful
<1>2. CASE Quiet
  <2>1. cached # None => cached \in Stored
    BY <1>0 DEF TypeOK, Stored
  <2>2. cached # None => Truthful(cached.status)'
    BY <1>1, <1>2, <2>1 DEF CacheTells
  <2>3. \A q \in Requests : pc[q] = "landing" => Truthful(cached.status)'
    BY <1>1, <1>2 DEF CacheTells, TypeInv
  <2> QED
    BY <1>2, <2>2, <2>3 DEF CacheTells
<1>3. ASSUME NEW r \in Requests, Store(r) PROVE CacheTells'
  <2>1. \A q \in Requests : pc'[q] = "landing" => q = r
    BY <1>0, <1>3 DEF Store, Probed, Probing, TypeOK
  <2>2. /\ cached'.at <= cached'.status.checkedAt + StatusDeadline
        /\ now' <= cached'.status.checkedAt + StatusDeadline
        /\ Truthful(cached.status)'
    BY <1>3, StoreTells
  <2> QED
    BY <2>1, <2>2 DEF CacheTells
<1>4. CASE Tick
  <2>1. cached' = cached /\ \A q \in Requests : pc'[q] # "landing"
    BY <1>4 DEF Tick, Probing, InFlight, Ended
  <2>2. cached # None => cached \in Stored
    BY <1>0 DEF TypeOK, Stored
  <2>3. cached # None => Truthful(cached.status)'
    BY <1>1, <2>1, <2>2 DEF CacheTells
  <2> QED
    BY <2>1, <2>3 DEF CacheTells
<1>5. ASSUME NEW r \in Requests, Arrive(r) \/ Disconnect(r) PROVE Quiet
  BY <1>0, <1>5 DEF Arrive, Disconnect, TypeOK
<1>6. ASSUME NEW r \in Requests, Live(r) \/ Unready(r) \/ Ready(r) \/ Probe(r) \/ ReadyAnswers(r)
      PROVE  Quiet
  BY <1>0, <1>6 DEF Live, Unready, Ready, Begin, Probe, ReadyAnswers, TypeOK
<1>7. ASSUME NEW r \in Requests, Hit(r) \/ Miss(r) \/ Join(r) \/ Lead(r) \/ Land(r) PROVE Quiet
  BY <1>0, <1>7 DEF Hit, Miss, Join, Lead, Begin, Land, Follows, TypeOK
<1>8. ASSUME NEW d \in Deps, Change(d) PROVE Quiet
  BY <1>8 DEF Change
<1>9. ASSUME Signal \/ Close \/ Exit \/ ListenFails \/ UNCHANGED vars PROVE Quiet
  BY <1>9 DEF Signal, Close, Exit, ListenFails, vars
<1>10. ASSUME GiveUp PROVE Quiet
  BY <1>0, <1>10 DEF GiveUp, TypeOK
<1> QED
  BY <1>2, <1>3, <1>4, <1>5, <1>6, <1>7, <1>8, <1>9, <1>10 DEF Next, Handle, Done

LEMMA StepAdmitted ==
    ASSUME TypeInv, Timing, Admitted, [Next]_vars
    PROVE  Admitted'
<1> USE DEF world, process, request, server, probes, Admitted, Probing
<1>0. TypeOK
  BY DEF TypeInv
<1>1. ASSUME NEW r \in Requests, Arrive(r) PROVE Admitted'
  BY <1>0, <1>1 DEF Arrive, TypeOK
<1>2. ASSUME NEW r \in Requests, Ready(r), stage \notin {"exited", "failed"} PROVE Admitted'
  <2>1. late = {} /\ asked[r] >= Grace /\ UNCHANGED <<kind, asked, late>>
    BY <1>0, <1>2 DEF Ready, Admits, Draining, TypeOK, Timing
  <2> QED
    BY <1>0, <1>2, <2>1 DEF Ready, Begin, TypeOK
<1>3. ASSUME NEW r \in Requests, Lead(r) PROVE Admitted'
  <2>1. kind[r] = "status" /\ UNCHANGED <<kind, asked, late>>
    BY <1>3 DEF Lead, Timing
  <2> QED
    BY <1>0, <1>3, <2>1 DEF Lead, Begin, TypeOK
<1>4. ASSUME NEW r \in Requests,
             \/ Live(r) \/ Unready(r) \/ Probe(r) \/ ReadyAnswers(r) \/ Hit(r) \/ Miss(r)
             \/ Join(r) \/ Store(r) \/ Land(r) \/ Disconnect(r)
      PROVE  /\ UNCHANGED <<kind, asked, late>>
             /\ \A q \in Requests : Probing(q)' => Probing(q)
  <2>1. CASE Live(r) \/ Unready(r) \/ Probe(r) \/ ReadyAnswers(r) \/ Disconnect(r)
    BY <1>0, <2>1 DEF Live, Unready, Probe, ReadyAnswers, Disconnect, TypeOK
  <2>2. CASE Hit(r) \/ Miss(r) \/ Join(r) \/ Store(r) \/ Land(r)
    BY <1>0, <2>2 DEF Hit, Miss, Join, Store, Land, Follows, TypeOK
  <2> QED
    BY <1>4, <2>1, <2>2
<1>5. ASSUME NEW d \in Deps, Change(d) PROVE Admitted'
  BY <1>5 DEF Change
<1>6. CASE Signal \/ Close \/ Exit \/ GiveUp \/ ListenFails \/ Tick \/ UNCHANGED vars
  BY <1>0, <1>6 DEF Signal, Close, Exit, GiveUp, ListenFails, Tick, vars, TypeOK
<1> QED
  BY <1>1, <1>2, <1>3, <1>4, <1>5, <1>6 DEF Next, Handle, Done

HealthInv == TypeInv /\ Timing /\ Evidence

LEMMA InitHealthInv == Init => HealthInv
<1> SUFFICES ASSUME Init PROVE HealthInv
  OBVIOUS
<1>1. Observed
  BY DEF Init, Observed
<1>2. ProbesTell /\ CacheTells /\ Admitted
  BY DEF Init, ProbesTell, CacheTells, Admitted, Probing
<1> QED
  BY <1>1, <1>2, InitType, InitTiming DEF HealthInv, Evidence

LEMMA StepHealthInv == HealthInv /\ [Next]_vars => HealthInv'
BY StepType, StepTiming, StepObserved, StepProbesTell, StepCacheTells, StepAdmitted
   DEF HealthInv, TypeInv, Evidence

---------------------------------------------------------------------------
(* Shutdown *)

\* A shutdown cuts off no request that it could have waited for.  Who is still in
\* flight when Shutdown's limit is reached probes for longer than that, or waits for one
\* who does, as nobody in flight came after the signal.
LEMMA StepGraceful ==
    HealthInv /\ GracefulShutdown /\ [Next]_vars => GracefulShutdown'
<1> SUFFICES ASSUME HealthInv, GracefulShutdown, [Next]_vars PROVE GracefulShutdown'
  OBVIOUS
<1> USE DEF HealthInv, GracefulShutdown, Allowed, world, process, request, server, probes
<1>0. TypeOK /\ Timing
  BY DEF TypeInv
<1>1. CASE GiveUp
  <2>1. now \in Nat /\ signalled \in 0..now /\ now >= signalled + Limit
    BY <1>0, <1>1 DEF GiveUp, Overdue, Timing, Draining, TypeOK
  <2>2. ASSUME NEW r \in InFlight PROVE kind[r] # "live" /\ Limit <= Allowed(r)
    <3>1. r \in Requests /\ asked[r] \in Nat /\ asked[r] <= signalled /\ asked[r] < now
      BY <1>0, <1>1, <2>1, <2>2 DEF GiveUp, Draining, InFlight, Timing, TypeOK
    <3>2. CASE pc[r] \in {"probing", "landing"}
      BY <1>0, <2>1, <3>1, <3>2 DEF Timing, Deadline, TypeOK
    <3>3. CASE pc[r] = "waiting"
      <4>1. kind[r] = "status" /\ flight \in Requests /\ flight # None /\ stage # "exited"
        BY <1>0, <1>1, <3>1, <3>3 DEF Timing, TypeOK, GiveUp
      <4>2. pc[flight] \in {"probing", "landing"} /\ kind[flight] = "status"
        BY <1>0, <4>1 DEF Timing
      <4>3. /\ flight \in InFlight
            /\ now <= began[flight] + StatusDeadline /\ began[flight] = asked[flight]
        BY <1>0, <4>1, <4>2 DEF Timing, Deadline, InFlight, Ended
      <4>4. asked[flight] <= signalled /\ asked[flight] \in Nat
        BY <1>0, <1>1, <4>1, <4>3 DEF GiveUp, Draining, Timing, TypeOK
      <4> QED
        BY <2>1, <4>1, <4>3, <4>4
    <3>4. pc[r] \notin {"idle", "answered", "cut", "asked", "missed"}
      BY <1>0, <2>1, <3>1 DEF InFlight, Ended, Timing
    <3> QED
      BY <1>0, <3>1, <3>2, <3>3, <3>4 DEF TypeOK, Ended
  <2>3. kind' = kind /\ \A r \in Requests : pc'[r] = "cut" => pc[r] = "cut" \/ r \in InFlight
    BY <1>0, <1>1 DEF GiveUp, TypeOK
  <2> QED
    BY <2>2, <2>3
<1>2. ASSUME NEW r \in Requests, Arrive(r) PROVE GracefulShutdown'
  BY <1>0, <1>2 DEF Arrive, TypeOK
<1> DEFINE NoneCut == kind' = kind /\ \A q \in Requests : pc'[q] = "cut" => pc[q] = "cut"
<1>3. ASSUME NEW r \in Requests, Handle(r) \/ Disconnect(r) PROVE NoneCut
  <2>1. CASE Live(r) \/ Unready(r) \/ Ready(r) \/ Probe(r) \/ ReadyAnswers(r) \/ Disconnect(r)
    BY <1>0, <2>1 DEF Live, Unready, Ready, Begin, Probe, ReadyAnswers, Disconnect, TypeOK
  <2>2. CASE Hit(r) \/ Miss(r) \/ Join(r) \/ Lead(r) \/ Store(r) \/ Land(r)
    BY <1>0, <2>2 DEF Hit, Miss, Join, Lead, Begin, Store, Land, Follows, TypeOK
  <2> QED
    BY <1>3, <2>1, <2>2 DEF Handle
<1>4. ASSUME NEW d \in Deps, Change(d) PROVE NoneCut
  BY <1>4 DEF Change
<1>5. ASSUME Signal \/ Close \/ Exit \/ ListenFails \/ Tick \/ UNCHANGED vars PROVE NoneCut
  BY <1>5 DEF Signal, Close, Exit, ListenFails, Tick, vars
<1>6. NoneCut => GracefulShutdown'
  OBVIOUS
<1> QED
  BY <1>1, <1>2, <1>3, <1>4, <1>5, <1>6 DEF Next, Done

\* serve.go:74-76: for any deadlines and any limit, a shutdown cuts off only requests
\* whose own deadline is as long as the limit.
THEOREM ShutdownIsGraceful == Spec => []GracefulShutdown
<1>1. Init => GracefulShutdown
  BY DEF Init, GracefulShutdown
<1> QED
  BY <1>1, InitHealthInv, StepHealthInv, StepGraceful, PTL DEF Spec

---------------------------------------------------------------------------
(* Answers *)

\* An answer is given once.
LEMMA AnswerStays ==
    ASSUME TypeInv, [Next]_vars, NEW r \in Requests, pc[r] = "answered"
    PROVE  /\ answer'[r] = answer[r] /\ kind'[r] = kind[r] /\ asked'[r] = asked[r]
           /\ r \in late' => r \in late
<1> USE DEF world, process, request, server, probes
<1>0. TypeOK
  BY DEF TypeInv
<1> DEFINE Stays == /\ answer'[r] = answer[r] /\ kind'[r] = kind[r] /\ asked'[r] = asked[r]
                    /\ r \in late' => r \in late
<1>1. ASSUME NEW q \in Requests, Arrive(q) \/ Disconnect(q) PROVE Stays
  BY <1>0, <1>1 DEF Arrive, Disconnect, TypeOK
<1>2. ASSUME NEW q \in Requests,
             Live(q) \/ Unready(q) \/ Ready(q) \/ Probe(q) \/ ReadyAnswers(q)
      PROVE  Stays
  BY <1>0, <1>2 DEF Live, Unready, Ready, Probe, ReadyAnswers, Probed, Probing, Answers, TypeOK
<1>3. ASSUME NEW q \in Requests, Hit(q) \/ Miss(q) \/ Join(q) \/ Lead(q) \/ Store(q)
      PROVE  Stays
  BY <1>0, <1>3 DEF Hit, Miss, Join, Lead, Store, Answers, TypeOK
<1>4. ASSUME NEW q \in Requests, Land(q) PROVE Stays
  BY <1>0, <1>4 DEF Land, TypeOK
<1>5. ASSUME NEW d \in Deps, Change(d) PROVE Stays
  BY <1>5 DEF Change
<1>6. ASSUME Signal \/ Close \/ Exit \/ GiveUp \/ ListenFails \/ Tick \/ UNCHANGED vars
      PROVE  Stays
  BY <1>6 DEF Signal, Close, Exit, GiveUp, ListenFails, Tick, vars
<1> QED
  BY <1>1, <1>2, <1>3, <1>4, <1>5, <1>6 DEF Next, Handle, Done

\* Who answers a request.
LEMMA AnswerComes ==
    ASSUME TypeInv, [Next]_vars, NEW r \in Requests, pc[r] # "answered", pc'[r] = "answered"
    PROVE  /\ stage \notin {"exited", "failed"}
           /\ \/ Live(r) \/ Unready(r) \/ ReadyAnswers(r) \/ Hit(r)
              \/ \E q \in Requests : Land(q) /\ (r = q \/ pc[r] = "waiting")
<1> USE DEF world, process, request, server, probes
<1>0. TypeOK
  BY DEF TypeInv
<1>1. ASSUME NEW q \in Requests, Arrive(q) \/ Disconnect(q) PROVE FALSE
  BY <1>0, <1>1 DEF Arrive, Disconnect, TypeOK
<1>2. ASSUME NEW q \in Requests, Ready(q) \/ Probe(q) \/ Miss(q) \/ Join(q) \/ Lead(q) \/ Store(q)
      PROVE  FALSE
  BY <1>0, <1>2 DEF Ready, Probe, Miss, Join, Lead, Store, Begin, TypeOK
<1>3. ASSUME NEW q \in Requests, Live(q) \/ Unready(q) \/ ReadyAnswers(q) \/ Hit(q) PROVE r = q
  BY <1>0, <1>3 DEF Live, Unready, ReadyAnswers, Hit, TypeOK
<1>4. ASSUME NEW q \in Requests, Land(q) PROVE r = q \/ pc[r] = "waiting"
  BY <1>0, <1>4 DEF Land, TypeOK
<1>5. ASSUME NEW d \in Deps, Change(d) PROVE FALSE
  BY <1>5 DEF Change
<1>6. ASSUME Signal \/ Close \/ Exit \/ ListenFails \/ Tick \/ UNCHANGED vars PROVE FALSE
  BY <1>6 DEF Signal, Close, Exit, ListenFails, Tick, vars
<1>7. ASSUME GiveUp PROVE FALSE
  BY <1>0, <1>7 DEF GiveUp, TypeOK
<1> QED
  BY <1>1, <1>2, <1>3, <1>4, <1>5, <1>6, <1>7 DEF Next, Handle, Done

\* The signal comes once.
LEMMA SignalOnce == [Next]_vars => Signal \/ signalled' = signalled
<1> USE DEF process
<1>1. ASSUME NEW r \in Requests, Arrive(r) \/ Handle(r) \/ Disconnect(r)
      PROVE  signalled' = signalled
  BY <1>1 DEF Arrive, Disconnect, Handle, Live, Unready, Ready, Probe, ReadyAnswers, Hit, Miss,
              Join, Lead, Store, Land
<1>2. ASSUME NEW d \in Deps, Change(d) PROVE signalled' = signalled
  BY <1>2 DEF Change
<1>3. ASSUME Close \/ Exit \/ GiveUp \/ ListenFails \/ Tick \/ UNCHANGED vars
      PROVE  signalled' = signalled
  BY <1>3 DEF Close, Exit, GiveUp, ListenFails, Tick, vars
<1> QED
  BY <1>1, <1>2, <1>3 DEF Next, Done

Recent(r, s) ==
    \/ asked[r] <= s.checkedAt + StatusDeadline
    \/ asked[r] < s.checkedAt + StatusDeadline + TTL

\* A status that was told is one that was stored.
StatusSo ==
    \A r \in Answered("status") :
      /\ answer[r].status \in Status
      /\ answer[r].code = Code(answer[r].status)
      /\ Truthful(answer[r].status)
      /\ Recent(r, answer[r].status)

LEMMA StepStatusSo == HealthInv /\ StatusSo /\ [Next]_vars => StatusSo'
<1> SUFFICES ASSUME HealthInv, StatusSo, [Next]_vars,
                    NEW r \in Requests, kind'[r] = "status", pc'[r] = "answered"
             PROVE  /\ answer'[r].status \in Status
                    /\ answer'[r].code = Code(answer'[r].status)
                    /\ Truthful(answer[r].status)'
                    /\ Recent(r, answer[r].status)'
  BY DEF StatusSo, Answered, Code, Unhealthy
<1>0. TypeInv /\ TypeOK /\ Timing /\ Evidence /\ Grown
  BY StepObserved DEF HealthInv, TypeInv, Evidence
<1>1. CASE pc[r] = "answered"
  <2>1. answer'[r] = answer[r] /\ kind'[r] = kind[r] /\ asked'[r] = asked[r]
    BY <1>0, <1>1, AnswerStays
  <2>2. /\ answer[r].status \in Status
        /\ answer[r].code = Code(answer[r].status)
        /\ Truthful(answer[r].status)
        /\ Recent(r, answer[r].status)
    BY <1>1, <2>1 DEF StatusSo, Answered
  <2>3. Truthful(answer[r].status)'
    BY <1>0, <2>1, <2>2, TruthfulKept DEF Truthful
  <2> QED
    BY <2>1, <2>2, <2>3 DEF Recent
<1>2. CASE pc[r] # "answered"
  <2> DEFINE s == cached.status
  <2>1. Hit(r) \/ \E q \in Requests : Land(q) /\ (r = q \/ pc[r] = "waiting")
    BY <1>0, <1>2, AnswerComes DEF Live, Unready, ReadyAnswers, request
  <2>2. CASE Hit(r)
    <3>1. cached \in Stored /\ cached # None
      BY <1>0, <2>2 DEF Hit, Hits, TypeOK, Stored
    <3>2. /\ answer'[r].status = s /\ answer'[r].code = Code(s)
          /\ UNCHANGED <<asked, past, gone>>
      BY <1>0, <2>2 DEF Hit, Answers, TypeOK, request, world, probes
    <3>3. Truthful(s) /\ Recent(r, s)
      <4>1. Truthful(s) /\ cached.at <= s.checkedAt + StatusDeadline
        BY <1>0, <3>1 DEF Evidence, CacheTells
      <4>2. asked[r] < cached.at + TTL
        BY <1>0, <2>2, <3>1 DEF Hit, Hits, Stored, TypeOK
      <4>3. asked[r] \in Nat /\ cached.at \in Nat /\ s.checkedAt \in Nat
        BY <1>0, <3>1 DEF Stored, Status, TypeOK
      <4> QED
        BY <4>1, <4>2, <4>3 DEF Recent
    <3> QED
      BY <3>1, <3>2, <3>3 DEF Stored, Truthful, Recent
  <2>3. ASSUME NEW q \in Requests, Land(q), r = q \/ pc[r] = "waiting"
        PROVE  /\ answer'[r].status \in Status
               /\ answer'[r].code = Code(answer'[r].status)
               /\ Truthful(answer[r].status)'
               /\ Recent(r, answer[r].status)'
    <3>1. cached \in Stored /\ pc[q] = "landing"
      BY <1>0, <2>3 DEF Land, TypeInv
    <3>2. /\ answer'[r].status = s /\ answer'[r].code = Code(s)
          /\ UNCHANGED <<asked, past, gone>>
      BY <1>0, <2>3 DEF Land, TypeOK, request, world, probes
    <3>3. now <= s.checkedAt + StatusDeadline /\ Truthful(s)
      BY <1>0, <3>1 DEF Evidence, CacheTells
    <3>4. asked[r] \in Nat /\ asked[r] <= now /\ now \in Nat /\ s.checkedAt \in Nat
      BY <1>0, <3>1 DEF Stored, Status, TypeOK, Timing
    <3>5. Recent(r, s)
      BY <3>3, <3>4 DEF Recent
    <3> QED
      BY <3>1, <3>2, <3>3, <3>5 DEF Stored, Truthful, Recent
  <2> QED
    BY <2>1, <2>2, <2>3
<1> QED
  BY <1>1, <1>2

LEMMA StatusSoAlways == Spec => []StatusSo
<1>1. Init => StatusSo
  BY DEF Init, StatusSo, Answered
<1> QED
  BY <1>1, InitHealthInv, StepHealthInv, StepStatusSo, PTL DEF Spec

\* README.md:65-66: no status is older than the TTL and the deadline of its probes,
\* for any of them and however many requests wait for one.
THEOREM StatusIsFresh == Spec => []StatusFresh
<1>1. StatusSo => StatusFresh
  BY DEF StatusSo, StatusFresh, Recent
<1> QED
  BY <1>1, StatusSoAlways, PTL

\* health.go:173-271: what a status says of a dependency was so while its probes ran,
\* unless their client left, and one that is incomplete is answered by 206.
THEOREM StatusIsTrue == Spec => []StatusTells
<1>1. StatusSo => StatusTells
  BY DEF StatusSo, StatusTells, Truthful, Code
<1> QED
  BY <1>1, StatusSoAlways, PTL

LEMMA StepReadyHolds == HealthInv /\ ReadyHolds /\ [Next]_vars => ReadyHolds'
<1> SUFFICES ASSUME HealthInv, ReadyHolds, [Next]_vars,
                    NEW r \in Requests, kind'[r] = "ready", pc'[r] = "answered",
                    answer'[r].code = 200
             PROVE  /\ asked'[r] >= Grace
                    /\ r \notin late'
                    /\ signalled' # None => answer'[r].at <= signalled' + ReadyDeadline
                    /\ \A d \in Required :
                         \E t \in asked'[r]..answer'[r].at : <<t, "up">> \in past'[d]
  BY DEF ReadyHolds, Answered
<1>0. TypeInv /\ TypeOK /\ Timing /\ Evidence /\ Grown
  BY StepObserved DEF HealthInv, TypeInv, Evidence
<1>1. CASE pc[r] = "answered"
  <2>1. /\ answer'[r] = answer[r] /\ kind'[r] = kind[r] /\ asked'[r] = asked[r]
        /\ r \in late' => r \in late
    BY <1>0, <1>1, AnswerStays
  <2>2. /\ asked[r] >= Grace
        /\ r \notin late
        /\ signalled # None => answer[r].at <= signalled + ReadyDeadline
        /\ \A d \in Required :
             \E t \in asked[r]..answer[r].at : <<t, "up">> \in past[d]
    <3>1. r \in Answered("ready") /\ answer[r].code = 200
      BY <1>1, <2>1 DEF Answered
    <3> QED
      BY <3>1, Zenon DEF ReadyHolds
  <2>3. signalled' # None => answer[r].at <= signalled' + ReadyDeadline
    <3>1. answer[r].at \in Nat /\ now \in Nat /\ answer[r].at <= now
      BY <1>0, <1>1 DEF Timing, TypeOK, Reply
    <3>2. CASE Signal
      BY <3>1, <3>2 DEF Signal
    <3>3. CASE signalled' = signalled
      BY <2>2, <3>3
    <3> QED
      BY <3>2, <3>3, SignalOnce
  <2>4. ASSUME NEW d \in Required
        PROVE  \E t \in asked[r]..answer[r].at : <<t, "up">> \in past'[d]
    BY <1>0, <2>2 DEF Grown
  <2> QED
    BY <2>1, <2>2, <2>3, <2>4
<1>2. CASE pc[r] # "answered"
  <2>1. ReadyAnswers(r) /\ stage \notin {"exited", "failed"}
    <3>1. kind[r] = "ready" /\ ~Unready(r)
      <4>1. kind'[r] = kind[r]
        BY <1>0, <1>2, AnswerComes DEF Live, Unready, ReadyAnswers, Hit, Land, request
      <4>2. Unready(r) => answer'[r].code = 503
        BY <1>0 DEF Unready, Answers, TypeOK
      <4> QED
        BY <4>1, <4>2
    <3>2. ~Live(r) /\ ~Hit(r) /\ \A q \in Requests : ~(Land(q) /\ (r = q \/ pc[r] = "waiting"))
      BY <1>0, <3>1 DEF Live, Hit, Land, Timing
    <3> QED
      BY <1>0, <1>2, <3>1, <3>2, AnswerComes
  <2>2. /\ Probing(r) /\ kind[r] = "ready" /\ DOMAIN found[r] = Required
        /\ UNCHANGED <<signalled, asked, late, past>>
    BY <2>1 DEF ReadyAnswers, Probed, Wanted, world, process, request
  <2>3. answer'[r].at = now /\ \A d \in Required : found[r][d] = "ok"
    BY <1>0, <2>1 DEF ReadyAnswers, Answers, TypeOK
  <2>4. /\ asked[r] >= Grace /\ r \notin late
        /\ \A d \in Required : Seen(d, "up", began[r])
    BY <1>0, <2>2, <2>3 DEF Evidence, ProbesTell, FoundSo, Admitted
  <2>5. began[r] = asked[r] /\ now <= asked[r] + ReadyDeadline
    BY <1>0, <2>2 DEF Timing, Deadline, Allowed, Probing
  <2>6. signalled # None => now <= signalled + ReadyDeadline
    <3>1. Draining => asked[r] <= signalled /\ signalled \in Nat
      BY <1>0, <2>2 DEF Timing, InFlight, Ended, Probing
    <3>2. Draining \/ signalled = None
      BY <1>0, <2>1 DEF Timing, Draining, TypeOK
    <3>3. now \in Nat /\ asked[r] \in Nat
      BY <1>0 DEF TypeOK
    <3> QED
      BY <2>5, <3>1, <3>2, <3>3
  <2>7. \A d \in Required : \E t \in asked[r]..now : <<t, "up">> \in past[d]
    BY <2>4, <2>5 DEF Seen
  <2> QED
    BY <2>2, <2>3, <2>4, <2>6, <2>7
<1> QED
  BY <1>1, <1>2

\* health.go:90-146: for any deadlines and any dependencies, who is told "ready" came
\* neither in the grace nor after the signal, hears it in time, and each required
\* dependency was up at a moment since it asked.
THEOREM ReadinessHolds == Spec => []ReadyHolds
<1>1. Init => ReadyHolds
  BY DEF Init, ReadyHolds, Answered
<1> QED
  BY <1>1, InitHealthInv, StepHealthInv, StepReadyHolds, PTL DEF Spec
=============================================================================
