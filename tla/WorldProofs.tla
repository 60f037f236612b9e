---------------------------- MODULE WorldProofs ----------------------------
(***************************************************************************)
(* Proofs about the world loop, for any number of agents, any minds, any   *)
(* timer limits and any run length: its types, the lockstep safety         *)
(* invariants and that it implements the lockstep protocol; then that the  *)
(* researcher's inputs are applied at their tick, timers fire on time, the *)
(* events reach the minds, and no action or its end is lost or told twice, *)
(* with the recorded decisions of minds or with missions as minds; and     *)
(* that a mission never hangs and follows its list.                        *)
(***************************************************************************)
EXTENDS MissionProperties, SequenceFolds, TLAPS

(***************************************************************************)
(* The action runtime                                                      *)
(***************************************************************************)
\* Ending an action keeps the runtime's types (runtime.ts end).
LEMMA EndType ==
  ASSUME NEW r \in Runtime, NEW a \in Agents, NEW status \in Statuses,
         NEW silent \in BOOLEAN
  PROVE  End(r, a, status, silent) \in Runtime
<1> DEFINE id == r.active[a].id
           e  == [agent |-> a, id |-> id, status |-> status]
<1>1. CASE ~Running(r, a)
  BY <1>1 DEF End
<1>2. CASE Running(r, a)
  <2>1. NoAction \in Action /\ id \in Nat /\ e \in Ended
    BY DEF Runtime, Action, NoAction, Ended
  <2>2. Clears(r, a) \in Runtime
    BY <2>1 DEF Clears, Runtime
  <2>3. Append(r.ended, e) \in Seq(Ended)
    BY <2>1 DEF Runtime
  <2>4. [started |-> r.traced.started, replaced |-> r.traced.replaced \cup {id}]
          \in [started : SUBSET (Nat \X Agents), replaced : SUBSET Nat]
    BY <2>1 DEF Runtime
  <2> QED
    BY <1>2, <2>1, <2>2, <2>3, <2>4 DEF End, Clears, Runtime
<1> QED BY <1>1, <1>2

\* What ending an action does to everybody's action and recovery.
LEMMA EndEffect ==
  ASSUME NEW r \in Runtime, NEW a \in Agents, NEW status \in Statuses,
         NEW silent \in BOOLEAN,
         \A b \in r.recovering : r.active[b].by = "reflex"
  PROVE  LET s == End(r, a, status, silent) IN
         /\ s.active[a] = NoAction
         /\ \A b \in Agents \ {a} : s.active[b] = r.active[b]
         /\ s.recovering = r.recovering \ {a}
         /\ s.fired = r.fired
<1>1. CASE ~Running(r, a)
  BY <1>1 DEF End, Running, NoAction
<1>2. CASE Running(r, a)
  BY <1>2 DEF End, Clears, Runtime
<1> QED BY <1>1, <1>2

\* Starting an action keeps the runtime's types (runtime.ts begin).
LEMMA BeginType ==
  ASSUME NEW r \in Runtime, NEW a \in Agents, NEW name \in Names,
         NEW by \in Callers
  PROVE  Begin(r, a, name, by) \in Runtime
<1> DEFINE s == End(r, a, "preempted", Silently(by))
<1>1. s \in Runtime
  BY EndType DEF Silently, Statuses
<1>2. [id |-> s.nextAction, name |-> name, by |-> by] \in Action
  BY <1>1 DEF Runtime, Action
<1>3. s.traced.started \cup {<<s.nextAction, a>>} \in SUBSET (Nat \X Agents)
  BY <1>1 DEF Runtime
<1>4. s.nextAction + 1 \in Nat \ {0}
  BY <1>1 DEF Runtime
<1> HIDE DEF s
<1> DEFINE t == [s EXCEPT !.active[a] = [id |-> s.nextAction, name |-> name, by |-> by],
                          !.nextAction = @ + 1,
                          !.traced.started = @ \cup {<<s.nextAction, a>>}]
<1>5. t \in Runtime
  BY <1>1, <1>2, <1>3, <1>4 DEF Runtime
<1> QED BY <1>5 DEF Begin, s

\* Starting an action ends the agent's recovery and touches nobody else's.
LEMMA BeginEffect ==
  ASSUME NEW r \in Runtime, NEW a \in Agents, NEW name \in Names,
         NEW by \in Callers,
         \A b \in r.recovering : r.active[b].by = "reflex"
  PROVE  LET s == Begin(r, a, name, by) IN
         /\ s.active[a].by = by
         /\ \A b \in Agents \ {a} : s.active[b] = r.active[b]
         /\ s.recovering = r.recovering \ {a}
         /\ s.fired = r.fired
<1> DEFINE s == End(r, a, "preempted", Silently(by))
<1>1. s \in Runtime
  BY EndType DEF Silently, Statuses
<1>2. /\ \A b \in Agents \ {a} : s.active[b] = r.active[b]
      /\ s.recovering = r.recovering \ {a}
      /\ s.fired = r.fired
  <2>1. Silently(by) \in BOOLEAN /\ "preempted" \in Statuses
    BY DEF Silently, Statuses
  <2> QED BY <2>1, EndEffect
<1> HIDE DEF s
<1>3. Begin(r, a, name, by) =
        [s EXCEPT !.active[a] = [id |-> s.nextAction, name |-> name, by |-> by],
                  !.nextAction = @ + 1,
                  !.traced.started = @ \cup {<<s.nextAction, a>>}]
  BY DEF Begin, s
<1> QED BY <1>1, <1>2, <1>3 DEF Runtime

\* Whatever a tick does to the other agents, the one it runs ends with a legal
\* runtime, and holds a recovery only if the reflex's own action runs.
LEMMA TickEffect ==
  ASSUME NEW r \in Runtime, NEW a \in Agents, NEW outcome \in StepOutcomes,
         NEW level \in 0..FullSoc, NEW name \in Names, NEW refused \in BOOLEAN,
         \A b \in r.recovering : r.active[b].by = "reflex"
  PROVE  LET s == RuntimeTick(r, a, outcome, level, name, refused) IN
         /\ s \in Runtime
         /\ \A b \in s.recovering : s.active[b].by = "reflex"
         /\ s.recovering \subseteq r.recovering \cup {a}
<1> DEFINE Legal(s) == /\ s \in Runtime
                       /\ \A b \in s.recovering : s.active[b].by = "reflex"
                       /\ s.recovering \subseteq r.recovering \cup {a}
           stepped  == IF outcome = "running" THEN r ELSE End(r, a, outcome, FALSE)
           depleted == Deplete(stepped, a, level)
<1>1. ASSUME NEW s, Legal(s), NEW status \in Statuses, NEW silent \in BOOLEAN
      PROVE  Legal(End(s, a, status, silent))
  <2>1. s \in Runtime /\ \A b \in s.recovering : s.active[b].by = "reflex"
    BY <1>1
  <2>2. End(s, a, status, silent) \in Runtime
    BY <2>1, EndType
  <2>3. /\ \A b \in Agents \ {a} : End(s, a, status, silent).active[b] = s.active[b]
        /\ End(s, a, status, silent).recovering = s.recovering \ {a}
    BY <2>1, EndEffect
  <2>4. s.recovering \subseteq Agents
    BY <2>1 DEF Runtime
  <2> QED BY <1>1, <2>2, <2>3, <2>4
<1>2. Legal(stepped)
  BY <1>1 DEF StepOutcomes
<1>3. Legal(depleted)
  BY <1>1, <1>2 DEF Deplete, Statuses
<1> HIDE DEF stepped, depleted
<1>4. Legal(ApplyBatteryReflex(depleted, a, level, name, refused))
  <2> DEFINE e == End(depleted, a, "preempted", FALSE)
             f == [e EXCEPT !.fired = @ \cup {a}]
             g == Begin(f, a, name, "reflex")
  <2>1. Legal(e)
    BY <1>1, <1>3 DEF Statuses
  <2> HIDE DEF e
  <2>2. Legal(f) /\ f.recovering = e.recovering /\ f.active = e.active
    BY <2>1 DEF Runtime
  <2> HIDE DEF f
  <2>3. "reflex" \in Callers /\ f \in Runtime /\ \A b \in f.recovering : f.active[b].by = "reflex"
    BY <2>2 DEF Callers
  <2>4. g \in Runtime
    BY <2>3, BeginType
  <2>5. /\ g.active[a].by = "reflex"
        /\ \A b \in Agents \ {a} : g.active[b] = f.active[b]
        /\ g.recovering = f.recovering \ {a}
    BY <2>3, BeginEffect
  <2> HIDE DEF g
  <2>6. f.recovering \subseteq Agents
    BY <2>3 DEF Runtime
  <2>7. Legal([g EXCEPT !.recovering = @ \cup {a}])
    BY <2>2, <2>4, <2>5, <2>6 DEF Runtime
  <2> QED
    BY <2>2, <2>7 DEF ApplyBatteryReflex, e, f, g
<1> QED
  BY <1>3, <1>4 DEF RuntimeTick, stepped, depleted

(***************************************************************************)
(* The world loop                                                          *)
(***************************************************************************)
\* The agents are a finite set of numbers, so every request set is finite.
LEMMA AgentsFinite ==
  /\ IsFiniteSet(Agents) /\ Agents \subseteq Nat
  /\ IsFiniteSet(Open)
  /\ \A S \in SUBSET Agents : IsFiniteSet(S) /\ Cardinality(S) \in Nat
<1>1. IsFiniteSet(Agents) /\ Agents \subseteq Nat
  BY FS_Interval, WorldAssumption
<1>2. \A S \in SUBSET Agents : IsFiniteSet(S) /\ Cardinality(S) \in Nat
  BY <1>1, FS_Subset, FS_CardinalityType
<1>3. Open \in SUBSET Agents
  BY DEF Open
<1> QED BY <1>1, <1>2, <1>3

\* What a sequence over T holds is in T.
LEMMA SeqElement ==
  ASSUME NEW T, NEW s \in Seq(T), NEW k \in 1..Len(s)
  PROVE  s[k] \in T
OBVIOUS

\* Adding events to an inbox keeps its type (events.ts Inbox.add).
LEMMA AddEventsType ==
  ASSUME NEW entries \in SUBSET Event, NEW new \in SUBSET Event
  PROVE  AddEvents(entries, new) \in SUBSET Event
BY DEF AddEvents

\* The state right after the constructor: `start` asked of every mind.
LEMMA InitIInv == Init => IInv
<1> SUFFICES ASSUME Init PROVE IInv
  OBVIOUS
<1>1. NewEvent("start", 0, 0, 0) \in Event /\ NoDecision \in Decision
  BY DEF NewEvent, Event, ControlKinds, NoDecision, Decision, Names, TimerOp
<1>2. FreeSlot \in Slot /\ \A a \in Agents : slots[a] \in Slot
  BY <1>1 DEF Init, FreeSlot, Slot
<1>3. RuntimeInit \in Runtime
  BY DEF RuntimeInit, Runtime, Action, NoAction
<1>4. Open = Minded
  BY WorldAssumption DEF Init, Open, FreeSlot
<1>5. TypeOK
  <2>1. /\ soc \in [Agents -> 0..FullSoc] /\ prevSoc \in [Agents -> 0..FullSoc]
        /\ timers \in [Agents -> [Tags -> Nat]]
        /\ lastRequest \in [Agents -> Int]
    BY SocAssumption, WorldAssumption DEF Init
  <2>2. unanswered \in Int
    BY AgentsFinite, WorldAssumption DEF Init
  <2>3. inputLog \in Seq([agent : Agents, name : Names, tick : Nat])
    BY DEF Init
  <2>4. slots \in [Agents -> Slot]
    BY <1>2 DEF Init
  <2> QED BY <1>3, <2>1, <2>2, <2>3, <2>4 DEF Init, TypeOK
<1>6. UnansweredIsOpenRequests
  BY <1>4 DEF Init, UnansweredIsOpenRequests
<1>7. LockstepPhases
  BY DEF Init, LockstepPhases
<1>8. NoRequestWhileRecovering /\ RecoveryIsTheReflexAction
  BY DEF Init, NoRequestWhileRecovering, RecoveryIsTheReflexAction, RuntimeInit
<1> QED BY <1>5, <1>6, <1>7, <1>8 DEF IInv

\* The four invariants in terms of the slots, the counter and the runtime: what
\* a step that changes none of these leaves true.
LEMMA QuietStep ==
  ASSUME IInv, TypeOK', UNCHANGED <<slots, unanswered, deciding>>,
         rt'.recovering = rt.recovering, rt'.active = rt.active,
         LockstepPhases'
  PROVE  IInv'
<1>1. UnansweredIsOpenRequests'
  <2>1. Open' = Open
    BY DEF Open
  <2> QED BY <2>1 DEF IInv, UnansweredIsOpenRequests
<1>2. NoRequestWhileRecovering' /\ RecoveryIsTheReflexAction'
  BY DEF IInv, NoRequestWhileRecovering, RecoveryIsTheReflexAction
<1> QED BY <1>1, <1>2 DEF IInv

\* A run input is recorded (inject).
LEMMA InjectStep ==
  ASSUME IInv, NEW a \in Agents, NEW name \in Names, NEW t \in 1..MaxTick,
         Inject(a, name, t)
  PROVE  IInv'
<1>1. TypeOK'
  <2>1. inputLog' \in Seq([agent : Agents, name : Names, tick : Nat])
    BY DEF IInv, TypeOK, Inject
  <2> QED BY <2>1 DEF IInv, TypeOK, Inject
<1>2. LockstepPhases'
  BY DEF IInv, LockstepPhases, Inject, Open, Answered
<1> QED BY <1>1, <1>2, QuietStep DEF Inject

\* The minds are asked (decide, first half).
LEMMA DecideStep == IInv /\ Decide => IInv'
<1> SUFFICES ASSUME IInv, Decide PROVE IInv'
  OBVIOUS
<1>1. TypeOK'
  BY DEF IInv, TypeOK, Decide, Open
<1>2. UnansweredIsOpenRequests'
  <2>1. Open' = Open
    BY DEF Open, Decide
  <2> QED BY <2>1 DEF IInv, UnansweredIsOpenRequests, Decide
<1>3. LockstepPhases'
  BY DEF IInv, LockstepPhases, Decide, Open, Answered
<1>4. NoRequestWhileRecovering' /\ RecoveryIsTheReflexAction'
  BY DEF IInv, NoRequestWhileRecovering, RecoveryIsTheReflexAction, Decide
<1> QED BY <1>1, <1>2, <1>3, <1>4 DEF IInv

\* The answers arrive (decide, second half): exactly the answered requests
\* leave the open ones and the counter.
LEMMA DecisionsArriveStep == IInv /\ DecisionsArrive => IInv'
<1> SUFFICES ASSUME IInv, DecisionsArrive PROVE IInv'
  OBVIOUS
<1>0. PICK S \in SUBSET deciding : \E f \in [S -> Decisions] :
        /\ slots' = [a \in Agents |->
             IF a \in S THEN [slots[a] EXCEPT !.state = "answered", !.answer = f[a]]
             ELSE slots[a]]
        /\ unanswered' = StillUnanswered(S)
  BY DEF DecisionsArrive
<1>1. PICK f \in [S -> Decisions] :
        /\ slots' = [a \in Agents |->
             IF a \in S THEN [slots[a] EXCEPT !.state = "answered", !.answer = f[a]]
             ELSE slots[a]]
        /\ unanswered' = StillUnanswered(S)
  BY <1>0
<1>2. S \subseteq Open /\ S \subseteq Agents
  BY DEF IInv, LockstepPhases, Open
<1>3. /\ slots \in [Agents -> Slot] /\ pc = "idle"
      /\ \A a \in S : f[a] \in Decision
  BY WorldAssumption DEF IInv, TypeOK, LockstepPhases, DecisionsArrive
<1>4. slots' \in [Agents -> Slot]
  <2>1. ASSUME NEW a \in Agents PROVE slots'[a] \in Slot
    BY <1>1, <1>3 DEF Slot
  <2> QED BY <1>1, <2>1
<1>5. Open' = Open \ S
  <2>1. ASSUME NEW a \in S PROVE slots'[a].state = "answered"
    BY <1>1, <1>2, <1>3 DEF Slot
  <2>2. ASSUME NEW a \in Agents \ S PROVE slots'[a] = slots[a]
    BY <1>1
  <2> QED BY <1>2, <2>1, <2>2 DEF Open
<1>6. UnansweredIsOpenRequests'
  <2>1. Cardinality(Open') = Cardinality(Open) - Cardinality(Open \cap S)
    BY <1>5, AgentsFinite, FS_Difference
  <2>2. Open \cap S = S
    BY <1>2
  <2> QED
    BY <1>1, <2>1, <2>2 DEF IInv, UnansweredIsOpenRequests, StillUnanswered
<1>7. TypeOK'
  <2>1. Cardinality(S) \in Nat
    BY <1>2, AgentsFinite
  <2>2. unanswered' \in Int
    <3>1. unanswered \in Int
      BY DEF IInv, TypeOK
    <3>2. unanswered' = unanswered - Cardinality(S)
      BY <1>1 DEF StillUnanswered
    <3> QED BY <2>1, <3>1, <3>2
  <2> QED BY <1>4, <2>2 DEF IInv, TypeOK, DecisionsArrive
<1>8. LockstepPhases'
  BY <1>3 DEF LockstepPhases, DecisionsArrive
<1>9. NoRequestWhileRecovering' /\ RecoveryIsTheReflexAction'
  <2>1. \A a \in Agents : slots'[a].state # "free" => slots[a].state # "free"
    BY <1>1, <1>2 DEF Open
  <2> QED
    BY <2>1 DEF IInv, NoRequestWhileRecovering, RecoveryIsTheReflexAction, DecisionsArrive
<1> QED BY <1>6, <1>7, <1>8, <1>9 DEF IInv

\* A tick starts (step): no request is open, so no mind is being asked.
LEMMA StartTickStep == IInv /\ StartTick => IInv'
<1> SUFFICES ASSUME IInv, StartTick PROVE IInv'
  OBVIOUS
<1>1. TypeOK'
  BY DEF IInv, TypeOK, StartTick
<1>2. Open = {} /\ deciding = {}
  <2>1. Cardinality(Open) \in Nat /\ unanswered <= 0 /\ unanswered = Cardinality(Open)
    BY AgentsFinite, FS_CardinalityType DEF IInv, UnansweredIsOpenRequests, StartTick
  <2>2. Cardinality(Open) = 0
    BY <2>1
  <2> QED
    BY <2>2, AgentsFinite, FS_EmptySet DEF IInv, LockstepPhases
<1>3. LockstepPhases'
  BY <1>2 DEF LockstepPhases, StartTick, Open
<1> QED BY <1>1, <1>3, QuietStep DEF StartTick

\* A run input is applied (step, phase 1): a command may end a recovery.
LEMMA ApplyInputStep == IInv /\ ApplyInput => IInv'
<1> SUFFICES ASSUME IInv, ApplyInput PROVE IInv'
  OBVIOUS
<1>1. /\ rt' \in Runtime
      /\ \A b \in rt'.recovering : rt'.active[b].by = "reflex"
      /\ rt'.recovering \subseteq rt.recovering
  <2>1. rt \in Runtime /\ \A b \in rt.recovering : rt.active[b].by = "reflex"
    BY DEF IInv, TypeOK, RecoveryIsTheReflexAction
  <2>2. CASE rt' = rt
    BY <2>1, <2>2
  <2>3. CASE rt' = Begin(rt, inputLog[turn].agent, inputLog[turn].name, "world")
    <3> DEFINE i == inputLog[turn]
    <3>1. turn \in 1..Len(inputLog)
      BY DEF IInv, TypeOK, ApplyInput
    <3>2. i.agent \in Agents /\ i.name \in Names /\ "world" \in Callers
      <4>1. inputLog \in Seq([agent : Agents, name : Names, tick : Nat])
        BY DEF IInv, TypeOK
      <4>2. i \in [agent : Agents, name : Names, tick : Nat]
        BY <3>1, <4>1, SeqElement
      <4> QED BY <4>2 DEF Callers
    <3>3. rt' \in Runtime
      BY <2>1, <2>3, <3>2, BeginType
    <3>4. /\ \A b \in Agents \ {i.agent} : rt'.active[b] = rt.active[b]
          /\ rt'.recovering = rt.recovering \ {i.agent}
      BY <2>1, <2>3, <3>2, BeginEffect
    <3> QED BY <2>1, <3>3, <3>4 DEF Runtime
  <2> QED BY <2>2, <2>3 DEF ApplyInput
<1>2. TypeOK'
  <2>1. turn \in Nat \ {0} /\ turn' = turn + 1
        /\ traced \in [inputs : SUBSET Nat, delivered : SUBSET Nat]
    BY DEF IInv, TypeOK, ApplyInput
  <2>2. traced' = traced \/ traced' = [traced EXCEPT !.inputs = @ \cup {turn}]
    BY DEF ApplyInput
  <2>3. traced' \in [inputs : SUBSET Nat, delivered : SUBSET Nat]
    BY <2>1, <2>2
  <2>4. turn' \in Nat \ {0}
    BY <2>1
  <2> QED BY <1>1, <2>3, <2>4 DEF IInv, TypeOK, ApplyInput
<1>3. UnansweredIsOpenRequests'
  <2>1. Open' = Open
    BY DEF Open, ApplyInput
  <2> QED BY <2>1 DEF IInv, UnansweredIsOpenRequests, ApplyInput
<1>4. LockstepPhases'
  BY DEF IInv, LockstepPhases, ApplyInput, Open
<1>5. NoRequestWhileRecovering' /\ RecoveryIsTheReflexAction'
  BY <1>1 DEF IInv, NoRequestWhileRecovering, RecoveryIsTheReflexAction, ApplyInput
<1> QED BY <1>2, <1>3, <1>4, <1>5 DEF IInv

\* The phase of the inputs ends.
LEMMA InputsDoneStep == IInv /\ InputsDone => IInv'
<1> SUFFICES ASSUME IInv, InputsDone PROVE IInv'
  OBVIOUS
<1>1. TypeOK'
  BY DEF IInv, TypeOK, InputsDone
<1>2. LockstepPhases'
  <2>1. Open' = {} /\ \A a \in Agents : ~(a < turn')
    BY WorldAssumption DEF IInv, LockstepPhases, InputsDone, Open
  <2> QED BY <2>1 DEF IInv, LockstepPhases, InputsDone
<1> QED BY <1>1, <1>2, QuietStep DEF InputsDone

\* A rejection reaches the inbox without changing its type.
LEMMA RejectType ==
  ASSUME TypeOK, NEW a \in Agents, Reject(a)
  PROVE  inbox' \in [Agents -> SUBSET Event] /\ rejections' \in [Agents -> Nat]
<1>1. NewEvent("rejected", 0, tick, rejections[a]) \in Event
  BY DEF TypeOK, NewEvent, Event, ControlKinds
<1>2. /\ inbox \in [Agents -> SUBSET Event] /\ rejections \in [Agents -> Nat]
  BY DEF TypeOK
<1>3. AddEvents(inbox[a], {NewEvent("rejected", 0, tick, rejections[a])}) \in SUBSET Event
  BY <1>1, <1>2, AddEventsType
<1>4. rejections[a] + 1 \in Nat
  BY <1>2
<1> QED BY <1>2, <1>3, <1>4 DEF Reject

\* A timer operation of a decision (applyTimers).
LEMMA ApplyTimerOpStep ==
  ASSUME IInv, NEW a \in Agents, ApplyTimerOp(a)
  PROVE  IInv'
<1>1. TypeOK'
  <2> DEFINE o == slots[a].answer.timers[op]
  <2>1. TimerOpValid(a, o, op) => o.tag \in Tags /\ (o.op = "cancel" \/ o.delay \in Nat)
    <3>1. slots[a].answer.timers \in Seq(TimerOp) /\ op \in Nat \ {0}
          /\ op <= Len(slots[a].answer.timers)
      BY DEF IInv, TypeOK, Slot, Decision, ApplyTimerOp
    <3>2. o \in TimerOp
      BY <3>1
    <3> QED BY <3>2, WorldAssumption DEF TimerOpValid, TimerOp
  <2>2. timers' \in [Agents -> [Tags -> Nat]]
    <3>1. timers \in [Agents -> [Tags -> Nat]] /\ tick \in Nat
      BY DEF IInv, TypeOK
    <3>2. \/ timers' = timers
          \/ /\ TimerOpValid(a, o, op)
             /\ timers' = [timers EXCEPT ![a][o.tag] =
                              IF o.op = "cancel" THEN 0 ELSE tick + o.delay]
      BY DEF ApplyTimerOp
    <3>3. CASE timers' = timers
      BY <3>1, <3>3
    <3>4. CASE /\ TimerOpValid(a, o, op)
               /\ timers' = [timers EXCEPT ![a][o.tag] =
                                IF o.op = "cancel" THEN 0 ELSE tick + o.delay]
      <4> DEFINE d == IF o.op = "cancel" THEN 0 ELSE tick + o.delay
      <4>1. o.tag \in Tags /\ d \in Nat
        BY <2>1, <3>1, <3>4
      <4> HIDE DEF d
      <4>2. [timers EXCEPT ![a][o.tag] = d] \in [Agents -> [Tags -> Nat]]
        BY <3>1, <4>1
      <4> QED BY <3>4, <4>2 DEF d
    <3> QED BY <3>2, <3>3, <3>4
  <2>3. inbox' \in [Agents -> SUBSET Event] /\ rejections' \in [Agents -> Nat]
    BY RejectType DEF IInv, TypeOK, ApplyTimerOp
  <2>4. op' \in Nat \ {0}
    BY DEF IInv, TypeOK, ApplyTimerOp
  <2> QED BY <2>2, <2>3, <2>4 DEF IInv, TypeOK, ApplyTimerOp
<1>2. LockstepPhases'
  BY DEF IInv, LockstepPhases, ApplyTimerOp, Open
<1> QED BY <1>1, <1>2, QuietStep DEF ApplyTimerOp

\* A decision's action starts or is refused, and its request is done (step,
\* phase 2). An agent that holds a request is not recovering, so no recovery
\* ends here.
LEMMA ApplyDecisionStep ==
  ASSUME IInv, NEW a \in Agents, ApplyDecision(a)
  PROVE  IInv' /\ rt'.recovering = rt.recovering
<1>1. /\ rt \in Runtime /\ \A b \in rt.recovering : rt.active[b].by = "reflex"
      /\ slots \in [Agents -> Slot] /\ FreeSlot \in Slot
      /\ turn \in Nat \ {0} /\ turn = a /\ pc = "brains" /\ pc' = "brains"
      /\ turn' = turn + 1
      /\ slots' = [slots EXCEPT ![a] = FreeSlot]
  <2>1. NoDecision \in Decision
    BY DEF NoDecision, Decision
  <2> QED
    BY <2>1 DEF IInv, TypeOK, RecoveryIsTheReflexAction, ApplyDecision, FreeSlot, Slot
<1> DEFINE name == slots[a].answer.action
<1>2. \/ rt' = rt
      \/ rt' = Begin(rt, a, name, "mind") /\ slots[a].state # "free" /\ name # "none"
  BY DEF ApplyDecision
<1>3. /\ rt' \in Runtime /\ \A b \in rt'.recovering : rt'.active[b].by = "reflex"
      /\ rt'.recovering = rt.recovering
  <2>1. CASE rt' = rt
    BY <1>1, <2>1
  <2>2. CASE rt' = Begin(rt, a, name, "mind") /\ slots[a].state # "free" /\ name # "none"
    <3>1. name \in Names /\ "mind" \in Callers
      BY <1>1, <2>2 DEF Slot, Decision, Callers
    <3>2. a \notin rt.recovering
      BY <2>2 DEF IInv, NoRequestWhileRecovering
    <3> HIDE DEF name
    <3>3. rt' \in Runtime
      BY <1>1, <2>2, <3>1, BeginType
    <3>4. /\ \A b \in Agents \ {a} : rt'.active[b] = rt.active[b]
          /\ rt'.recovering = rt.recovering \ {a}
      BY <1>1, <2>2, <3>1, BeginEffect
    <3> QED BY <1>1, <3>2, <3>3, <3>4 DEF Runtime
  <2> QED BY <1>2, <2>1, <2>2
<1>4. TypeOK'
  <2>1. slots' \in [Agents -> Slot] /\ turn' \in Nat \ {0}
    BY <1>1
  <2>2. inbox' \in [Agents -> SUBSET Event] /\ rejections' \in [Agents -> Nat]
    BY RejectType DEF IInv, TypeOK, ApplyDecision
  <2>3. op' \in Nat \ {0}
    BY DEF ApplyDecision
  <2> QED BY <1>3, <2>1, <2>2, <2>3 DEF IInv, TypeOK, ApplyDecision
<1>5. Open = {} /\ Open' = {}
  BY <1>1 DEF IInv, LockstepPhases, Open, FreeSlot
<1>6. UnansweredIsOpenRequests'
  BY <1>5 DEF IInv, UnansweredIsOpenRequests, ApplyDecision
<1>7. LockstepPhases'
  <2>1. \A b \in Agents : b < turn' => slots'[b].state = "free"
    <3>1. ASSUME NEW b \in Agents, b < turn' PROVE b < turn \/ b = a
      BY <1>1, <3>1, AgentsFinite
    <3> QED BY <1>1, <3>1 DEF IInv, LockstepPhases, FreeSlot
  <2> QED BY <1>1, <1>5, <2>1 DEF IInv, LockstepPhases, ApplyDecision
<1>8. NoRequestWhileRecovering' /\ RecoveryIsTheReflexAction'
  <2>1. \A b \in Agents : slots'[b].state # "free" => slots[b].state # "free"
    BY <1>1 DEF FreeSlot
  <2> QED BY <1>3, <2>1 DEF IInv, NoRequestWhileRecovering, RecoveryIsTheReflexAction
<1> QED BY <1>3, <1>4, <1>6, <1>7, <1>8 DEF IInv

\* The brains are done: every agent's request has been applied.
LEMMA BrainsDoneStep == IInv /\ BrainsDone => IInv'
<1> SUFFICES ASSUME IInv, BrainsDone PROVE IInv'
  OBVIOUS
<1>1. TypeOK'
  BY DEF IInv, TypeOK, BrainsDone
<1>2. LockstepPhases'
  <2>1. \A a \in Agents : a < turn
    BY WorldAssumption DEF IInv, TypeOK, BrainsDone
  <2> QED BY <2>1 DEF IInv, LockstepPhases, BrainsDone, Open
<1> QED BY <1>1, <1>2, QuietStep DEF BrainsDone

\* One agent's action, reflexes and battery (phase 4): no agent holds a
\* request, so a recovery may start.
LEMMA ActAgentStep ==
  ASSUME IInv, NEW a \in Agents, ActAgent(a)
  PROVE  IInv'
<1>1. PICK level \in Drain(soc[a]), outcome \in StepOutcomes, name \in Names,
           refused \in BOOLEAN :
        /\ soc' = [soc EXCEPT ![a] = level]
        /\ rt' = RuntimeTick(rt, a, outcome, level, name, refused)
  BY DEF ActAgent
<1>2. level \in 0..FullSoc
  BY SocAssumption DEF IInv, TypeOK, Drain
<1>3. /\ rt' \in Runtime
      /\ \A b \in rt'.recovering : rt'.active[b].by = "reflex"
  <2>1. rt \in Runtime /\ \A b \in rt.recovering : rt.active[b].by = "reflex"
    BY DEF IInv, TypeOK, RecoveryIsTheReflexAction
  <2> QED BY <1>1, <1>2, <2>1, TickEffect
<1>4. TypeOK'
  <2>1. soc' \in [Agents -> 0..FullSoc]
    BY <1>1, <1>2 DEF IInv, TypeOK
  <2>2. turn' \in Nat \ {0}
    BY DEF IInv, TypeOK, ActAgent
  <2> QED BY <1>3, <2>1, <2>2 DEF IInv, TypeOK, ActAgent
<1>5. UnansweredIsOpenRequests'
  <2>1. Open' = Open
    BY DEF Open, ActAgent
  <2> QED BY <2>1 DEF IInv, UnansweredIsOpenRequests, ActAgent
<1>6. LockstepPhases'
  BY DEF IInv, LockstepPhases, ActAgent, Open
<1>7. NoRequestWhileRecovering'
  BY DEF IInv, LockstepPhases, NoRequestWhileRecovering, ActAgent
<1>8. RecoveryIsTheReflexAction'
  BY <1>3 DEF RecoveryIsTheReflexAction
<1> QED BY <1>4, <1>5, <1>6, <1>7, <1>8 DEF IInv

\* The events of a tick are well formed.
LEMMA NewEventsType ==
  ASSUME TypeOK, NEW a \in Agents, NEW seen \in SUBSET Subjects
  PROVE  EndedEvents(a) \cup BatteryEvents(a) \cup PerceptionEvents(seen)
           \cup TimerEvents(a) \in SUBSET Event
<1>1. tick \in Nat /\ rt.ended \in Seq(Ended)
  BY DEF TypeOK, Runtime
<1>2. EndedEvents(a) \subseteq Event
  <2>1. ASSUME NEW i \in {j \in 1..Len(rt.ended) : rt.ended[j].agent = a}
        PROVE  NewEvent(IF rt.ended[i].status = "succeeded" THEN "completed" ELSE "failed",
                        rt.ended[i].id, tick, 0) \in Event
    <3>1. rt.ended[i] \in Ended
      BY <1>1, SeqElement
    <3> QED BY <1>1, <3>1 DEF Ended, NewEvent, Event, ControlKinds
  <2> QED BY <2>1 DEF EndedEvents
<1>3. BatteryEvents(a) \subseteq Event
  BY <1>1 DEF BatteryEvents, NewEvent, Event, ControlKinds
<1>4. PerceptionEvents(seen) \subseteq Event
  BY <1>1 DEF PerceptionEvents, NewEvent, Event
<1>5. TimerEvents(a) \subseteq Event
  BY <1>1 DEF TimerEvents, DueTimers, ActiveTimers, NewEvent, Event, ControlKinds
<1> QED BY <1>2, <1>3, <1>4, <1>5

\* The events of the tick are collected (collectEvents).
LEMMA CollectEventsStep == IInv /\ CollectEvents => IInv'
<1> SUFFICES ASSUME IInv, CollectEvents PROVE IInv'
  OBVIOUS
<1>1. TypeOK'
  <2>1. inbox' \in [Agents -> SUBSET Event]
    <3>1. PICK seen \in [Minded -> SUBSET Subjects] :
            inbox' = [a \in Agents |->
              IF a \in Minded
              THEN AddEvents(inbox[a], EndedEvents(a) \cup BatteryEvents(a)
                               \cup PerceptionEvents(seen[a]) \cup TimerEvents(a))
              ELSE {}]
      BY DEF CollectEvents
    <3>2. ASSUME NEW a \in Agents PROVE inbox'[a] \in SUBSET Event
      <4>1. CASE a \in Minded
        <5>1. seen[a] \in SUBSET Subjects /\ inbox[a] \in SUBSET Event
          BY <4>1 DEF IInv, TypeOK
        <5>2. EndedEvents(a) \cup BatteryEvents(a) \cup PerceptionEvents(seen[a])
                \cup TimerEvents(a) \in SUBSET Event
          BY <5>1, NewEventsType DEF IInv
        <5> QED BY <3>1, <4>1, <5>1, <5>2, AddEventsType
      <4>2. CASE a \notin Minded
        BY <3>1, <4>2
      <4> QED BY <4>1, <4>2
    <3> QED BY <3>1, <3>2
  <2>2. rt' \in Runtime
    <3>1. rt \in Runtime /\ <<>> \in Seq(Ended) /\ rt' = [rt EXCEPT !.ended = <<>>]
      BY DEF IInv, TypeOK, CollectEvents, TakeEnded
    <3> QED BY <3>1 DEF Runtime
  <2>3. timers' \in [Agents -> [Tags -> Nat]]
    BY DEF IInv, TypeOK, CollectEvents
  <2>4. prevSoc' \in [Agents -> 0..FullSoc] /\ turn' \in Nat \ {0}
    BY DEF IInv, TypeOK, CollectEvents
  <2> QED BY <2>1, <2>2, <2>3, <2>4 DEF IInv, TypeOK, CollectEvents
<1>2. LockstepPhases'
  BY DEF IInv, LockstepPhases, CollectEvents, Open, Answered
<1>3. rt'.recovering = rt.recovering /\ rt'.active = rt.active
  BY DEF IInv, TypeOK, CollectEvents, TakeEnded, Runtime
<1> QED BY <1>1, <1>2, <1>3, QuietStep DEF CollectEvents

\* An agent's next request is asked (ask): one more open request, of an
\* agent that is not recovering.
LEMMA AskStep ==
  ASSUME IInv, NEW a \in Agents, Ask(a)
  PROVE  IInv'
<1> DEFINE new == [FreeSlot EXCEPT !.state = "open", !.events = inbox[a]]
<1>1. /\ slots \in [Agents -> Slot] /\ new \in Slot /\ new.state = "open"
      /\ slots' = [slots EXCEPT ![a] = new]
  <2>1. NoDecision \in Decision /\ inbox[a] \in SUBSET Event
    BY DEF IInv, TypeOK, NoDecision, Decision
  <2> QED BY <2>1 DEF IInv, TypeOK, Ask, FreeSlot, Slot
<1> HIDE DEF new
<1>2. /\ turn = a /\ turn \in Nat \ {0} /\ turn' = turn + 1 /\ pc = "asks" /\ pc' = "asks"
      /\ slots[a].state = "free" /\ a \notin rt.recovering
      /\ deciding = {} /\ deciding' = {}
  BY DEF IInv, TypeOK, LockstepPhases, Ask, WouldAsk
<1>3. Open' = Open \cup {a} /\ a \notin Open
  BY <1>1, <1>2 DEF Open
<1>4. UnansweredIsOpenRequests'
  <2>1. Cardinality(Open \cup {a}) = Cardinality(Open) + 1
    BY <1>3, AgentsFinite, FS_AddElement
  <2> QED BY <1>3, <2>1 DEF IInv, UnansweredIsOpenRequests, Ask
<1>5. TypeOK'
  <2>1. slots' \in [Agents -> Slot] /\ turn' \in Nat \ {0}
    BY <1>1, <1>2
  <2>2. /\ inbox' \in [Agents -> SUBSET Event]
        /\ rejections' \in [Agents -> Nat]
        /\ lastRequest' \in [Agents -> Int]
    BY DEF IInv, TypeOK, Ask
  <2>3. unanswered' \in Int
    BY DEF IInv, TypeOK, Ask
  <2>4. traced' \in [inputs : SUBSET Nat, delivered : SUBSET Nat]
    <3>1. /\ inbox[a] \in SUBSET Event
          /\ traced \in [inputs : SUBSET Nat, delivered : SUBSET Nat]
      BY DEF IInv, TypeOK
    <3>2. EndsIn(inbox[a]) \subseteq Nat
      BY <3>1 DEF EndsIn, Event
    <3> QED BY <3>1, <3>2 DEF Ask
  <2> QED BY <1>2, <2>1, <2>2, <2>3, <2>4 DEF IInv, TypeOK, Ask
<1>6. LockstepPhases'
  <2>1. Answered' = {}
    BY <1>1, <1>2 DEF IInv, LockstepPhases, Answered
  <2>2. \A b \in Agents : b >= turn' => slots'[b].state = "free"
    BY <1>1, <1>2, AgentsFinite DEF IInv, LockstepPhases
  <2> QED BY <1>2, <2>1, <2>2 DEF LockstepPhases
<1>7. NoRequestWhileRecovering' /\ RecoveryIsTheReflexAction'
  <2>1. \A b \in Agents : slots'[b].state # "free" => slots[b].state # "free" \/ b = a
    BY <1>1
  <2> QED
    BY <1>2, <2>1 DEF IInv, NoRequestWhileRecovering, RecoveryIsTheReflexAction, Ask
<1> QED BY <1>4, <1>5, <1>6, <1>7 DEF IInv

\* No request for this agent.
LEMMA DoNotAskStep ==
  ASSUME IInv, NEW a \in Agents, DoNotAsk(a)
  PROVE  IInv'
<1>1. TypeOK'
  <2>1. turn' \in Nat \ {0}
    BY DEF IInv, TypeOK, DoNotAsk
  <2> QED BY <2>1 DEF IInv, TypeOK, DoNotAsk
<1>2. LockstepPhases'
  <2>1. \A b \in Agents : b >= turn' => b >= turn
    BY AgentsFinite DEF IInv, TypeOK, DoNotAsk
  <2> QED BY <2>1 DEF IInv, LockstepPhases, DoNotAsk, Open, Answered
<1> QED BY <1>1, <1>2, QuietStep DEF DoNotAsk

\* The tick ends, or throws.
LEMMA EndOfTickStep == IInv /\ (TickDone \/ TickThrows) => IInv'
<1> SUFFICES ASSUME IInv, TickDone \/ TickThrows PROVE IInv'
  OBVIOUS
<1>1. TypeOK'
  <2>1. CASE TickDone
    BY <2>1 DEF IInv, TypeOK, TickDone
  <2>2. CASE TickThrows
    BY <2>2 DEF IInv, TypeOK, TickThrows
  <2> QED BY <2>1, <2>2
<1>2. LockstepPhases'
  BY DEF IInv, LockstepPhases, TickDone, TickThrows, Open, Answered
<1> QED BY <1>1, <1>2, QuietStep DEF TickDone, TickThrows

\* Every step of the loop keeps the inductive invariant.
LEMMA NextIInv == IInv /\ [Next]_vars => IInv'
<1> SUFFICES ASSUME IInv, [Next]_vars PROVE IInv'
  OBVIOUS
<1>1. CASE UNCHANGED vars
  <2>1. TypeOK'
    BY <1>1 DEF IInv, TypeOK, vars
  <2>2. LockstepPhases'
    BY <1>1 DEF IInv, LockstepPhases, Open, Answered, vars
  <2> QED BY <1>1, <2>1, <2>2, QuietStep DEF vars
<1>2. CASE BetweenTicks
  BY <1>2, InjectStep, DecideStep, DecisionsArriveStep DEF BetweenTicks
<1>3. CASE Tick
  BY <1>3, StartTickStep, ApplyInputStep, InputsDoneStep, ApplyTimerOpStep,
     ApplyDecisionStep, BrainsDoneStep, ActAgentStep, CollectEventsStep, AskStep,
     DoNotAskStep, EndOfTickStep DEF Tick
<1>4. CASE TickThrows
  BY <1>4, EndOfTickStep
<1> QED BY <1>1, <1>2, <1>3, <1>4 DEF Next

(***************************************************************************)
(* Theorems                                                                *)
(***************************************************************************)
\* The inductive invariant holds in every state of the loop.
THEOREM Invariance == Spec => []IInv
BY InitIInv, NextIInv, PTL DEF Spec

\* The state of the loop keeps its types whatever the minds answer, whatever
\* is injected and however many ticks are run (world.ts).
THEOREM TypeCorrect == Spec => []TypeOK
<1>1. IInv => TypeOK
  BY DEF IInv
<1> QED BY <1>1, Invariance, PTL

\* The lockstep counter is exact: World.step refuses precisely while some
\* mind owes an answer (world.ts step, decide, ask).
THEOREM CounterExact == Spec => []UnansweredIsOpenRequests
<1>1. IInv => UnansweredIsOpenRequests
  BY DEF IInv
<1> QED BY <1>1, Invariance, PTL

\* Requests never outlive the phase the loop handles them in: the brains find
\* every asked decision answered, and no action runs with one pending.
THEOREM PhasesAgree == Spec => []LockstepPhases
<1>1. IInv => LockstepPhases
  BY DEF IInv
<1> QED BY <1>1, Invariance, PTL

\* No mind holds a request while a reflex recovers its agent, in any state.
THEOREM NeverAskedInRecovery == Spec => []NoRequestWhileRecovering
<1>1. IInv => NoRequestWhileRecovering
  BY DEF IInv
<1> QED BY <1>1, Invariance, PTL

\* Hence no decision ever ends a recovery: between the brains' first and last
\* step the recovering agents only stay.
THEOREM DecisionsSpareRecoveries == Spec => MindNeverEndsRecovery
<1>1. IInv /\ [Next]_vars => [pc = "brains" => rt.recovering \subseteq rt'.recovering]_vars
  <2> SUFFICES ASSUME IInv, Next, pc = "brains"
               PROVE  rt.recovering \subseteq rt'.recovering
    BY DEF vars
  <2>1. ASSUME NEW a \in Agents, ApplyDecision(a)
        PROVE  rt'.recovering = rt.recovering
    BY <2>1, ApplyDecisionStep
  <2>2. CASE UNCHANGED rt
    BY <2>2
  <2> QED
    BY <2>1, <2>2 DEF Next, BetweenTicks, Tick, Inject, Decide, DecisionsArrive,
       StartTick, ApplyInput, InputsDone, ApplyTimerOp, BrainsDone, ActAgent,
       CollectEvents, Ask, DoNotAsk, TickDone, TickThrows, LockstepPhases, IInv
<1> QED BY <1>1, Invariance, PTL DEF Spec, MindNeverEndsRecovery

(***************************************************************************)
(* The loop implements the lockstep protocol                               *)
(***************************************************************************)
\* Genesis: every mind is idle or asked.
LEMMA ProtocolInit == Init => Protocol!Init
<1> SUFFICES ASSUME Init PROVE Protocol!Init
  OBVIOUS
<1>1. \A a \in Agents : MindOf(a) \in {"idle", "asked"}
  BY DEF Init, MindOf, FreeSlot
<1> QED BY <1>1 DEF Init, RuntimeInit, Protocol!Init

\* A step that leaves the slots, the tick and the recoveries alone, within one
\* tick or between two, is invisible to the protocol.
LEMMA ProtocolStutter ==
  ASSUME UNCHANGED <<tick, slots>>, rt'.recovering = rt.recovering,
         (pc' # "idle") = (pc # "idle")
  PROVE  UNCHANGED Protocol!vars
BY DEF Protocol!vars, MindOf

\* Reflexes take agents over, and ends let them go, only when no request is
\* held by the agents taken over.
LEMMA ProtocolRecover ==
  ASSUME IInv, IInv', UNCHANGED <<tick, slots, pc>>, pc # "idle"
  PROVE  Protocol!Recover
<1>1. rt'.recovering \in SUBSET Agents
  BY DEF IInv, TypeOK, Runtime
<1>2. \A a \in rt'.recovering : MindOf(a) = "idle"
  BY <1>1 DEF IInv, NoRequestWhileRecovering, MindOf
<1>3. \A a \in Agents : MindOf(a)' = MindOf(a)
  BY DEF MindOf
<1> QED BY <1>1, <1>2, <1>3 DEF Protocol!Recover

\* Every step of the loop is a step of the protocol or invisible to it.
LEMMA ProtocolNext ==
  IInv /\ IInv' /\ [Next]_vars => [Protocol!Next]_(Protocol!vars)
<1> SUFFICES ASSUME IInv, IInv', [Next]_vars
             PROVE  Protocol!Next \/ UNCHANGED Protocol!vars
  BY DEF Protocol!vars
<1>1. /\ \A a \in Agents : (MindOf(a) = "asked") <=> a \in Open
      /\ \A a \in Agents : (MindOf(a) = "answered") <=> a \in Answered
      /\ \A a \in Agents : (MindOf(a) = "idle") <=> slots[a].state = "free"
  BY DEF IInv, TypeOK, Slot, MindOf, Open, Answered
<1>2. CASE UNCHANGED vars
  BY <1>2, ProtocolStutter DEF vars
<1>3. CASE StartTick
  <2>1. Open = {}
    BY <1>3 DEF IInv, LockstepPhases, StartTick, Open
  <2>2. \A a \in Agents : MindOf(a)' = MindOf(a)
    BY <1>3 DEF MindOf, StartTick
  <2>3. Protocol!StartTick
    BY <1>1, <1>3, <2>1, <2>2 DEF StartTick, Protocol!StartTick
  <2> QED BY <2>3 DEF Protocol!Next
<1>4. CASE DecisionsArrive
  <2>1. PICK S \in SUBSET deciding : \E f \in [S -> Decisions] :
          slots' = [a \in Agents |->
             IF a \in S THEN [slots[a] EXCEPT !.state = "answered", !.answer = f[a]]
             ELSE slots[a]]
    BY <1>4 DEF DecisionsArrive
  <2>2. S \subseteq Open /\ pc = "idle" /\ pc' = "idle"
    BY <1>4 DEF IInv, LockstepPhases, DecisionsArrive
  <2>3. \A a \in Agents : MindOf(a)' = IF a \in S THEN "answered" ELSE MindOf(a)
    <3>1. slots \in [Agents -> Slot] /\ S \subseteq Agents
      BY <2>2 DEF IInv, TypeOK, Open
    <3>2. ASSUME NEW a \in S PROVE slots'[a].state = "answered"
      BY <2>1, <3>1 DEF Slot
    <3>3. ASSUME NEW a \in Agents \ S PROVE slots'[a] = slots[a]
      BY <2>1
    <3> QED BY <3>2, <3>3 DEF MindOf
  <2>4. S \in SUBSET {a \in Agents : MindOf(a) = "asked"}
    BY <1>1, <2>2 DEF Open
  <2>5. Protocol!Answer
    <3>1. [a \in Agents |-> MindOf(a)]' =
            [a \in Agents |-> IF a \in S THEN "answered" ELSE MindOf(a)]
      BY <2>3
    <3>2. UNCHANGED <<tick, rt>>
      BY <1>4 DEF DecisionsArrive
    <3> QED BY <2>2, <2>4, <3>1, <3>2 DEF Protocol!Answer
  <2> QED BY <2>5 DEF Protocol!Next
<1>5. CASE ApplyInput \/ \E a \in Agents : ActAgent(a)
  <2>1. Protocol!Recover
    BY <1>5, ProtocolRecover DEF ApplyInput, ActAgent
  <2> QED BY <2>1 DEF Protocol!Next
<1>6. ASSUME NEW a \in Agents, ApplyDecision(a)
      PROVE  Protocol!Next \/ UNCHANGED Protocol!vars
  <2>1. rt'.recovering = rt.recovering /\ pc = "brains" /\ pc' = "brains" /\ tick' = tick
    BY <1>6, ApplyDecisionStep DEF ApplyDecision
  <2>2. slots \in [Agents -> Slot] /\ slots' = [slots EXCEPT ![a] = FreeSlot]
    BY <1>6 DEF IInv, TypeOK, ApplyDecision
  <2>3. MindOf(a)' = "idle" /\ \A b \in Agents \ {a} : MindOf(b)' = MindOf(b)
    BY <2>2 DEF MindOf, FreeSlot
  <2>4. MindOf(a) \in {"idle", "answered"}
    BY <1>1, <2>1 DEF IInv, LockstepPhases, MindOf
  <2>5. CASE MindOf(a) = "idle"
    BY <2>1, <2>3, <2>5 DEF Protocol!vars
  <2>6. CASE MindOf(a) = "answered"
    <3>1. Protocol!Apply(a)
      BY <2>1, <2>3, <2>6 DEF Protocol!Apply
    <3> QED BY <3>1 DEF Protocol!Next
  <2> QED BY <2>4, <2>5, <2>6
<1>7. ASSUME NEW a \in Agents, Ask(a)
      PROVE  Protocol!Next
  <2>1. /\ pc = "asks" /\ pc' = "asks" /\ tick' = tick /\ rt' = rt
        /\ slots[a].state = "free" /\ a \notin rt.recovering /\ Answered = {}
    BY <1>7 DEF IInv, LockstepPhases, Ask, WouldAsk
  <2>2. MindOf(a)' = "asked" /\ \A b \in Agents \ {a} : MindOf(b)' = MindOf(b)
    BY <1>7 DEF MindOf, Ask, FreeSlot, IInv, TypeOK
  <2>3. Protocol!Ask(a)
    BY <1>1, <2>1, <2>2 DEF Protocol!Ask
  <2> QED BY <2>3 DEF Protocol!Next
<1>8. CASE TickDone
  <2>1. Answered = {} /\ \A a \in Agents : MindOf(a)' = MindOf(a)
    BY <1>8 DEF IInv, LockstepPhases, TickDone, MindOf
  <2>2. Protocol!EndTick
    BY <1>1, <1>8, <2>1 DEF TickDone, Protocol!EndTick
  <2> QED BY <2>2 DEF Protocol!Next
<1>9. CASE \/ \E a \in Agents, name \in Names, t \in 1..MaxTick : Inject(a, name, t)
           \/ Decide \/ InputsDone \/ BrainsDone \/ TickThrows
           \/ \E a \in Agents : ApplyTimerOp(a) \/ DoNotAsk(a)
  BY <1>9, ProtocolStutter
     DEF Inject, Decide, InputsDone, BrainsDone, TickThrows, ApplyTimerOp, DoNotAsk
<1>10. CASE CollectEvents
  <2>1. rt'.recovering = rt.recovering
    BY <1>10 DEF CollectEvents, TakeEnded, IInv, TypeOK, Runtime
  <2> QED BY <1>10, <2>1, ProtocolStutter DEF CollectEvents
<1> QED
  BY <1>2, <1>3, <1>4, <1>5, <1>6, <1>7, <1>8, <1>9, <1>10
     DEF Next, BetweenTicks, Tick

\* The world loop, seen by the minds, is the lockstep protocol: one question
\* per agent, asked inside a tick and outside a recovery, no tick while a
\* question is open, every answer applied in the next tick.
THEOREM ImplementsLockstep == Spec => LockstepProtocol
BY Invariance, ProtocolInit, ProtocolNext, PTL
   DEF Spec, LockstepProtocol, Protocol!Spec

(***************************************************************************)
(* What passes through the loop. The invariant above says which phase      *)
(* finds which requests; the parts added to it here say how far each phase *)
(* has come.                                                               *)
(***************************************************************************)
\* Inputs: each is applied while the loop is at its tick, in the order of the log.
InputsInv ==
  /\ traced.inputs \subseteq 1..Len(inputLog)
  /\ pc = "inputs" => \A k \in 1..Len(inputLog) :
       k \in traced.inputs <=> inputLog[k].tick < tick \/ (inputLog[k].tick = tick /\ k < turn)
  /\ pc \in {"idle", "brains", "actions", "asks"} => \A k \in 1..Len(inputLog) :
       k \in traced.inputs <=> inputLog[k].tick <= tick

\* Timers: never too many or out of range; a due one is set until the events of
\* its tick are collected, and gone after that.
TimersInv ==
  \A a \in Agents :
    /\ Cardinality(ActiveTimers(a)) <= TimerMaxActive
    /\ \A t \in ActiveTimers(a) :
         /\ timers[a][t] <= tick + MaxDelay
         /\ pc \in {"inputs", "brains", "actions"} => timers[a][t] >= tick
         /\ pc \in {"idle", "asks"} => timers[a][t] > tick

\* Nothing is left for a mind to be told, unless its agent recovers.
Told(a) ==
  a \notin rt.recovering =>
    /\ ~HasControl(a)
    /\ inbox[a] # {} => tick - lastRequest[a] < MinInterval

\* Events: the agents asked about so far have been told; without a mind there
\* is nothing to tell.
EventsInv ==
  /\ pc \in {"asks", "idle"} => \A a \in Agents \ Minded : inbox[a] = {}
  /\ pc = "asks" => \A a \in Agents : a < turn => Told(a)
  /\ pc = "idle" => \A a \in Agents : Told(a)

\* The ends of an agent's actions the world has not taken yet.
EndedIds(r, a) == {r.ended[i].id : i \in {j \in 1..Len(r.ended) : r.ended[j].agent = a}}

\* Action IDs: one action each, given out in order, kept with its agent.
IdsAreGiven(r) ==
  /\ \A s \in r.traced.started : 0 < s[1] /\ s[1] < r.nextAction
  /\ \A s, t \in r.traced.started : s[1] = t[1] => s[2] = t[2]
  /\ \A a \in Agents : Running(r, a) => <<r.active[a].id, a>> \in r.traced.started
  /\ \A a \in Agents : \A id \in EndedIds(r, a) : <<id, a>> \in r.traced.started
  /\ \A id \in r.traced.replaced : id < r.nextAction

\* An action has one of the fates: it runs, it was replaced, its end waits to
\* be taken by the world, waits in the inbox (`ends`), or was `delivered`.
OneFate(r, ends, delivered, id, a) ==
  LET of == <<{r.active[a].id}, r.traced.replaced, EndedIds(r, a), ends[a], delivered>>
  IN  \E k \in 1..5 : \A l \in 1..5 : id \in of[l] <=> l = k

Fated(r, ends, delivered) ==
  /\ IdsAreGiven(r)
  /\ \A a \in Agents : \A id \in ends[a] : <<id, a>> \in r.traced.started
  /\ \A id \in delivered : id \in Nat /\ id < r.nextAction
  /\ \A s \in r.traced.started : s[2] \in Minded => OneFate(r, ends, delivered, s[1], s[2])

\* Actions: each has one fate; and between ticks no end is left to take.
FatesInv ==
  /\ Fated(rt, [a \in Agents |-> EndsIn(inbox[a])], traced.delivered)
  /\ pc \in {"idle", "asks"} => rt.ended = <<>>
Inv == IInv /\ InputsInv /\ TimersInv /\ EventsInv /\ FatesInv

(***************************************************************************)
(* Inputs                                                                  *)
(***************************************************************************)
\* A step that leaves the log, what is applied and the tick alone, within the
\* phases after the inputs.
LEMMA InputsQuiet ==
  ASSUME InputsInv, UNCHANGED <<inputLog, traced>>, tick' = tick,
         \/ pc' = pc /\ turn' = turn
         \/ pc = pc' /\ pc # "inputs"
         \/ pc \in {"brains", "actions", "asks"} /\ pc' \in {"idle", "brains", "actions", "asks", "failed"}
         \/ pc' = "failed"
  PROVE  InputsInv'
BY DEF InputsInv

\* Inputs are applied at their tick: recorded for a later one (inject), and
\* applied by the first phase of that one.
LEMMA InputsNext ==
  ASSUME IInv, InputsInv, [Next]_vars
  PROVE  InputsInv'
<1>0. /\ turn \in Nat \ {0} /\ tick \in Nat
      /\ inputLog \in Seq([agent : Agents, name : Names, tick : Nat])
      /\ traced \in [inputs : SUBSET Nat, delivered : SUBSET Nat]
      /\ \A k \in 1..Len(inputLog) : inputLog[k].tick \in Nat
  <2>1. /\ turn \in Nat \ {0} /\ tick \in Nat
        /\ inputLog \in Seq([agent : Agents, name : Names, tick : Nat])
        /\ traced \in [inputs : SUBSET Nat, delivered : SUBSET Nat]
    BY DEF IInv, TypeOK
  <2>2. ASSUME NEW k \in 1..Len(inputLog)
        PROVE  inputLog[k] \in [agent : Agents, name : Names, tick : Nat]
    BY <2>1, SeqElement
  <2> QED BY <2>1, <2>2
<1>1. ASSUME NEW a \in Agents, NEW name \in Names, NEW t \in 1..MaxTick, Inject(a, name, t)
      PROVE  InputsInv'
  <2> DEFINE new == [agent |-> a, name |-> name, tick |-> t]
  <2>1. /\ inputLog' = Append(inputLog, new) /\ new.tick > tick /\ new.tick \in Nat
        /\ UNCHANGED <<traced, tick>> /\ pc = "idle" /\ pc' = "idle"
    BY <1>1, WorldAssumption DEF Inject, After
  <2> HIDE DEF new
  <2>2. /\ Len(inputLog') = Len(inputLog) + 1
        /\ \A k \in 1..Len(inputLog) : inputLog'[k] = inputLog[k]
        /\ inputLog'[Len(inputLog) + 1] = new
    BY <1>0, <2>1
  <2>3. \A k \in 1..Len(inputLog') : k \in 1..Len(inputLog) \/ k = Len(inputLog) + 1
    BY <1>0, <2>2
  <2> QED BY <1>0, <2>1, <2>2, <2>3 DEF InputsInv
<1>2. CASE Decide \/ DecisionsArrive \/ BrainsDone \/ TickDone \/ TickThrows \/ UNCHANGED vars
  BY <1>2, InputsQuiet DEF Decide, DecisionsArrive, BrainsDone, TickDone, TickThrows, vars
<1>3. CASE StartTick
  BY <1>0, <1>3 DEF StartTick, InputsInv
<1>4. CASE ApplyInput
  <2>1. /\ turn \in 1..Len(inputLog) /\ pc = "inputs" /\ pc' = "inputs" /\ turn' = turn + 1
        /\ UNCHANGED <<inputLog, tick>>
    BY <1>0, <1>4 DEF ApplyInput
  <2>2. CASE inputLog[turn].tick # tick /\ traced' = traced
    BY <1>0, <2>1, <2>2 DEF InputsInv
  <2>3. CASE inputLog[turn].tick = tick /\ traced'.inputs = traced.inputs \cup {turn}
    BY <1>0, <2>1, <2>3 DEF InputsInv
  <2> QED BY <1>0, <1>4, <2>2, <2>3 DEF ApplyInput
<1>5. CASE InputsDone
  BY <1>0, <1>5 DEF InputsDone, InputsInv
<1>6. CASE CollectEvents
  BY <1>6, InputsQuiet DEF CollectEvents
<1>7. ASSUME NEW a \in Agents, ApplyTimerOp(a) \/ ApplyDecision(a) \/ ActAgent(a) \/ DoNotAsk(a)
      PROVE  InputsInv'
  BY <1>7, InputsQuiet DEF ApplyTimerOp, ApplyDecision, ActAgent, DoNotAsk
<1>8. ASSUME NEW a \in Agents, Ask(a)
      PROVE  InputsInv'
  <2>1. /\ pc = "asks" /\ pc' = "asks" /\ UNCHANGED <<inputLog, tick>>
        /\ traced'.inputs = traced.inputs
    BY <1>0, <1>8 DEF Ask
  <2> QED BY <2>1 DEF InputsInv
<1> QED
  BY <1>1, <1>2, <1>3, <1>4, <1>5, <1>6, <1>7, <1>8 DEF Next, BetweenTicks, Tick

(***************************************************************************)
(* Timers                                                                  *)
(***************************************************************************)
\* The timers set are finitely many.
LEMMA TimersFinite ==
  ASSUME NEW a
  PROVE  /\ IsFiniteSet(ActiveTimers(a)) /\ Cardinality(ActiveTimers(a)) \in Nat
         /\ \A S \in SUBSET ActiveTimers(a) :
              IsFiniteSet(S) /\ Cardinality(S) <= Cardinality(ActiveTimers(a))
<1>1. ActiveTimers(a) \subseteq Tags /\ IsFiniteSet(Tags)
  BY WorldAssumption DEF ActiveTimers
<1>2. IsFiniteSet(ActiveTimers(a))
  BY <1>1, FS_Subset
<1> QED BY <1>2, FS_Subset, FS_CardinalityType

\* Timers are set a delay ahead, never too many, and gone once they are due.
LEMMA TimersNext ==
  ASSUME IInv, TimersInv, [Next]_vars
  PROVE  TimersInv'
<1>0. turn \in Nat \ {0} /\ tick \in Nat /\ timers \in [Agents -> [Tags -> Nat]] /\ MaxDelay \in Nat
      /\ MinDelay \in Nat \ {0}
  BY WorldAssumption DEF IInv, TypeOK
<1>1. ASSUME UNCHANGED timers,
             tick' = tick, pc' \in {"idle", "asks"} => pc \in {"idle", "asks"},
             pc' \in {"inputs", "brains", "actions"} => pc \in {"inputs", "brains", "actions", "idle", "asks"}
      PROVE  TimersInv'
  <2>1. \A a \in Agents : ActiveTimers(a)' = ActiveTimers(a)
    BY <1>1 DEF ActiveTimers
  <2>2. \A a \in Agents : \A t \in ActiveTimers(a) : timers[a][t] \in Nat
    BY <1>0 DEF ActiveTimers
  <2> QED BY <1>0, <1>1, <2>1, <2>2 DEF TimersInv
<1>2. CASE BetweenTicks \/ InputsDone \/ BrainsDone \/ TickDone \/ TickThrows \/ ApplyInput \/ UNCHANGED vars
  BY <1>1, <1>2 DEF BetweenTicks, Inject, Decide, DecisionsArrive, InputsDone, BrainsDone, TickDone,
     TickThrows, ApplyInput, vars
<1>3. CASE StartTick
  <2>1. \A a \in Agents : ActiveTimers(a)' = ActiveTimers(a)
    BY <1>3 DEF ActiveTimers, StartTick
  <2>2. \A a \in Agents : \A t \in ActiveTimers(a) : timers[a][t] \in Nat
    BY <1>0 DEF ActiveTimers
  <2> QED BY <1>0, <1>3, <2>1, <2>2 DEF StartTick, TimersInv
<1>4. ASSUME NEW a \in Agents, ApplyDecision(a) \/ ActAgent(a) \/ Ask(a) \/ DoNotAsk(a)
      PROVE  TimersInv'
  BY <1>1, <1>4 DEF ApplyDecision, ActAgent, Ask, DoNotAsk
<1>5. CASE CollectEvents
  <2>1. /\ timers' = [a \in Agents |-> [t \in Tags |-> IF t \in DueTimers(a) THEN 0 ELSE timers[a][t]]]
        /\ pc' = "asks" /\ tick' = tick
    BY <1>5 DEF CollectEvents
  <2>2. ASSUME NEW a \in Agents
        PROVE  /\ ActiveTimers(a)' \subseteq ActiveTimers(a)
               /\ \A t \in ActiveTimers(a)' : timers'[a][t] = timers[a][t] /\ timers[a][t] > tick
    BY <1>0, <2>1 DEF ActiveTimers, DueTimers
  <2>3. ASSUME NEW a \in Agents
        PROVE  Cardinality(ActiveTimers(a)') <= TimerMaxActive
    <3>1. Cardinality(ActiveTimers(a)') \in Nat
      BY <2>2, TimersFinite, FS_CardinalityType
    <3> QED BY <2>2, <3>1, TimersFinite, WorldAssumption DEF TimersInv
  <2> QED BY <2>1, <2>2, <2>3 DEF TimersInv
<1>6. ASSUME NEW a \in Agents, ApplyTimerOp(a)
      PROVE  TimersInv'
  <2> DEFINE o == slots[a].answer.timers[op]
             d == IF o.op = "cancel" THEN 0 ELSE tick + o.delay
  <2>1. /\ pc = "brains" /\ pc' = "brains" /\ tick' = tick
        /\ \/ timers' = timers
           \/ TimerOpValid(a, o, op) /\ timers' = [timers EXCEPT ![a][o.tag] = d]
    BY <1>6 DEF ApplyTimerOp
  <2>2. CASE timers' = timers
    BY <1>1, <2>1, <2>2
  <2>3. CASE TimerOpValid(a, o, op) /\ timers' = [timers EXCEPT ![a][o.tag] = d]
    <3>1. o \in TimerOp
      <4>1. slots[a].answer.timers \in Seq(TimerOp) /\ op \in 1..Len(slots[a].answer.timers)
        BY <1>6 DEF IInv, TypeOK, Slot, Decision, ApplyTimerOp
      <4> QED BY <4>1
    <3> DEFINE tag == o.tag
    <3>2. /\ tag \in Tags
          /\ d = 0 \/ /\ d \in Nat /\ d > tick /\ d <= tick + MaxDelay
                      /\ timers[a][tag] # 0 \/ Cardinality(ActiveTimers(a)) < TimerMaxActive
      <4> DEFINE cancels == o.op = "cancel"
                 delay == o.delay
      <4>1. tag \in Tags /\ delay \in Int
        BY <3>1, Zenon DEF TimerOp
      <4>2. CASE cancels
        BY <4>1, <4>2
      <4>3. CASE ~cancels
        <5>1. /\ delay >= MinDelay /\ delay <= MaxDelay /\ d = tick + delay
              /\ timers[a][tag] # 0 \/ Cardinality(ActiveTimers(a)) < TimerMaxActive
          BY <2>3, <4>3, Zenon DEF TimerOpValid
        <5> HIDE DEF o, d, tag, delay
        <5> QED BY <1>0, <4>1, <5>1, WorldAssumption
      <4> QED BY <4>2, <4>3
    <3> HIDE DEF o, d
    <3>3. timers' = [timers EXCEPT ![a][tag] = d]
      BY <2>3
    <3> HIDE DEF tag
    <3>4. /\ timers'[a][tag] = d
          /\ \A t \in Tags \ {tag} : timers'[a][t] = timers[a][t]
          /\ \A b \in Agents \ {a} : timers'[b] = timers[b]
      BY <1>0, <3>2, <3>3
    <3>5. /\ \A b \in Agents \ {a} : ActiveTimers(b)' = ActiveTimers(b)
          /\ ActiveTimers(a)' = IF d = 0 THEN ActiveTimers(a) \ {tag} ELSE ActiveTimers(a) \cup {tag}
      BY <3>2, <3>4 DEF ActiveTimers
    <3>6. Cardinality(ActiveTimers(a)') <= TimerMaxActive
      <4>1. CASE d = 0
        BY <3>5, <4>1, TimersFinite, FS_CardinalityType, WorldAssumption DEF TimersInv
      <4>2. CASE d # 0 /\ tag \in ActiveTimers(a)
        <5>1. ActiveTimers(a)' = ActiveTimers(a)
          BY <3>5, <4>2
        <5> QED BY <5>1 DEF TimersInv
      <4>3. CASE d # 0 /\ tag \notin ActiveTimers(a)
        <5>1. Cardinality(ActiveTimers(a)') = Cardinality(ActiveTimers(a)) + 1
          BY <3>5, <4>3, TimersFinite, FS_AddElement
        <5>2. Cardinality(ActiveTimers(a)) < TimerMaxActive
          BY <3>2, <4>3 DEF ActiveTimers
        <5> QED BY <5>1, <5>2, TimersFinite, WorldAssumption
      <4> QED BY <4>1, <4>2, <4>3
    <3>7. ASSUME NEW b \in Agents, NEW t \in ActiveTimers(b)'
          PROVE  timers'[b][t] <= tick + MaxDelay /\ timers'[b][t] >= tick
      <4>1. CASE b = a /\ t = tag
        BY <1>0, <3>2, <3>4, <3>5, <4>1
      <4>2. CASE ~(b = a /\ t = tag)
        <5>1. t \in ActiveTimers(b) /\ timers'[b][t] = timers[b][t]
          BY <3>4, <3>5, <3>7, <4>2 DEF ActiveTimers
        <5> QED BY <2>1, <5>1 DEF TimersInv
      <4> QED BY <4>1, <4>2
    <3> QED BY <2>1, <3>5, <3>6, <3>7 DEF TimersInv
  <2> QED BY <2>1, <2>2, <2>3
<1> QED
  BY <1>2, <1>3, <1>4, <1>5, <1>6 DEF Next, Tick

(***************************************************************************)
(* Events                                                                  *)
(***************************************************************************)
\* Events reach their mind: at the end of a tick an agent is asked, or has
\* nothing it must be told now.
LEMMA EventsNext ==
  ASSUME IInv, EventsInv, [Next]_vars
  PROVE  EventsInv'
<1>0. turn \in Nat \ {0} /\ tick \in Nat /\ lastRequest \in [Agents -> Int] /\ inbox \in [Agents -> SUBSET Event]
      /\ MinInterval \in Nat /\ Agents \subseteq Nat
  BY WorldAssumption, AgentsFinite DEF IInv, TypeOK
<1>1. ASSUME pc' \notin {"idle", "asks"}
      PROVE  EventsInv'
  BY <1>1 DEF EventsInv
<1>2. ASSUME UNCHANGED <<inbox, lastRequest, tick, rt>>
      PROVE  \A a \in Agents : Told(a)' <=> Told(a)
  BY <1>2 DEF Told, HasControl
<1>3. CASE \/ StartTick \/ ApplyInput \/ InputsDone \/ BrainsDone \/ TickThrows
           \/ \E a \in Agents : ApplyTimerOp(a) \/ ApplyDecision(a) \/ ActAgent(a)
  BY <1>1, <1>3 DEF StartTick, ApplyInput, InputsDone, BrainsDone, TickThrows, ApplyTimerOp,
     ApplyDecision, ActAgent
<1>4. CASE BetweenTicks \/ UNCHANGED vars
  <2>1. UNCHANGED <<inbox, lastRequest, tick, rt, pc, turn>>
    BY <1>4 DEF BetweenTicks, Inject, Decide, DecisionsArrive, vars, IInv, LockstepPhases
  <2> QED BY <1>2, <2>1 DEF EventsInv
<1>5. CASE CollectEvents
  <2>1. /\ pc' = "asks" /\ turn' = 1
        /\ \A a \in Agents \ Minded : inbox'[a] = {}
    BY <1>5 DEF CollectEvents
  <2>2. \A a \in Agents : ~(a < turn')
    BY <2>1, WorldAssumption
  <2> QED BY <2>1, <2>2 DEF EventsInv
<1>6. CASE TickDone
  <2>1. \A a \in Agents : a < turn
    BY <1>0, <1>6, WorldAssumption DEF TickDone
  <2>2. UNCHANGED <<inbox, lastRequest, tick, rt>> /\ pc = "asks" /\ pc' = "idle"
    BY <1>6 DEF TickDone
  <2> QED BY <1>2, <2>1, <2>2 DEF EventsInv
<1>7. ASSUME NEW a \in Agents, Ask(a)
      PROVE  EventsInv'
  <2>1. /\ pc = "asks" /\ pc' = "asks" /\ turn = a /\ turn' = turn + 1 /\ UNCHANGED <<tick, rt>>
        /\ inbox' = [inbox EXCEPT ![a] = {}] /\ lastRequest' = [lastRequest EXCEPT ![a] = tick]
    BY <1>7 DEF Ask
  <2>2. Told(a)'
    BY <1>0, <2>1 DEF Told, HasControl
  <2>3. ASSUME NEW b \in Agents, b # a PROVE Told(b)' <=> Told(b)
    <3>1. inbox'[b] = inbox[b] /\ lastRequest'[b] = lastRequest[b]
      BY <1>0, <2>1, <2>3
    <3> QED BY <2>1, <3>1 DEF Told, HasControl
  <2>4. \A b \in Agents : b < turn' => b < turn \/ b = a
    BY <1>0, <2>1
  <2>5. \A b \in Agents \ Minded : inbox'[b] = {}
    BY <1>0, <2>1 DEF EventsInv
  <2> QED BY <2>1, <2>2, <2>3, <2>4, <2>5 DEF EventsInv
<1>8. ASSUME NEW a \in Agents, DoNotAsk(a)
      PROVE  EventsInv'
  <2>1. /\ pc = "asks" /\ pc' = "asks" /\ turn = a /\ turn' = turn + 1 /\ ~WouldAsk(a)
        /\ UNCHANGED <<inbox, lastRequest, tick, rt>>
    BY <1>8 DEF DoNotAsk
  <2>2. slots[a].state = "free" /\ (a \notin Minded => inbox[a] = {})
    BY <1>0, <2>1 DEF IInv, LockstepPhases, EventsInv
  <2>3. Told(a)
    BY <1>0, <2>1, <2>2 DEF Told, WouldAsk, HasControl
  <2>4. \A b \in Agents : b < turn' => b < turn \/ b = a
    BY <1>0, <2>1
  <2> QED BY <1>2, <2>1, <2>3, <2>4 DEF EventsInv
<1> QED
  BY <1>3, <1>4, <1>5, <1>6, <1>7, <1>8 DEF Next, Tick

(***************************************************************************)
(* Fates                                                                   *)
(***************************************************************************)
\* What the end of an action leaves: it no longer runs; its ID is among the
\* replaced ones or among the ends to take.
LEMMA EndFates ==
  ASSUME NEW r \in Runtime, NEW a \in Agents, NEW status \in Statuses, NEW silent \in BOOLEAN,
         Running(r, a)
  PROVE  LET s == End(r, a, status, silent)
             id == r.active[a].id IN
         /\ s.nextAction = r.nextAction
         /\ s.traced.started = r.traced.started
         /\ silent => s.traced.replaced = r.traced.replaced \cup {id}
         /\ ~silent => s.traced.replaced = r.traced.replaced
         /\ silent => \A b \in Agents : EndedIds(s, b) = EndedIds(r, b)
         /\ ~silent => EndedIds(s, a) = EndedIds(r, a) \cup {id}
         /\ \A b \in Agents \ {a} : EndedIds(s, b) = EndedIds(r, b)
         /\ s.active[a] = NoAction
         /\ \A b \in Agents \ {a} : s.active[b] = r.active[b]
<1> DEFINE s == End(r, a, status, silent)
           id == r.active[a].id
           c  == Clears(r, a)
           e  == [agent |-> a, id |-> id, status |-> status]
<1>1. /\ c.ended = r.ended /\ c.traced = r.traced /\ c.nextAction = r.nextAction
      /\ c.active = [r.active EXCEPT ![a] = NoAction]
  BY DEF Clears, Runtime
<1>2. c.active[a] = NoAction /\ \A b \in Agents \ {a} : c.active[b] = r.active[b]
  BY <1>1 DEF Runtime
<1>3. s = [c EXCEPT !.ended = IF silent THEN @ ELSE Append(@, e),
                    !.traced.replaced = IF silent THEN @ \cup {id} ELSE @]
  BY DEF End
<1>4. /\ s.nextAction = c.nextAction /\ s.active = c.active
      /\ s.ended = IF silent THEN r.ended ELSE Append(r.ended, e)
      /\ s.traced.started = r.traced.started
      /\ s.traced.replaced = IF silent THEN r.traced.replaced \cup {id} ELSE r.traced.replaced
  <2> HIDE DEF s, c, id, e
  <2>1. r.ended \in Seq(Ended) /\ c \in Runtime
    BY <1>1 DEF c, Clears, Runtime, Action, NoAction
  <2> QED BY <1>1, <1>3, <2>1 DEF Runtime
<1> HIDE DEF s, c
<1>5. ASSUME NEW b \in Agents
      PROVE  EndedIds(s, b) = IF b = a /\ ~silent THEN EndedIds(r, b) \cup {id} ELSE EndedIds(r, b)
  <2>1. r.ended \in Seq(Ended)
    BY DEF Runtime
  <2>2. CASE silent
    BY <1>4, <2>2 DEF EndedIds
  <2>3. CASE ~silent
    <3>1. e.agent = a /\ e.id = id /\ e \in Ended
      BY DEF Ended, Runtime, Action
    <3> HIDE DEF e, id
    <3>2. /\ Len(s.ended) = Len(r.ended) + 1 /\ Len(r.ended) \in Nat
          /\ \A i \in 1..Len(r.ended) : s.ended[i] = r.ended[i]
          /\ s.ended[Len(r.ended) + 1] = e
      BY <1>4, <2>1, <2>3, <3>1
    <3>3. \A i : i \in 1..Len(s.ended) <=> i \in 1..Len(r.ended) \/ i = Len(r.ended) + 1
      BY <3>2
    <3>4. ASSUME NEW x
          PROVE  x \in EndedIds(s, b) <=> x \in EndedIds(r, b) \/ (b = a /\ x = id)
      BY <3>1, <3>2, <3>3 DEF EndedIds
    <3> QED BY <2>3, <3>4
  <2> QED BY <2>2, <2>3
<1> QED BY <1>1, <1>2, <1>4, <1>5 DEF s

\* After that no action of the agent runs.
LEMMA EndStops ==
  ASSUME NEW r \in Runtime, NEW a \in Agents, NEW status \in Statuses, NEW silent \in BOOLEAN
  PROVE  ~Running(End(r, a, status, silent), a)
<1>1. CASE Running(r, a)
  <2>1. End(r, a, status, silent).active[a] = NoAction
    BY <1>1, EndFates
  <2> QED BY <2>1 DEF Running
<1>2. CASE ~Running(r, a)
  BY <1>2 DEF End
<1> QED BY <1>1, <1>2

\* Nothing has ended where no end is left to take.
LEMMA NoneEnded ==
  ASSUME NEW r, NEW a, r.ended = <<>>
  PROVE  EndedIds(r, a) = {}
<1>1. 1..Len(r.ended) = {}
  OBVIOUS
<1> QED BY <1>1 DEF EndedIds

\* One fate is one of five, and none of the others.
LEMMA OneFateIs ==
  ASSUME NEW r, NEW ends, NEW delivered, NEW id, NEW a
  PROVE  LET runs == id = r.active[a].id
             gone == id \in r.traced.replaced
             over == id \in EndedIds(r, a)
             here == id \in ends[a]
             told == id \in delivered IN
         OneFate(r, ends, delivered, id, a) <=>
           \/ runs /\ ~gone /\ ~over /\ ~here /\ ~told
           \/ ~runs /\ gone /\ ~over /\ ~here /\ ~told
           \/ ~runs /\ ~gone /\ over /\ ~here /\ ~told
           \/ ~runs /\ ~gone /\ ~over /\ here /\ ~told
           \/ ~runs /\ ~gone /\ ~over /\ ~here /\ told
<1> DEFINE E == EndedIds(r, a)
           of == <<{r.active[a].id}, r.traced.replaced, E, ends[a], delivered>>
<1>1. \A l \in 1..5 : l = 1 \/ l = 2 \/ l = 3 \/ l = 4 \/ l = 5
  OBVIOUS
<1>2. /\ 1 \in 1..5 /\ 2 \in 1..5 /\ 3 \in 1..5 /\ 4 \in 1..5 /\ 5 \in 1..5
      /\ of[1] = {r.active[a].id} /\ of[2] = r.traced.replaced /\ of[3] = E
      /\ of[4] = ends[a] /\ of[5] = delivered
  OBVIOUS
<1>3. OneFate(r, ends, delivered, id, a) <=> \E k \in 1..5 : \A l \in 1..5 : id \in of[l] <=> l = k
  BY DEF OneFate
<1> HIDE DEF of
<1>4. ASSUME NEW k \in 1..5
      PROVE  (\A l \in 1..5 : id \in of[l] <=> l = k) <=>
               /\ id = r.active[a].id <=> k = 1
               /\ id \in r.traced.replaced <=> k = 2
               /\ id \in E <=> k = 3
               /\ id \in ends[a] <=> k = 4
               /\ id \in delivered <=> k = 5
  BY <1>1, <1>2
<1> QED BY <1>1, <1>2, <1>3, <1>4

\* Fates look at the actions, their ends and their IDs only.
LEMMA FatesSame ==
  ASSUME NEW r, NEW s, NEW ends, NEW delivered, Fated(r, ends, delivered),
         s.active = r.active, s.ended = r.ended, s.nextAction = r.nextAction,
         s.traced = r.traced
  PROVE  Fated(s, ends, delivered)
<1>1. /\ \A a \in Agents : EndedIds(s, a) = EndedIds(r, a)
      /\ \A a \in Agents : Running(s, a) <=> Running(r, a)
  BY DEF EndedIds, Running
<1>2. IdsAreGiven(s)
  BY <1>1 DEF Fated, IdsAreGiven
<1>3. \A x \in r.traced.started : x[2] \in Minded => OneFate(s, ends, delivered, x[1], x[2])
  <2>1. ASSUME NEW x \in r.traced.started, x[2] \in Minded
        PROVE  OneFate(s, ends, delivered, x[1], x[2])
    <3>1. EndedIds(s, x[2]) = EndedIds(r, x[2])
      BY <1>1, <2>1, WorldAssumption
    <3>2. OneFate(r, ends, delivered, x[1], x[2])
      BY <2>1 DEF Fated
    <3> QED BY <3>1, <3>2, OneFateIs
  <2> QED BY <2>1
<1> QED BY <1>2, <1>3 DEF Fated

\* Ending an action gives it its fate.
LEMMA EndKeepsFates ==
  ASSUME NEW r \in Runtime, NEW a \in Agents, NEW status \in Statuses, NEW silent \in BOOLEAN,
         NEW ends, NEW delivered, Fated(r, ends, delivered)
  PROVE  Fated(End(r, a, status, silent), ends, delivered)
<1>1. CASE ~Running(r, a)
  BY <1>1 DEF End
<1>2. CASE Running(r, a)
  <2> DEFINE s == End(r, a, status, silent)
             id == r.active[a].id
  <2>1. /\ s.nextAction = r.nextAction
        /\ s.traced.started = r.traced.started
        /\ silent => s.traced.replaced = r.traced.replaced \cup {id}
        /\ ~silent => s.traced.replaced = r.traced.replaced
        /\ silent => \A b \in Agents : EndedIds(s, b) = EndedIds(r, b)
        /\ ~silent => EndedIds(s, a) = EndedIds(r, a) \cup {id}
        /\ \A b \in Agents \ {a} : EndedIds(s, b) = EndedIds(r, b)
        /\ s.active[a] = NoAction
        /\ \A b \in Agents \ {a} : s.active[b] = r.active[b]
    BY <1>2, EndFates
  <2>2. <<id, a>> \in r.traced.started /\ 0 < id /\ id < r.nextAction
    BY <1>2 DEF Fated, IdsAreGiven
  <2> HIDE DEF s, id
  <2>3. NoAction.id = 0 /\ s.active[a].id = 0
    BY <2>1 DEF NoAction
  <2>4. IdsAreGiven(s)
    <3>1. \A b \in Agents : Running(s, b) => b # a /\ Running(r, b)
      BY <2>1 DEF Running
    <3>2. \A b \in Agents : \A x \in EndedIds(s, b) : <<x, b>> \in r.traced.started
      BY <2>1, <2>2 DEF Fated, IdsAreGiven
    <3>3. \A x \in s.traced.replaced : x < s.nextAction
      BY <2>1, <2>2 DEF Fated, IdsAreGiven
    <3> QED BY <2>1, <3>1, <3>2, <3>3 DEF Fated, IdsAreGiven
  <2>5. ASSUME NEW x \in r.traced.started, x[2] \in Minded
        PROVE  OneFate(s, ends, delivered, x[1], x[2])
    <3>1. /\ x[2] \in Agents /\ 0 < x[1] /\ x = <<x[1], x[2]>>
          /\ OneFate(r, ends, delivered, x[1], x[2])
      <4>1. r.traced.started \subseteq Nat \X Agents
        BY DEF Runtime
      <4> QED BY <2>5, <4>1 DEF Fated, IdsAreGiven
    <3>2. x[1] = id => x[2] = a
      BY <2>2, <3>1 DEF Fated, IdsAreGiven
    <3>3. EndedIds(s, x[2]) = IF x[2] = a /\ ~silent THEN EndedIds(r, x[2]) \cup {id} ELSE EndedIds(r, x[2])
      BY <2>1, <3>1
    <3>4. CASE x[2] = a
      <4>1. x[1] # s.active[x[2]].id /\ id = r.active[x[2]].id
        BY <2>3, <3>1, <3>4 DEF id
      <4> QED BY <2>1, <3>1, <3>3, <3>4, <4>1, OneFateIs
    <3>5. CASE x[2] # a
      <4>1. s.active[x[2]] = r.active[x[2]] /\ x[1] # id
        BY <2>1, <3>1, <3>2, <3>5
      <4> QED BY <2>1, <3>1, <3>3, <3>5, <4>1, OneFateIs
    <3> QED BY <3>4, <3>5
  <2> QED BY <2>1, <2>4, <2>5 DEF Fated, s
<1> QED BY <1>1, <1>2

\* A started action takes an ID nothing knows yet.
LEMMA BeginKeepsFates ==
  ASSUME NEW r \in Runtime, NEW a \in Agents, NEW name \in Names, NEW by \in Callers,
         NEW ends, NEW delivered, Fated(r, ends, delivered)
  PROVE  Fated(Begin(r, a, name, by), ends, delivered)
<1> DEFINE e == End(r, a, "preempted", Silently(by))
           n == e.nextAction
           s == Begin(r, a, name, by)
<1>1. Silently(by) \in BOOLEAN /\ "preempted" \in Statuses
  BY DEF Silently, Statuses
<1>2. e \in Runtime /\ Fated(e, ends, delivered)
  BY <1>1, EndType, EndKeepsFates
<1>3. ~Running(e, a)
  BY <1>1, EndStops
<1> HIDE DEF e
<1>4. s = [e EXCEPT !.active[a] = [id |-> n, name |-> name, by |-> by],
                    !.nextAction = @ + 1,
                    !.traced.started = @ \cup {<<n, a>>}]
  BY DEF Begin, e
<1> HIDE DEF s
<1>5. /\ s.ended = e.ended /\ s.nextAction = n + 1 /\ n \in Nat \ {0}
      /\ s.traced.started = e.traced.started \cup {<<n, a>>}
      /\ s.traced.replaced = e.traced.replaced
      /\ s.active[a] = [id |-> n, name |-> name, by |-> by]
      /\ \A b \in Agents \ {a} : s.active[b] = e.active[b]
  BY <1>2, <1>4 DEF Runtime
<1>6. \A b \in Agents : EndedIds(s, b) = EndedIds(e, b)
  BY <1>5 DEF EndedIds
<1> HIDE DEF n
<1>7. /\ \A x \in e.traced.started : x[1] # n /\ x = <<x[1], x[2]>> /\ x[2] \in Agents /\ x[1] \in Nat
      /\ n \notin e.traced.replaced /\ n \notin delivered
      /\ \A b \in Agents : n \notin EndedIds(e, b) /\ n \notin ends[b]
  <2>1. e.traced.started \subseteq Nat \X Agents
    BY <1>2 DEF Runtime
  <2>2. \A x \in e.traced.started : x[1] # n /\ x = <<x[1], x[2]>> /\ x[2] \in Agents /\ x[1] \in Nat
    BY <1>2, <1>5, <2>1 DEF Fated, IdsAreGiven, n
  <2>3. n \notin e.traced.replaced /\ n \notin delivered
    BY <1>2, <1>5 DEF Fated, IdsAreGiven, n
  <2>4. ASSUME NEW b \in Agents
        PROVE  n \notin EndedIds(e, b) /\ n \notin ends[b]
    <3>1. <<n, b>> \notin e.traced.started
      BY <2>2
    <3> QED BY <1>2, <3>1 DEF Fated, IdsAreGiven
  <2> QED BY <2>2, <2>3, <2>4
<1>8. IdsAreGiven(s)
  <2>1. \A x \in s.traced.started : 0 < x[1] /\ x[1] < s.nextAction
    <3>1. ASSUME NEW x \in e.traced.started
          PROVE  0 < x[1] /\ x[1] < n + 1
      BY <1>2, <1>5, <1>7 DEF Fated, IdsAreGiven, n
    <3> QED BY <1>5, <3>1
  <2>2. \A x, y \in s.traced.started : x[1] = y[1] => x[2] = y[2]
    BY <1>2, <1>5, <1>7 DEF Fated, IdsAreGiven
  <2>3. \A b \in Agents : Running(s, b) => <<s.active[b].id, b>> \in s.traced.started
    BY <1>2, <1>5 DEF Fated, IdsAreGiven, Running
  <2>4. \A b \in Agents : \A id \in EndedIds(s, b) : <<id, b>> \in s.traced.started
    BY <1>2, <1>5, <1>6 DEF Fated, IdsAreGiven
  <2>5. \A id \in s.traced.replaced : id < s.nextAction
    <3>1. e.traced.replaced \subseteq Nat /\ \A id \in e.traced.replaced : id < n
      BY <1>2 DEF Fated, IdsAreGiven, Runtime, n
    <3> QED BY <1>5, <3>1
  <2> QED BY <2>1, <2>2, <2>3, <2>4, <2>5 DEF IdsAreGiven
<1>9. ASSUME NEW x \in s.traced.started, x[2] \in Minded
      PROVE  OneFate(s, ends, delivered, x[1], x[2])
  <2>1. CASE x = <<n, a>>
    <3>1. s.active[x[2]].id = x[1] /\ EndedIds(s, x[2]) = EndedIds(e, x[2]) /\ x[1] = n /\ x[2] = a
      BY <1>5, <1>6, <2>1
    <3> QED BY <1>5, <1>7, <3>1, OneFateIs
  <2>2. CASE x \in e.traced.started
    <3>1. x[1] # n /\ x[2] \in Agents /\ OneFate(e, ends, delivered, x[1], x[2]) /\ 0 < x[1]
      BY <1>2, <1>7, <1>9, <2>2 DEF Fated, IdsAreGiven
    <3>2. EndedIds(s, x[2]) = EndedIds(e, x[2])
      BY <1>6, <3>1
    <3>3. x[1] = s.active[x[2]].id <=> x[1] = e.active[x[2]].id
      BY <1>3, <1>5, <3>1 DEF Running, NoAction
    <3> QED BY <1>5, <3>1, <3>2, <3>3, OneFateIs
  <2> QED BY <1>5, <1>9, <2>1, <2>2
<1>10. /\ \A b \in Agents : \A id \in ends[b] : <<id, b>> \in s.traced.started
  BY <1>2, <1>5 DEF Fated
<1>11. \A id \in delivered : id \in Nat /\ id < s.nextAction
  <2>1. \A id \in delivered : id \in Nat /\ id < n
    BY <1>2 DEF Fated, n
  <2> QED BY <1>5, <2>1
<1> QED BY <1>8, <1>9, <1>10, <1>11 DEF Fated, s

\* An end that is reported replaces nothing.
LEMMA LoudEnd ==
  ASSUME NEW r \in Runtime, NEW a \in Agents, NEW status \in Statuses
  PROVE  End(r, a, status, FALSE).traced = r.traced
BY DEF End, Clears, Runtime

\* One tick of an agent's action, its battery and its reflex: every action keeps
\* one fate, and none is replaced.
LEMMA TickKeepsFates ==
  ASSUME NEW r \in Runtime, NEW a \in Agents, NEW outcome \in StepOutcomes,
         NEW level \in 0..FullSoc, NEW name \in Names, NEW refused \in BOOLEAN,
         NEW ends, NEW delivered, Fated(r, ends, delivered)
  PROVE  LET s == RuntimeTick(r, a, outcome, level, name, refused) IN
         /\ Fated(s, ends, delivered)
         /\ s.traced.replaced = r.traced.replaced
<1> DEFINE Kept(s) == /\ s \in Runtime /\ Fated(s, ends, delivered)
                      /\ s.traced.replaced = r.traced.replaced
           stepped  == IF outcome = "running" THEN r ELSE End(r, a, outcome, FALSE)
           depleted == Deplete(stepped, a, level)
<1>1. ASSUME NEW s, Kept(s), NEW status \in Statuses
      PROVE  Kept(End(s, a, status, FALSE))
  <2>1. End(s, a, status, FALSE) \in Runtime
    BY <1>1, EndType
  <2>2. Fated(End(s, a, status, FALSE), ends, delivered)
    BY <1>1, EndKeepsFates
  <2>3. End(s, a, status, FALSE).traced = s.traced
    BY <1>1, LoudEnd
  <2> QED BY <1>1, <2>1, <2>2, <2>3
<1>2. Kept(stepped)
  BY <1>1 DEF StepOutcomes
<1>3. Kept(depleted)
  BY <1>1, <1>2 DEF Deplete, Statuses
<1> HIDE DEF stepped, depleted
<1>4. Kept(ApplyBatteryReflex(depleted, a, level, name, refused))
  <2> DEFINE e == End(depleted, a, "preempted", FALSE)
             f == [e EXCEPT !.fired = @ \cup {a}]
             g == Begin(f, a, name, "reflex")
             h == [g EXCEPT !.recovering = @ \cup {a}]
  <2>1. Kept(e) /\ ~Running(e, a)
    <3>1. Kept(e)
      BY <1>1, <1>3 DEF Statuses
    <3>2. "preempted" \in Statuses /\ FALSE \in BOOLEAN /\ depleted \in Runtime
      BY <1>3 DEF Statuses
    <3> QED BY <3>1, <3>2, EndStops
  <2> HIDE DEF e
  <2>2. /\ f \in Runtime /\ f.active = e.active /\ f.ended = e.ended
        /\ f.nextAction = e.nextAction /\ f.traced = e.traced
    BY <2>1 DEF Runtime
  <2> HIDE DEF f
  <2>3. Kept(f) /\ ~Running(f, a)
    BY <2>1, <2>2, FatesSame DEF Running
  <2>4. g \in Runtime /\ Fated(g, ends, delivered)
    BY <2>3, BeginType, BeginKeepsFates DEF Callers
  <2>5. g.traced.replaced = f.traced.replaced
    <3>1. End(f, a, "preempted", Silently("reflex")) = f
      BY <2>3 DEF End
    <3> QED BY <2>3, <3>1 DEF Begin, Runtime
  <2> HIDE DEF g
  <2>6. /\ h \in Runtime /\ h.active = g.active /\ h.ended = g.ended
        /\ h.nextAction = g.nextAction /\ h.traced = g.traced
    BY <2>4 DEF Runtime
  <2> HIDE DEF h
  <2>7. Kept(h)
    BY <2>3, <2>4, <2>5, <2>6, FatesSame
  <2>8. ApplyBatteryReflex(depleted, a, level, name, refused) = IF Startable(level, refused) THEN h ELSE f
    BY DEF ApplyBatteryReflex, e, f, g, h
  <2> QED BY <2>3, <2>7, <2>8
<1> QED BY <1>3, <1>4 DEF RuntimeTick, stepped, depleted

\* The actions some events say are over.
LEMMA EndsInIs ==
  ASSUME NEW events, NEW id
  PROVE  id \in EndsIn(events) <=> \E e \in events : e.kind \in {"completed", "failed"} /\ e.subject = id
BY DEF EndsIn

\* The ends in an inbox are those that were in it and those that are new.
LEMMA EndsAdded ==
  ASSUME NEW entries, NEW new
  PROVE  EndsIn(AddEvents(entries, new)) = EndsIn(entries) \cup EndsIn(new)
<1>1. \A e : e \in AddEvents(entries, new) => e \in entries \/ e \in new
  BY DEF AddEvents
<1>2. \A e : e \in entries /\ e.kind # "perception" => e \in AddEvents(entries, new)
  BY DEF AddEvents
<1>3. \A e \in new : e \in AddEvents(entries, new)
  BY DEF AddEvents
<1>4. ASSUME NEW id
      PROVE  id \in EndsIn(AddEvents(entries, new)) <=> id \in EndsIn(entries) \/ id \in EndsIn(new)
  <2>1. /\ id \in EndsIn(AddEvents(entries, new)) <=>
             \E e \in AddEvents(entries, new) : e.kind \in {"completed", "failed"} /\ e.subject = id
        /\ id \in EndsIn(entries) <=> \E e \in entries : e.kind \in {"completed", "failed"} /\ e.subject = id
        /\ id \in EndsIn(new) <=> \E e \in new : e.kind \in {"completed", "failed"} /\ e.subject = id
    BY EndsInIs
  <2> QED BY <1>1, <1>2, <1>3, <2>1
<1> QED BY <1>4

\* What an agent is told beside the ends of its actions holds no end.
LEMMA EndsOfNewEvents ==
  ASSUME TypeOK, NEW a \in Agents, NEW seen
  PROVE  EndsIn(EndedEvents(a) \cup BatteryEvents(a) \cup PerceptionEvents(seen) \cup TimerEvents(a))
           = EndedIds(rt, a)
<1>1. EndsIn(EndedEvents(a)) = EndedIds(rt, a)
  <2> DEFINE ev(i) == NewEvent(IF rt.ended[i].status = "succeeded" THEN "completed" ELSE "failed",
                               rt.ended[i].id, tick, 0)
  <2>1. \A i : ev(i).kind \in {"completed", "failed"} /\ ev(i).subject = rt.ended[i].id
    BY DEF NewEvent
  <2>2. EndedEvents(a) = {ev(i) : i \in {j \in 1..Len(rt.ended) : rt.ended[j].agent = a}}
    BY DEF EndedEvents
  <2> HIDE DEF ev
  <2>3. ASSUME NEW id PROVE id \in EndsIn(EndedEvents(a)) <=> id \in EndedIds(rt, a)
    <3>1. id \in EndsIn(EndedEvents(a)) <=>
            \E e \in EndedEvents(a) : e.kind \in {"completed", "failed"} /\ e.subject = id
      BY EndsInIs
    <3> QED BY <2>1, <2>2, <3>1 DEF EndedIds
  <2> QED BY <2>3
<1>2. EndsIn(BatteryEvents(a)) = {} /\ EndsIn(PerceptionEvents(seen)) = {} /\ EndsIn(TimerEvents(a)) = {}
  BY DEF EndsIn, BatteryEvents, PerceptionEvents, TimerEvents, NewEvent
<1> QED BY <1>1, <1>2 DEF EndsIn

\* The ends that wait in the inboxes.
InInboxes == [a \in Agents |-> EndsIn(inbox[a])]

\* Nothing but the runtime, the inboxes and the log of requests matters.
LEMMA FatesQuiet ==
  ASSUME FatesInv, UNCHANGED <<rt, traced>>, \A a \in Agents : EndsIn(inbox'[a]) = EndsIn(inbox[a]),
         pc' \in {"idle", "asks"} => pc \in {"idle", "asks"}
  PROVE  FatesInv'
<1>1. InInboxes' = InInboxes
  BY DEF InInboxes
<1> QED BY <1>1 DEF FatesInv, InInboxes

\* A rejection is no end.
LEMMA RejectFates ==
  ASSUME TypeOK, NEW a \in Agents, Reject(a)
  PROVE  \A b \in Agents : EndsIn(inbox'[b]) = EndsIn(inbox[b])
<1> DEFINE new == {NewEvent("rejected", 0, tick, rejections[a])}
<1>1. EndsIn(new) = {}
  BY DEF EndsIn, NewEvent
<1>3. inbox' = [inbox EXCEPT ![a] = AddEvents(inbox[a], new)] /\ inbox \in [Agents -> SUBSET Event]
  BY DEF Reject, TypeOK
<1> HIDE DEF new
<1>2. EndsIn(AddEvents(inbox[a], new)) = EndsIn(inbox[a])
  <2>1. EndsIn(AddEvents(inbox[a], new)) = EndsIn(inbox[a]) \cup EndsIn(new)
    BY EndsAdded
  <2> QED BY <1>1, <2>1
<1> QED BY <1>2, <1>3

\* Every action a minded agent started has one fate, whatever the loop does.
LEMMA FatesNext ==
  ASSUME IInv, FatesInv, [Next]_vars
  PROVE  FatesInv'
<1>0. /\ rt \in Runtime /\ inbox \in [Agents -> SUBSET Event] /\ slots \in [Agents -> Slot]
      /\ traced \in [inputs : SUBSET Nat, delivered : SUBSET Nat]
      /\ TypeOK
  BY DEF IInv, TypeOK
<1>1. CASE BetweenTicks \/ StartTick \/ InputsDone \/ BrainsDone \/ TickDone \/ TickThrows \/ UNCHANGED vars
  BY <1>1, FatesQuiet DEF BetweenTicks, Inject, Decide, DecisionsArrive, StartTick, InputsDone,
     BrainsDone, TickDone, TickThrows, vars, IInv, LockstepPhases
<1>2. CASE ApplyInput
  <2>1. /\ pc' = "inputs" /\ UNCHANGED inbox /\ traced'.delivered = traced.delivered
    BY <1>0, <1>2 DEF ApplyInput
  <2>2. \/ rt' = rt
        \/ rt' = Begin(rt, inputLog[turn].agent, inputLog[turn].name, "world")
    BY <1>2 DEF ApplyInput
  <2>3. inputLog[turn].agent \in Agents /\ inputLog[turn].name \in Names /\ "world" \in Callers
    <3>1. turn \in 1..Len(inputLog) /\ inputLog \in Seq([agent : Agents, name : Names, tick : Nat])
      BY <1>2 DEF IInv, TypeOK, ApplyInput
    <3>2. inputLog[turn] \in [agent : Agents, name : Names, tick : Nat]
      BY <3>1, SeqElement
    <3> QED BY <3>2 DEF Callers
  <2>4. Fated(rt', InInboxes, traced.delivered)
    BY <1>0, <2>2, <2>3, BeginKeepsFates DEF FatesInv, InInboxes
  <2> QED BY <2>1, <2>4 DEF FatesInv, InInboxes
<1>3. ASSUME NEW a \in Agents, ApplyTimerOp(a)
      PROVE  FatesInv'
  <2>1. pc' = "brains" /\ UNCHANGED <<rt, traced>> /\ (UNCHANGED inbox \/ Reject(a))
    BY <1>3 DEF ApplyTimerOp
  <2> QED BY <1>0, <2>1, RejectFates, FatesQuiet
<1>4. ASSUME NEW a \in Agents, ApplyDecision(a)
      PROVE  FatesInv'
  <2> DEFINE name == slots[a].answer.action
  <2>1. /\ pc' = "brains" /\ UNCHANGED traced
        /\ \/ UNCHANGED rt /\ (UNCHANGED inbox \/ Reject(a))
           \/ /\ rt' = Begin(rt, a, name, "mind") /\ UNCHANGED inbox
              /\ name # "none"
    BY <1>4 DEF ApplyDecision
  <2>2. CASE UNCHANGED rt /\ (UNCHANGED inbox \/ Reject(a))
    BY <1>0, <2>1, <2>2, RejectFates, FatesQuiet
  <2>3. CASE rt' = Begin(rt, a, name, "mind") /\ UNCHANGED inbox /\ name # "none"
    <3>1. name \in Names /\ "mind" \in Callers
      BY <1>0, <2>3 DEF Slot, Decision, Callers
    <3>2. Fated(rt', InInboxes, traced.delivered)
      BY <1>0, <2>3, <3>1, BeginKeepsFates DEF FatesInv, InInboxes
    <3> QED BY <2>1, <2>3, <3>2 DEF FatesInv, InInboxes
  <2> QED BY <2>1, <2>2, <2>3
<1>5. ASSUME NEW a \in Agents, ActAgent(a)
      PROVE  FatesInv'
  <2>1. PICK level \in Drain(soc[a]), outcome \in StepOutcomes, name \in Names, refused \in BOOLEAN :
          rt' = RuntimeTick(rt, a, outcome, level, name, refused)
    BY <1>5 DEF ActAgent
  <2>2. level \in 0..FullSoc
    BY SocAssumption DEF IInv, TypeOK, Drain
  <2>3. Fated(rt', InInboxes, traced.delivered)
    BY <1>0, <2>1, <2>2, TickKeepsFates DEF FatesInv, InInboxes
  <2>4. pc' = "actions" /\ UNCHANGED <<inbox, traced>>
    BY <1>5 DEF ActAgent
  <2> QED BY <2>3, <2>4 DEF FatesInv, InInboxes
<1>6. CASE CollectEvents
  <2> DEFINE old == InInboxes
             new == [a \in Agents |-> EndsIn(inbox'[a])]
  <2>1. PICK seen \in [Minded -> SUBSET Subjects] :
          inbox' = [a \in Agents |->
            IF a \in Minded
            THEN AddEvents(inbox[a], EndedEvents(a) \cup BatteryEvents(a)
                             \cup PerceptionEvents(seen[a]) \cup TimerEvents(a))
            ELSE {}]
    BY <1>6 DEF CollectEvents
  <2>2. rt' = [rt EXCEPT !.ended = <<>>] /\ pc' = "asks" /\ UNCHANGED traced
    BY <1>6 DEF CollectEvents, TakeEnded
  <2>3. \A a \in Agents : new[a] = IF a \in Minded THEN old[a] \cup EndedIds(rt, a) ELSE {}
    <3>1. ASSUME NEW a \in Agents
          PROVE  new[a] = IF a \in Minded THEN old[a] \cup EndedIds(rt, a) ELSE {}
      <4>1. CASE a \in Minded
        BY <1>0, <2>1, <4>1, EndsAdded, EndsOfNewEvents DEF InInboxes
      <4>2. CASE a \notin Minded
        BY <2>1, <4>2 DEF EndsIn
      <4> QED BY <4>1, <4>2
    <3> QED BY <3>1
  <2> HIDE DEF new, old
  <2>4. /\ rt'.ended = <<>> /\ rt'.active = rt.active /\ rt'.nextAction = rt.nextAction
        /\ rt'.traced = rt.traced
    BY <1>0, <2>2 DEF Runtime
  <2>5. Fated(rt, old, traced.delivered)
    BY DEF FatesInv, InInboxes, old
  <2>6. \A a \in Agents : EndedIds(rt', a) = {} /\ (Running(rt', a) <=> Running(rt, a))
    BY <2>4 DEF EndedIds, Running
  <2>7. IdsAreGiven(rt')
    BY <2>4, <2>5, <2>6 DEF Fated, IdsAreGiven
  <2>8. \A a \in Agents : \A id \in new[a] : <<id, a>> \in rt.traced.started
    BY <2>3, <2>5 DEF Fated, IdsAreGiven
  <2>9. ASSUME NEW x \in rt.traced.started, x[2] \in Minded
        PROVE  OneFate(rt', new, traced.delivered, x[1], x[2])
    <3>1. x[2] \in Agents /\ OneFate(rt, old, traced.delivered, x[1], x[2])
      BY <2>5, <2>9, WorldAssumption DEF Fated
    <3>2. new[x[2]] = old[x[2]] \cup EndedIds(rt, x[2]) /\ EndedIds(rt', x[2]) = {}
      BY <2>3, <2>6, <2>9, <3>1
    <3> QED BY <2>4, <3>1, <3>2, OneFateIs
  <2>10. Fated(rt', new, traced.delivered)
    BY <2>4, <2>5, <2>7, <2>8, <2>9 DEF Fated
  <2> QED BY <2>2, <2>4, <2>10 DEF FatesInv, new
<1>7. ASSUME NEW a \in Agents, Ask(a)
      PROVE  FatesInv'
  <2> DEFINE old == InInboxes
             new == [b \in Agents |-> EndsIn(inbox'[b])]
             del == traced.delivered \cup EndsIn(inbox[a])
  <2>1. /\ UNCHANGED rt /\ pc = "asks" /\ pc' = "asks" /\ a \in Minded
        /\ inbox' = [inbox EXCEPT ![a] = {}] /\ traced'.delivered = del
    BY <1>0, <1>7 DEF Ask, WouldAsk
  <2>2. /\ new[a] = {} /\ \A b \in Agents \ {a} : new[b] = old[b]
        /\ old[a] = EndsIn(inbox[a])
    BY <1>0, <2>1 DEF EndsIn, InInboxes
  <2>3. Fated(rt, old, traced.delivered)
    BY DEF FatesInv, InInboxes
  <2> HIDE DEF new, old
  <2>4. /\ \A b \in Agents : \A id \in new[b] : <<id, b>> \in rt.traced.started
        /\ \A id \in del : id \in Nat /\ id < rt.nextAction
    <3>1. rt.traced.started \subseteq Nat \X Agents
      BY <1>0 DEF Runtime
    <3>2. \A id \in EndsIn(inbox[a]) : <<id, a>> \in rt.traced.started
      BY <2>2, <2>3 DEF Fated
    <3> QED BY <2>2, <2>3, <3>1, <3>2 DEF Fated, IdsAreGiven
  <2>5. ASSUME NEW x \in rt.traced.started, x[2] \in Minded
        PROVE  OneFate(rt, new, del, x[1], x[2])
    <3>1. x[2] \in Agents /\ OneFate(rt, old, traced.delivered, x[1], x[2])
      BY <2>3, <2>5, WorldAssumption DEF Fated
    <3>2. CASE x[2] = a
      BY <2>2, <3>1, <3>2, OneFateIs
    <3>3. CASE x[2] # a
      <4>1. x[1] \notin old[a]
        <5>1. <<x[1], a>> \notin rt.traced.started
          BY <2>3, <3>1, <3>3 DEF Fated, IdsAreGiven
        <5> QED BY <2>3, <5>1 DEF Fated
      <4>2. new[x[2]] = old[x[2]] /\ (x[1] \in del <=> x[1] \in traced.delivered)
        BY <2>2, <3>1, <3>3, <4>1
      <4> QED BY <3>1, <4>2, OneFateIs
    <3> QED BY <3>2, <3>3
  <2>6. Fated(rt, new, del)
    BY <2>3, <2>4, <2>5 DEF Fated
  <2>7. rt.ended = <<>>
    BY <2>1 DEF FatesInv
  <2> HIDE DEF del
  <2> QED BY <2>1, <2>6, <2>7 DEF FatesInv, new
<1>8. ASSUME NEW a \in Agents, DoNotAsk(a)
      PROVE  FatesInv'
  BY <1>8, FatesQuiet DEF DoNotAsk
<1> QED
  BY <1>1, <1>2, <1>3, <1>4, <1>5, <1>6, <1>7, <1>8 DEF Next, Tick

(***************************************************************************)
(* Theorems                                                                *)
(***************************************************************************)
\* Genesis: no input, no timer, no event and no action yet.
LEMMA InitInv == Init => Inv
<1> SUFFICES ASSUME Init PROVE Inv
  OBVIOUS
<1>1. IInv
  BY InitIInv
<1>2. InputsInv
  BY DEF Init, InputsInv
<1>3. TimersInv
  <2>1. ASSUME NEW a \in Agents PROVE ActiveTimers(a) = {}
    BY DEF Init, ActiveTimers
  <2>2. ASSUME NEW a \in Agents PROVE Cardinality(ActiveTimers(a)) <= TimerMaxActive
    <3>1. ActiveTimers(a) = {} /\ Cardinality({}) = 0
      BY <2>1, <2>2, FS_EmptySet
    <3> QED BY <3>1, WorldAssumption
  <2> QED BY <2>1, <2>2 DEF TimersInv
<1>4. EventsInv
  BY DEF Init, EventsInv, Told, HasControl
<1>5. FatesInv
  <2>1. /\ rt = RuntimeInit /\ \A a \in Agents : EndsIn(inbox[a]) = {}
        /\ traced.delivered = {}
    BY DEF Init, EndsIn
  <2>2. \A a \in Agents : EndedIds(rt, a) = {} /\ ~Running(rt, a)
    <3>1. rt.ended = <<>> /\ \A a \in Agents : rt.active[a] = NoAction
      BY <2>1 DEF RuntimeInit
    <3> QED BY <3>1, NoneEnded DEF Running
  <2>3. IdsAreGiven(rt)
    BY <2>1, <2>2 DEF IdsAreGiven, RuntimeInit
  <2> QED BY <2>1, <2>3 DEF FatesInv, Fated, RuntimeInit
<1> QED BY <1>1, <1>2, <1>3, <1>4, <1>5 DEF Inv

\* Every step of the loop keeps the invariant.
LEMMA NextInv == Inv /\ [Next]_vars => Inv'
BY NextIInv, InputsNext, TimersNext, EventsNext, FatesNext DEF Inv

\* How far each phase has come, in every state of the loop.
THEOREM Progress == Spec => []Inv
BY InitInv, NextInv, PTL DEF Spec

\* Each run input is applied in the tick it was recorded for and only once that
\* tick has run: replaying the log reproduces the run (world.ts inject, step).
THEOREM InputsKeepTheirTick == Spec => []InputsApplyAtTheirTick
<1>1. Inv => InputsApplyAtTheirTick
  BY DEF Inv, InputsInv, InputsApplyAtTheirTick, BetweenTicksHolds
<1> QED BY <1>1, Progress, PTL

\* Between ticks no control event waits for an agent that does not recover, and
\* no perception event longer than the minimum interval (world.ts ask).
THEOREM EventsReachTheirMind == Spec => []EventsAreDelivered
<1>1. Inv => EventsAreDelivered
  BY DEF Inv, EventsInv, Told, EventsAreDelivered, BetweenTicksHolds
<1> QED BY <1>1, Progress, PTL

\* Timers stay within their limits, none is overdue, and one leaves early only by
\* its own mind's decision (world.ts applyTimers, collectEvents).
THEOREM TimersKeepTheirTick == Spec => TimersFireOnTime
<1> DEFINE A == /\ TimersAreInTime'
                /\ \A a \in Agents, t \in Tags :
                     (timers[a][t] > tick /\ timers'[a][t] # timers[a][t]) => pc = "brains" /\ turn = a
<1>1. Inv => TimersAreInTime
  BY DEF Inv, TimersInv, TimersAreInTime, BetweenTicksHolds
<1>2. Inv /\ Inv' /\ [Next]_vars => [A]_vars
  <2> SUFFICES ASSUME Inv, Inv', Next PROVE A
    OBVIOUS
  <2>0. timers \in [Agents -> [Tags -> Nat]] /\ tick \in Nat
    BY DEF Inv, IInv, TypeOK
  <2>1. TimersAreInTime'
    BY <1>1 DEF Inv, TimersInv, TimersAreInTime, BetweenTicksHolds, ActiveTimers
  <2>2. ASSUME NEW a \in Agents, NEW t \in Tags, timers[a][t] > tick, timers'[a][t] # timers[a][t]
        PROVE  pc = "brains" /\ turn = a
    <3>1. CASE CollectEvents
      <4>1. timers'[a][t] = IF t \in DueTimers(a) THEN 0 ELSE timers[a][t]
        BY <3>1 DEF CollectEvents
      <4> QED BY <2>0, <2>2, <4>1 DEF DueTimers
    <3>2. ASSUME NEW b \in Agents, ApplyTimerOp(b)
          PROVE  pc = "brains" /\ turn = a
      <4>1. pc = "brains" /\ turn = b
        BY <3>2 DEF ApplyTimerOp
      <4>2. b # a => timers'[a] = timers[a]
        BY <2>0, <3>2 DEF ApplyTimerOp
      <4> QED BY <2>2, <4>1, <4>2
    <3>3. CASE UNCHANGED timers
      BY <2>2, <3>3
    <3> QED
      BY <3>1, <3>2, <3>3 DEF Next, BetweenTicks, Tick, Inject, Decide, DecisionsArrive, StartTick,
         ApplyInput, InputsDone, ApplyDecision, BrainsDone, ActAgent, Ask, DoNotAsk, TickDone, TickThrows
  <2> QED BY <2>1, <2>2
<1> HIDE DEF A
<1>3. Spec => [][A]_vars
  BY <1>2, Progress, PTL DEF Spec
<1> QED BY <1>3 DEF TimersFireOnTime, A

\* Every action a minded agent ever started is, between ticks, in exactly one
\* place: it runs, was replaced by the agent's own decision, its end waits in
\* the inbox or was delivered; and only a decision replaces (runtime.ts begin,
\* end; world.ts collectEvents, ask).
THEOREM NoActionIsLost == Spec => EveryActionHasOneFate
<1> DEFINE P == BetweenTicksHolds(\A s \in rt.traced.started :
                  s[2] \in Minded => Cardinality({k \in 1..4 : Fates(s[1], s[2])[k]}) = 1)
           A == rt'.traced.replaced # rt.traced.replaced => pc = "brains"
<1>1. Inv => P
  <2> SUFFICES ASSUME Inv, pc = "idle", NEW s \in rt.traced.started, s[2] \in Minded
               PROVE  Cardinality({k \in 1..4 : Fates(s[1], s[2])[k]}) = 1
    BY DEF BetweenTicksHolds
  <2> DEFINE K == {k \in 1..4 : Fates(s[1], s[2])[k]}
             ends == [a \in Agents |-> EndsIn(inbox[a])]
  <2>1. s[2] \in Agents /\ OneFate(rt, ends, traced.delivered, s[1], s[2]) /\ EndedIds(rt, s[2]) = {}
    <3>1. s[2] \in Agents
      BY WorldAssumption
    <3>2. Fated(rt, ends, traced.delivered) /\ rt.ended = <<>>
      BY DEF Inv, FatesInv
    <3> HIDE DEF ends
    <3>3. OneFate(rt, ends, traced.delivered, s[1], s[2])
      BY <3>2 DEF Fated
    <3>4. EndedIds(rt, s[2]) = {}
      BY <3>2, NoneEnded
    <3> QED BY <3>1, <3>3, <3>4
  <2>2. ends[s[2]] = EndsIn(inbox[s[2]])
    BY <2>1
  <2>3. /\ 1 \in K <=> s[1] = rt.active[s[2]].id
        /\ 2 \in K <=> s[1] \in rt.traced.replaced
        /\ 3 \in K <=> s[1] \in EndsIn(inbox[s[2]])
        /\ 4 \in K <=> s[1] \in traced.delivered
        /\ \A k \in K : k = 1 \/ k = 2 \/ k = 3 \/ k = 4
    <3> DEFINE F == Fates(s[1], s[2])
    <3>1. /\ F[1] <=> rt.active[s[2]].id = s[1]
          /\ F[2] <=> s[1] \in rt.traced.replaced
          /\ F[3] <=> s[1] \in EndsIn(inbox[s[2]])
          /\ F[4] <=> s[1] \in traced.delivered
      BY DEF Fates
    <3> HIDE DEF F
    <3>2. K = {k \in 1..4 : F[k]}
      BY DEF F
    <3>3. 1 \in 1..4 /\ 2 \in 1..4 /\ 3 \in 1..4 /\ 4 \in 1..4
          /\ \A k \in 1..4 : k = 1 \/ k = 2 \/ k = 3 \/ k = 4
      OBVIOUS
    <3> HIDE DEF K
    <3> QED BY <3>1, <3>2, <3>3
  <2> HIDE DEF K, ends
  <2>4. K = {1} \/ K = {2} \/ K = {3} \/ K = {4}
    BY <2>1, <2>2, <2>3, OneFateIs
  <2>5. Cardinality(K) = 1
    BY <2>4, FS_Singleton
  <2> QED BY <2>5 DEF K
<1>2. Inv /\ [Next]_vars => [A]_vars
  <2> SUFFICES ASSUME Inv, Next, pc # "brains"
               PROVE  rt'.traced.replaced = rt.traced.replaced
    OBVIOUS
  <2>0. rt \in Runtime
    BY DEF Inv, IInv, TypeOK
  <2>1. CASE ApplyInput
    <3>1. "preempted" \in Statuses /\ Silently("world") = FALSE
      BY DEF Statuses, Silently
    <3>2. ASSUME rt' = Begin(rt, inputLog[turn].agent, inputLog[turn].name, "world")
          PROVE  rt'.traced.replaced = rt.traced.replaced
      <4>1. inputLog[turn].agent \in Agents
        <5>1. turn \in 1..Len(inputLog) /\ inputLog \in Seq([agent : Agents, name : Names, tick : Nat])
          BY <2>1 DEF Inv, IInv, TypeOK, ApplyInput
        <5>2. inputLog[turn] \in [agent : Agents, name : Names, tick : Nat]
          BY <5>1, SeqElement
        <5> QED BY <5>2
      <4> DEFINE e == End(rt, inputLog[turn].agent, "preempted", FALSE)
      <4>2. e \in Runtime /\ e.traced = rt.traced
        BY <2>0, <3>1, <4>1, EndType, LoudEnd
      <4>3. Begin(rt, inputLog[turn].agent, inputLog[turn].name, "world").traced.replaced = e.traced.replaced
        BY <3>1, <4>2 DEF Begin, Runtime
      <4> QED BY <3>2, <4>2, <4>3
    <3> QED BY <2>1, <3>2 DEF ApplyInput
  <2>2. ASSUME NEW a \in Agents, ActAgent(a)
        PROVE  rt'.traced.replaced = rt.traced.replaced
    <3>1. PICK level \in Drain(soc[a]), outcome \in StepOutcomes, name \in Names, refused \in BOOLEAN :
            rt' = RuntimeTick(rt, a, outcome, level, name, refused)
      BY <2>2 DEF ActAgent
    <3>2. level \in 0..FullSoc
      BY SocAssumption DEF Inv, IInv, TypeOK, Drain
    <3> QED BY <2>0, <3>1, <3>2, TickKeepsFates DEF Inv, FatesInv
  <2>3. CASE CollectEvents
    BY <2>0, <2>3 DEF CollectEvents, TakeEnded, Runtime
  <2>4. CASE UNCHANGED rt
    BY <2>4
  <2> QED
    BY <2>1, <2>2, <2>3, <2>4 DEF Next, BetweenTicks, Tick, Inject, Decide, DecisionsArrive, StartTick,
       InputsDone, ApplyTimerOp, ApplyDecision, BrainsDone, Ask, DoNotAsk, TickDone, TickThrows
<1> HIDE DEF P, A
<1>3. Spec => []P /\ [][A]_vars
  BY <1>1, <1>2, Progress, PTL DEF Spec
<1> QED BY <1>3, PTL DEF EveryActionHasOneFate, P, A

\* A world whose minds are missions is a world: whatever the mission decides and
\* sees, the loop takes its steps, so all that is proved of the loop holds for it
\* (sequence.ts; world.ts decide).
THEOREM MissionsKeepTheLoop == MissionSpec => Spec
<1>1. MissionInit => Init
  BY DEF MissionInit
<1>2. ASSUME [MissionNext]_<<vars, missionVars>> PROVE [Next]_vars
  <2>1. ASSUME MissionsAsked PROVE Next
    BY <2>1 DEF MissionsAsked, Next, BetweenTicks
  <2>2. ASSUME MissionsAnswer PROVE Next
    BY <2>2 DEF MissionsAnswer, Next, BetweenTicks
  <2>3. ASSUME InTheWorld PROVE Next
    BY <2>3 DEF InTheWorld, Next, BetweenTicks
  <2>4. ASSUME UNCHANGED <<vars, missionVars>> PROVE UNCHANGED vars
    BY <2>4
  <2> QED BY <1>2, <2>1, <2>2, <2>3, <2>4 DEF MissionNext
<1> QED BY <1>1, <1>2, PTL DEF MissionSpec, Spec

\* With missions too, no event waits for a mind that could be told of it.
THEOREM MissionsHearTheirEvents == MissionSpec => []EventsAreDelivered
BY MissionsKeepTheLoop, EventsReachTheirMind, PTL

\* With missions too, timers fire on time.
THEOREM MissionsFireOnTime == MissionSpec => TimersFireOnTime
BY MissionsKeepTheLoop, TimersKeepTheirTick, PTL

(***************************************************************************)
(* Missions. A mission hears of its step only through the events of its    *)
(* requests: what the invariant follows is every end and refusal that is   *)
(* on its way to it.                                                       *)
(***************************************************************************)
\* What a step does to the runtime: it runs one agent, whose action it leaves, ends
\* (reported or not) or replaces, and no other agent's.
Reported(r, s, b) ==
  \E status \in Statuses : s.ended = Append(r.ended, [agent |-> b, id |-> r.active[b].id, status |-> status])
Entered(r, s, b, by) ==
  /\ \E name \in Names : s.active[b] = [id |-> r.nextAction, name |-> name, by |-> by]
  /\ s.nextAction = r.nextAction + 1
  /\ s.traced.started = r.traced.started \cup {<<r.nextAction, b>>}
  /\ by = "reflex" => b \in s.recovering
Stayed(r, s, b) ==
  /\ s.active[b] = r.active[b] \/ s.active[b] = NoAction
  /\ s.nextAction = r.nextAction /\ s.traced.started = r.traced.started
  /\ s.active[b] = r.active[b] => (b \in s.recovering <=> b \in r.recovering)
Moves(r, s, b) ==
  /\ s \in Runtime
  /\ \A c \in Agents \ {b} : s.active[c] = r.active[c] /\ (c \in s.recovering <=> c \in r.recovering)
  /\ s.ended = r.ended \/ (Running(r, b) /\ s.active[b] # r.active[b] /\ Reported(r, s, b))
  /\ Stayed(r, s, b) \/ \E by \in Callers : Entered(r, s, b, by)

\* No step but a decision ends an action without a report, and none starts one for
\* the mind.
Loudly(r, s, b) ==
  /\ Running(r, b) /\ s.active[b] # r.active[b] => Reported(r, s, b)
  /\ Stayed(r, s, b) \/ \E by \in {"world", "reflex"} : Entered(r, s, b, by)

\* What the end of an action does to the runtime.
LEMMA EndMoves ==
  ASSUME NEW r \in Runtime, NEW a \in Agents, NEW status \in Statuses, NEW silent \in BOOLEAN
  PROVE  LET s == End(r, a, status, silent) IN
         /\ s \in Runtime
         /\ s.active[a] = NoAction
         /\ \A c \in Agents \ {a} : s.active[c] = r.active[c] /\ (c \in s.recovering <=> c \in r.recovering)
         /\ a \in s.recovering => a \in r.recovering
         /\ s.nextAction = r.nextAction /\ s.traced.started = r.traced.started
         /\ ~Running(r, a) => s = r
         /\ silent \/ ~Running(r, a) => s.ended = r.ended
         /\ ~silent /\ Running(r, a) =>
              s.ended = Append(r.ended, [agent |-> a, id |-> r.active[a].id, status |-> status])
<1> DEFINE s == End(r, a, status, silent)
<1>0. s \in Runtime
  BY EndType
<1>1. CASE ~Running(r, a)
  <2>1. s = r /\ r.active[a] = NoAction
    BY <1>1 DEF End, Running
  <2> HIDE DEF s
  <2> QED BY <1>0, <1>1, <2>1 DEF s
<1>2. CASE Running(r, a)
  <2> DEFINE c == Clears(r, a)
             e == [agent |-> a, id |-> r.active[a].id, status |-> status]
  <2>1. /\ c.ended = r.ended /\ c.traced = r.traced /\ c.nextAction = r.nextAction
        /\ c.active = [r.active EXCEPT ![a] = NoAction] /\ c.recovering = r.recovering \ {a}
    BY DEF Clears, Runtime
  <2>2. s = [c EXCEPT !.ended = IF silent THEN @ ELSE Append(@, e),
                      !.traced.replaced = IF silent THEN @ \cup {r.active[a].id} ELSE @]
    BY <1>2 DEF End
  <2>3. c \in Runtime
    BY <2>1 DEF Clears, Runtime, Action, NoAction
  <2> HIDE DEF c, e
  <2>4. /\ s.nextAction = c.nextAction /\ s.active = c.active /\ s.recovering = c.recovering
        /\ s.ended = IF silent THEN c.ended ELSE Append(c.ended, e)
        /\ s.traced.started = c.traced.started
    BY <2>2, <2>3 DEF Runtime
  <2> HIDE DEF s
  <2>5. s.active[a] = NoAction /\ \A d \in Agents \ {a} : s.active[d] = r.active[d]
    BY <2>1, <2>4 DEF Runtime
  <2> QED BY <1>0, <1>2, <2>1, <2>4, <2>5 DEF s, e
<1> QED BY <1>1, <1>2

\* What the start of an action adds to that.
Begun(r, s, a, name, by) ==
  /\ s \in Runtime
  /\ s.active[a] = [id |-> r.nextAction, name |-> name, by |-> by]
  /\ \A c \in Agents \ {a} : s.active[c] = r.active[c] /\ (c \in s.recovering <=> c \in r.recovering)
  /\ s.nextAction = r.nextAction + 1
  /\ s.traced.started = r.traced.started \cup {<<r.nextAction, a>>}
  /\ by # "world" \/ ~Running(r, a) => s.ended = r.ended
  /\ by = "world" /\ Running(r, a) =>
       s.ended = Append(r.ended, [agent |-> a, id |-> r.active[a].id, status |-> "preempted"])

\* Starting an action replaces what the agent runs.
LEMMA BeginMoves ==
  ASSUME NEW r \in Runtime, NEW a \in Agents, NEW name \in Names, NEW by \in Callers
  PROVE  Begun(r, Begin(r, a, name, by), a, name, by)
<1> DEFINE e == End(r, a, "preempted", Silently(by))
           s == Begin(r, a, name, by)
<1>0. s \in Runtime
  BY BeginType
<1>1. Silently(by) \in BOOLEAN /\ "preempted" \in Statuses /\ (Silently(by) <=> by # "world")
  BY DEF Silently, Statuses
<1>2. /\ e \in Runtime
      /\ \A c \in Agents \ {a} : e.active[c] = r.active[c] /\ (c \in e.recovering <=> c \in r.recovering)
      /\ e.nextAction = r.nextAction /\ e.traced.started = r.traced.started
      /\ by # "world" \/ ~Running(r, a) => e.ended = r.ended
      /\ by = "world" /\ Running(r, a) =>
           e.ended = Append(r.ended, [agent |-> a, id |-> r.active[a].id, status |-> "preempted"])
  BY <1>1, EndMoves
<1> HIDE DEF e
<1>3. s = [e EXCEPT !.active[a] = [id |-> e.nextAction, name |-> name, by |-> by],
                    !.nextAction = @ + 1,
                    !.traced.started = @ \cup {<<e.nextAction, a>>}]
  BY DEF Begin, e
<1>4. /\ s.active = [e.active EXCEPT ![a] = [id |-> e.nextAction, name |-> name, by |-> by]]
      /\ s.recovering = e.recovering /\ s.nextAction = e.nextAction + 1
      /\ s.traced.started = e.traced.started \cup {<<e.nextAction, a>>} /\ s.ended = e.ended
  BY <1>2, <1>3 DEF Runtime
<1> HIDE DEF s
<1>5. /\ s.active[a] = [id |-> e.nextAction, name |-> name, by |-> by]
      /\ \A c \in Agents \ {a} : s.active[c] = e.active[c]
  BY <1>2, <1>4 DEF Runtime
<1>6. Begun(r, s, a, name, by)
  BY <1>0, <1>2, <1>4, <1>5 DEF Begun, s
<1> QED BY <1>6 DEF s

\* A command and a decision.
LEMMA BeginsMove ==
  ASSUME NEW r \in Runtime, NEW a \in Agents, NEW name \in Names, NEW by \in {"world", "mind"}, IdsAreGiven(r)
  PROVE  LET s == Begin(r, a, name, by) IN
         /\ Moves(r, s, a) /\ Entered(r, s, a, by)
         /\ by = "world" => Loudly(r, s, a)
         /\ by = "mind" => s.ended = r.ended
<1> DEFINE s == Begin(r, a, name, by)
<1>1. by \in Callers /\ "preempted" \in Statuses
  BY DEF Callers, Statuses
<1>2. Begun(r, s, a, name, by)
  BY <1>1, BeginMoves
<1> HIDE DEF s
<1>3. Running(r, a) => r.active[a].id < r.nextAction
  BY DEF IdsAreGiven, Running
<1>4. Running(r, a) => s.active[a] # r.active[a]
  <2>1. s.active[a].id = r.nextAction
    BY <1>2 DEF Begun
  <2>2. r.nextAction \in Nat
    BY DEF Runtime
  <2> QED BY <1>3, <2>1, <2>2
<1>5. Entered(r, s, a, by)
  BY <1>2 DEF Entered, Begun
<1>6. by = "world" /\ Running(r, a) => Reported(r, s, a)
  BY <1>1, <1>2 DEF Reported, Begun
<1>7. s.ended = r.ended \/ (Running(r, a) /\ s.active[a] # r.active[a] /\ Reported(r, s, a))
  BY <1>2, <1>4, <1>6 DEF Begun
<1>8. Moves(r, s, a)
  BY <1>1, <1>2, <1>5, <1>7 DEF Moves, Begun
<1>9. by = "world" => Loudly(r, s, a)
  BY <1>5, <1>6 DEF Loudly
<1> QED BY <1>2, <1>5, <1>8, <1>9 DEF s, Begun

\* A tick of an agent: at most one end, which is reported, and then a recovery.
LEMMA TickMoves ==
  ASSUME NEW r \in Runtime, NEW a \in Agents, NEW outcome \in StepOutcomes,
         NEW level \in 0..FullSoc, NEW name \in Names, NEW refused \in BOOLEAN, IdsAreGiven(r)
  PROVE  LET s == RuntimeTick(r, a, outcome, level, name, refused) IN
         Moves(r, s, a) /\ Loudly(r, s, a)
<1> DEFINE Same(x) == x.active[a] = r.active[a] /\ x.ended = r.ended /\ (a \in x.recovering <=> a \in r.recovering)
           Over(x) == Running(r, a) /\ x.active[a] = NoAction /\ Reported(r, x, a)
           Kept(x) == /\ x \in Runtime
                      /\ \A c \in Agents \ {a} : x.active[c] = r.active[c] /\ (c \in x.recovering <=> c \in r.recovering)
                      /\ x.nextAction = r.nextAction /\ x.traced.started = r.traced.started
                      /\ Same(x) \/ Over(x)
           stepped  == IF outcome = "running" THEN r ELSE End(r, a, outcome, FALSE)
           depleted == Deplete(stepped, a, level)
<1>1. ASSUME NEW x, Kept(x), NEW status \in Statuses
      PROVE  Kept(End(x, a, status, FALSE)) /\ End(x, a, status, FALSE).active[a] = NoAction
  <2> DEFINE y == End(x, a, status, FALSE)
  <2>1. /\ y \in Runtime /\ y.active[a] = NoAction
        /\ \A c \in Agents \ {a} : y.active[c] = x.active[c] /\ (c \in y.recovering <=> c \in x.recovering)
        /\ y.nextAction = x.nextAction /\ y.traced.started = x.traced.started
        /\ ~Running(x, a) => y = x
        /\ Running(x, a) => y.ended = Append(x.ended, [agent |-> a, id |-> x.active[a].id, status |-> status])
    <3>1. FALSE \in BOOLEAN /\ x \in Runtime
      BY <1>1
    <3> QED BY <3>1, EndMoves
  <2> HIDE DEF y
  <2>2. CASE ~Running(x, a)
    BY <1>1, <2>1, <2>2 DEF y
  <2>3. CASE Running(x, a)
    <3>1. Same(x)
      BY <1>1, <2>3 DEF Running
    <3>2. y.ended = Append(r.ended, [agent |-> a, id |-> r.active[a].id, status |-> status])
      BY <2>1, <2>3, <3>1
    <3>3. Over(y)
      BY <2>1, <2>3, <3>1, <3>2 DEF Running, Reported
    <3> QED BY <1>1, <2>1, <3>3 DEF y
  <2> QED BY <2>2, <2>3
<1>2. Kept(r)
  OBVIOUS
<1>3. Kept(stepped)
  BY <1>1, <1>2 DEF StepOutcomes
<1> HIDE DEF stepped
<1>4. Kept(depleted)
  BY <1>1, <1>3 DEF Deplete, Statuses
<1> HIDE DEF depleted
<1>5. ASSUME NEW x, Kept(x)
      PROVE  Moves(r, x, a) /\ Loudly(r, x, a)
  <2>1. Stayed(r, x, a)
    <3>1. x.active[a] = r.active[a] => Same(x)
      BY <1>5 DEF Running
    <3> QED BY <1>5 DEF Stayed, Running
  <2>2. x.ended = r.ended \/ (Running(r, a) /\ x.active[a] # r.active[a] /\ Reported(r, x, a))
    BY <1>5 DEF Running
  <2>3. Running(r, a) /\ x.active[a] # r.active[a] => Reported(r, x, a)
    BY <1>5
  <2> QED BY <1>5, <2>1, <2>2, <2>3 DEF Moves, Loudly
<1> DEFINE e == End(depleted, a, "preempted", FALSE)
           f == [e EXCEPT !.fired = @ \cup {a}]
           g == Begin(f, a, name, "reflex")
           h == [g EXCEPT !.recovering = @ \cup {a}]
<1>6. Kept(e) /\ e.active[a] = NoAction
  <2>1. "preempted" \in Statuses
    BY DEF Statuses
  <2> QED BY <1>1, <1>4, <2>1
<1> HIDE DEF e
<1>7. f \in Runtime /\ f.active = e.active /\ f.recovering = e.recovering /\ f.nextAction = e.nextAction
      /\ f.traced = e.traced /\ f.ended = e.ended
  BY <1>6 DEF Runtime
<1> HIDE DEF f
<1>8. Kept(f) /\ f.active[a] = NoAction
  BY <1>6, <1>7 DEF Reported
<1>9. /\ g \in Runtime /\ g.active[a] = [id |-> r.nextAction, name |-> name, by |-> "reflex"]
      /\ \A c \in Agents \ {a} : g.active[c] = f.active[c] /\ (c \in g.recovering <=> c \in f.recovering)
      /\ g.nextAction = r.nextAction + 1
      /\ g.traced.started = r.traced.started \cup {<<r.nextAction, a>>}
      /\ g.ended = f.ended
  <2>1. f \in Runtime /\ "reflex" \in Callers /\ f.nextAction = r.nextAction /\ f.traced.started = r.traced.started
    BY <1>7, <1>8 DEF Callers
  <2>2. ~Running(f, a)
    BY <1>8 DEF Running
  <2>3. Begun(f, g, a, name, "reflex")
    BY <2>1, BeginMoves
  <2> HIDE DEF g
  <2> QED BY <2>1, <2>2, <2>3 DEF Begun
<1> HIDE DEF g
<1>10. /\ h \in Runtime /\ h.active = g.active /\ h.recovering = g.recovering \cup {a} /\ h.nextAction = g.nextAction
       /\ h.traced = g.traced /\ h.ended = g.ended
  BY <1>9 DEF Runtime
<1> HIDE DEF h
<1>11. Moves(r, h, a) /\ Loudly(r, h, a)
  <2>1. Entered(r, h, a, "reflex")
    BY <1>9, <1>10 DEF Entered
  <2>2. \A c \in Agents \ {a} : h.active[c] = r.active[c] /\ (c \in h.recovering <=> c \in r.recovering)
    BY <1>8, <1>9, <1>10
  <2>3. Running(r, a) => Reported(r, h, a)
    <3>1. Running(r, a) => Over(f)
      BY <1>8 DEF Running
    <3> QED BY <3>1, <1>9, <1>10 DEF Reported
  <2>4. ~Running(r, a) => h.ended = r.ended
    BY <1>8, <1>9, <1>10
  <2>6. "reflex" \in Callers
    BY DEF Callers
  <2>7. Running(r, a) => h.active[a] # r.active[a]
    <3>1. Running(r, a) => r.active[a].id < r.nextAction
      BY DEF IdsAreGiven
    <3> QED BY <3>1, <1>9, <1>10 DEF Runtime
  <2> QED BY <1>10, <2>1, <2>2, <2>3, <2>4, <2>6, <2>7 DEF Moves, Loudly
<1>12. Moves(r, depleted, a) /\ Loudly(r, depleted, a)
  BY <1>4, <1>5
<1>13. Moves(r, f, a) /\ Loudly(r, f, a)
  BY <1>5, <1>8
<1>14. ApplyBatteryReflex(depleted, a, level, name, refused) = IF Startable(level, refused) THEN h ELSE f
  BY DEF ApplyBatteryReflex, e, f, g, h
<1>15. RuntimeTick(r, a, outcome, level, name, refused) =
         IF BatteryReflexActs(depleted, a, level) THEN ApplyBatteryReflex(depleted, a, level, name, refused) ELSE depleted
  BY DEF RuntimeTick, depleted, stepped
<1> QED BY <1>11, <1>12, <1>13, <1>14, <1>15

(***************************************************************************)
(* The invariant of the missions                                           *)
(***************************************************************************)
\* A mission has returned a decision the world has not applied yet.
Pending(a) ==
  \/ a \in deciding /\ mission[a].answer # "none"
  \/ slots[a].state = "answered" /\ slots[a].answer.action # "none"

\* The ends and refusals a mission has not heard of, wherever they are.
StepKinds == {"rejected", "completed", "failed"}
IsEnd(e)  == e.kind \in {"completed", "failed"}
Unheard(a) ==
  {e \in EndedEvents(a) \cup inbox[a]
         \cup (IF slots[a].state = "open" /\ a \notin deciding THEN slots[a].events ELSE {}) :
     e.kind \in StepKinds}

\* The actions of an agent, and those its mission has started.
Ran(a)        == {x \in known : <<x.id, a>> \in rt.traced.started}
Count(a)      == Cardinality(Started(a))
Latest(a, id) == \E x \in Started(a) : x.id = id /\ \A y \in Started(a) : y.id <= id

\* The refusal of the mission's step, or its end.
OfStep(a, e) ==
  \/ e.kind = "rejected"
  \/ IsEnd(e) /\ Latest(a, e.subject) /\ Count(a) = mission[a].cursor

Mission ==
  [steps : Lists, cursor : Nat, answer : Names \cup {"none"}, phase : {"ready", "running", "stopped", "done"}]
MissionTypes ==
  /\ mission \in [Minded -> Mission]
  /\ IsFiniteSet(known) /\ known \subseteq Action /\ fates \subseteq Ended

\* The records are those of the runtime: what runs is known and has not ended, what
\* has ended is known to have.
KnownOK ==
  /\ \A x \in known : x.name \in Names /\ x.by \in Callers /\ 0 < x.id /\ x.id < rt.nextAction
  /\ \A x, y \in known : x.id = y.id => x = y
  /\ \A a \in Missioned : Running(rt, a) => rt.active[a] \in known
  /\ \A f \in fates : 0 < f.id /\ f.id < rt.nextAction
  /\ \A a \in Missioned, f \in fates : f.id # rt.active[a].id
  /\ \A i \in 1..Len(rt.ended) : rt.ended[i].agent \in Missioned => rt.ended[i] \in fates

\* A mission's answer is the step it runs, and while it is asked nothing waits for it.
StateOK(a) ==
  LET m == mission[a] IN
  /\ m.cursor \in 0..Len(m.steps)
  /\ m.cursor = 0 <=> m.phase = "ready"
  /\ m.answer # "none" => m.phase = "running" /\ m.answer = m.steps[m.cursor]
  /\ slots[a].state = "answered" => slots[a].answer.timers = <<>> /\ slots[a].answer.action = m.answer
  /\ slots[a].state # "free" => inbox[a] = {}

\* How many steps it has started: all up to its cursor, or all but the one it has
\* decided, or was refused.
CountOK(a) ==
  LET m == mission[a] IN
  /\ Count(a) \in {m.cursor - 1, m.cursor}
  /\ m.phase = "ready" => Count(a) = 0
  /\ m.phase = "done" => Count(a) = Len(m.steps) /\ m.cursor = Len(m.steps)
  /\ Pending(a) => m.phase = "running" /\ Count(a) = m.cursor - 1
  /\ (m.phase = "running" /\ ~Pending(a) /\ Count(a) = m.cursor - 1) <=> \E e \in Unheard(a) : e.kind = "rejected"
StoppedOK(a) ==
  LET m == mission[a] IN
  m.phase = "stopped" =>
    \/ Count(a) = m.cursor - 1
    \/ \E x \in Started(a), status \in {"failed", "preempted"} : Latest(a, x.id) /\ EndedAs(x.id, status)
    \/ \E x \in known : x.by = "world" /\ x.name = m.steps[m.cursor] /\ EndedAs(x.id, "preempted")

\* What it has started follows its list.
ListOK(a) ==
  LET m == mission[a] IN
  \A x \in Started(a) :
    /\ x.name = m.steps[Nth(a, x)]
    /\ Nth(a, x) < m.cursor \/ m.phase = "done" => EndedAs(x.id, "succeeded")

\* Its step runs, or it is still to hear of its end.
ActiveOK(a) ==
  LET m == mission[a] IN
  /\ rt.active[a].by = "mind" => Latest(a, rt.active[a].id) /\ Count(a) = m.cursor /\ m.phase \in {"running", "stopped"}
  /\ rt.active[a].by = "reflex" => a \in rt.recovering
  /\ Running(rt, a) => \A x \in Ran(a) : x.id <= rt.active[a].id
  /\ m.phase = "running" /\ Count(a) = m.cursor =>
       rt.active[a].by = "mind" \/ \E e \in Unheard(a) : IsEnd(e) /\ Latest(a, e.subject)

\* What it is still to hear of an action called like its step is about that step, or
\* it hears of the step first, or a command replaced the researcher's own action.
OfCommand(e, x) == e.kind = "failed" /\ x.by = "world" /\ EndedAs(x.id, "preempted")
HeardInTime(a, e, x) ==
  \/ OfStep(a, e)
  \/ \E f \in Unheard(a) : OfStep(a, f) /\ Before(f, e)
  \/ OfCommand(e, x)
\* The agent's turn in the tick's actions is over.
Acted(a) == pc \in {"asks", "idle", "failed"} \/ (pc = "actions" /\ turn > a)
EventOK(a, e) ==
  LET m == mission[a] IN
  /\ e \in Event /\ e.tick <= tick
  /\ e.kind = "completed" /\ e.tick = tick => Acted(a)
  /\ IsEnd(e) => \E x \in Ran(a) :
       /\ x.id = e.subject
       /\ e.kind = "completed" => EndedAs(x.id, "succeeded")
       /\ e.kind = "failed" => EndedAs(x.id, "failed") \/ EndedAs(x.id, "preempted")
       /\ m.phase = "running" /\ x.name = m.steps[m.cursor] => HeardInTime(a, e, x)

FollowsOK(a) ==
  /\ CountOK(a) /\ StoppedOK(a) /\ ListOK(a) /\ ActiveOK(a)
  /\ \A e \in Unheard(a) : EventOK(a, e)
MissionInv == MissionTypes /\ KnownOK /\ \A a \in Missioned : StateOK(a) /\ FollowsOK(a)

(***************************************************************************)
(* What the mission computes from its events                               *)
(***************************************************************************)
\* The place of a record among those with lower IDs.
LEMMA Places ==
  ASSUME NEW S, IsFiniteSet(S), \A x \in S : x.id \in Nat, NEW x \in S
  PROVE  LET place == Cardinality({y \in S : y.id <= x.id}) IN
         /\ place \in Nat /\ place >= 1 /\ place <= Cardinality(S)
         /\ place = Cardinality(S) <=> \A y \in S : y.id <= x.id
<1> DEFINE T == {y \in S : y.id <= x.id}
<1>1. T \subseteq S /\ x \in T
  OBVIOUS
<1>2. T = S <=> \A y \in S : y.id <= x.id
  OBVIOUS
<1> HIDE DEF T
<1>3. /\ IsFiniteSet(T) /\ Cardinality(T) <= Cardinality(S)
      /\ Cardinality(T) = Cardinality(S) => T = S
  BY <1>1, FS_Subset
<1>4. Cardinality(T) \in Nat /\ Cardinality(T) # 0
  BY <1>1, <1>3, FS_CardinalityType, FS_EmptySet
<1> QED BY <1>2, <1>3, <1>4 DEF T

\* Among the events that concern a mission one comes first.
LEMMA OneComesFirst ==
  ASSUME NEW S, S \subseteq Event, \A e \in S : e.kind \in StepKinds, S # {}
  PROVE  \E e \in S : \A f \in S : ~Before(f, e)
<1>0. \A e \in S : e.tick \in Nat /\ Rank(e) \in Nat /\ About(e) \in Nat /\ e.seq \in Nat
  <2>1. ASSUME NEW e \in S
        PROVE  e.tick \in Nat /\ Rank(e) \in Nat /\ About(e) \in Nat /\ e.seq \in Nat
    <3>1. e \in Event /\ e.kind \in StepKinds
      BY <2>1
    <3>2. e.tick \in Nat /\ e.seq \in Nat
      BY <3>1 DEF Event
    <3>3. Rank(e) \in Nat
      BY <3>1 DEF StepKinds, Rank
    <3>4. About(e) \in Nat
      BY <3>1 DEF Event, StepKinds, About
    <3> QED BY <3>2, <3>3, <3>4
  <2> QED BY <2>1
<1> DEFINE T1 == {e.tick : e \in S}
<1>1. PICK t \in T1 : \A y \in T1 : t <= y
  <2>1. T1 \subseteq Nat /\ T1 # {}
    BY <1>0
  <2> HIDE DEF T1
  <2> QED BY <2>1, LeastNumber
<1> DEFINE S2 == {e \in S : e.tick = t}
           T2 == {Rank(e) : e \in S2}
<1>2. PICK r \in T2 : \A y \in T2 : r <= y
  <2>1. T2 \subseteq Nat /\ T2 # {}
    BY <1>0, <1>1
  <2> HIDE DEF T2
  <2> QED BY <2>1, LeastNumber
<1> DEFINE S3 == {e \in S2 : Rank(e) = r}
           T3 == {About(e) : e \in S3}
<1>3. PICK b \in T3 : \A y \in T3 : b <= y
  <2>1. T3 \subseteq Nat /\ T3 # {}
    BY <1>0, <1>2
  <2> HIDE DEF T3
  <2> QED BY <2>1, LeastNumber
<1> DEFINE S4 == {e \in S3 : About(e) = b}
           T4 == {e.seq : e \in S4}
<1>4. PICK q \in T4 : \A y \in T4 : q <= y
  <2>1. T4 \subseteq Nat /\ T4 # {}
    BY <1>0, <1>3
  <2> HIDE DEF T4
  <2> QED BY <2>1, LeastNumber
<1>5. PICK e \in S4 : e.seq = q
  BY <1>4
<1>6. e \in S /\ e.tick = t /\ Rank(e) = r /\ About(e) = b /\ e.seq = q
  BY <1>5
<1>7. ASSUME NEW f \in S PROVE ~Before(f, e)
  <2>1. /\ t <= f.tick
        /\ f.tick = t => r <= Rank(f)
        /\ f.tick = t /\ Rank(f) = r => b <= About(f)
        /\ f.tick = t /\ Rank(f) = r /\ About(f) = b => q <= f.seq
    BY <1>1, <1>2, <1>3, <1>4
  <2>2. t \in Nat /\ r \in Nat /\ b \in Nat /\ q \in Nat
    BY <1>0, <1>6
  <2> QED BY <1>0, <1>6, <2>1, <2>2 DEF Before
<1> QED BY <1>6, <1>7

\* What is dropped over the cap concerns no mission.
LEMMA PreviewKeeps ==
  ASSUME NEW events, NEW m
  PROVE  {e \in Preview(events) : Concerns(e, m)} = {e \in events : Concerns(e, m)}
BY DEF Preview, Concerns, IsControl, ControlKinds

(***************************************************************************)
(* The records                                                             *)
(***************************************************************************)
\* What a step of the world adds to them.
Recorded ==
  /\ known' = known \cup ({rt'.active[a] : a \in Missioned} \ {NoAction})
  /\ fates' = fates \cup {e \in ToSet(rt'.ended) : e.agent \in Missioned}
  /\ UNCHANGED mission

\* The ends that are already waiting are recorded.
LEMMA FatesGrow ==
  ASSUME rt \in Runtime, KnownOK, Recorded
  PROVE  /\ rt'.ended = rt.ended \/ rt'.ended = <<>> => fates' = fates
         /\ \A e \in Ended : rt'.ended = Append(rt.ended, e) =>
              fates' = fates \cup (IF e.agent \in Missioned THEN {e} ELSE {})
<1>0. rt.ended \in Seq(Ended)
  BY DEF Runtime
<1>1. ASSUME rt'.ended = rt.ended PROVE fates' = fates
  <2>1. \A e \in ToSet(rt'.ended) : e.agent \in Missioned => e \in fates
    BY <1>0, <1>1 DEF KnownOK, ToSet
  <2> QED BY <2>1 DEF Recorded
<1>2. ASSUME rt'.ended = <<>> PROVE fates' = fates
  <2>1. ToSet(rt'.ended) = {}
    BY <1>2 DEF ToSet
  <2> QED BY <2>1 DEF Recorded
<1>3. ASSUME NEW e \in Ended, rt'.ended = Append(rt.ended, e)
      PROVE  fates' = fates \cup (IF e.agent \in Missioned THEN {e} ELSE {})
  <2> DEFINE s == Append(rt.ended, e)
  <2>1. /\ Len(s) = Len(rt.ended) + 1 /\ s \in Seq(Ended)
        /\ \A i \in 1..Len(rt.ended) : s[i] = rt.ended[i]
        /\ s[Len(rt.ended) + 1] = e
    BY <1>0, AppendedOne
  <2> HIDE DEF s
  <2>2. DOMAIN s = 1..Len(rt.ended) + 1 /\ Len(rt.ended) \in Nat
    BY <1>0, <2>1
  <2>3. \A i \in DOMAIN s : s[i] = e \/ (s[i].agent \in Missioned => s[i] \in fates)
    BY <2>1, <2>2 DEF KnownOK
  <2>4. \A f \in ToSet(s) : f = e \/ (f.agent \in Missioned => f \in fates)
    BY <2>3 DEF ToSet
  <2>5. e \in ToSet(s)
    BY <2>1, <2>2 DEF ToSet
  <2>6. fates' = fates \cup {f \in ToSet(s) : f.agent \in Missioned}
    BY <1>3 DEF Recorded, s
  <2> QED BY <2>4, <2>5, <2>6
<1> QED BY <1>1, <1>2, <1>3

\* A step that leaves the actions alone adds nothing.
LEMMA RecordsStay ==
  ASSUME rt \in Runtime, MissionTypes, KnownOK, Recorded, rt'.active = rt.active,
         rt'.ended = rt.ended \/ rt'.ended = <<>>, rt'.nextAction = rt.nextAction,
         rt'.traced.started = rt.traced.started
  PROVE  /\ MissionTypes' /\ KnownOK' /\ Missioned' = Missioned
         /\ known' = known /\ fates' = fates
         /\ \A a \in Agents : Ran(a)' = Ran(a) /\ Started(a)' = Started(a)
<1>1. fates' = fates /\ mission' = mission
  BY FatesGrow DEF Recorded
<1>2. Missioned' = Missioned
  BY <1>1 DEF Missioned, OnMission
<1>3. known' = known
  BY DEF Recorded, KnownOK, Running
<1>4. MissionTypes'
  BY <1>1, <1>3 DEF MissionTypes
<1>5. KnownOK'
  <2>1. \A i \in 1..Len(rt'.ended) : rt'.ended[i] \in fates \/ rt'.ended[i].agent \notin Missioned
    BY DEF KnownOK
  <2> QED BY <1>1, <1>2, <1>3, <2>1 DEF KnownOK, Running
<1> QED BY <1>1, <1>2, <1>3, <1>4, <1>5 DEF Ran, Started

\* A step that runs an agent records its new action and its old one's end.
LEMMA RecordsMove ==
  ASSUME rt \in Runtime, IdsAreGiven(rt), MissionTypes, KnownOK, Recorded,
         NEW b \in Agents, Moves(rt, rt', b)
  PROVE  /\ MissionTypes' /\ KnownOK' /\ Missioned' = Missioned
         /\ known \subseteq known' /\ fates \subseteq fates'
         /\ \A a \in Missioned \ {b} : Ran(a)' = Ran(a) /\ Started(a)' = Started(a)
         /\ b \in Missioned /\ Stayed(rt, rt', b) => Ran(b)' = Ran(b) /\ Started(b)' = Started(b)
         /\ \A by \in Callers : b \in Missioned /\ Entered(rt, rt', b, by) =>
              /\ Ran(b)' = Ran(b) \cup {rt'.active[b]}
              /\ Started(b)' = Started(b) \cup (IF by = "mind" THEN {rt'.active[b]} ELSE {})
         /\ \A status \in Statuses : LET e == [agent |-> b, id |-> rt.active[b].id, status |-> status] IN
              b \in Missioned /\ rt'.ended = Append(rt.ended, e) => e \in fates'
<1> DEFINE new == rt'.active[b]
           n == rt.nextAction
           old == rt.active[b].id
<1>0. /\ rt' \in Runtime /\ n \in Nat /\ n > 0 /\ Missioned \subseteq Agents
      /\ rt.active \in [Agents -> Action] /\ old \in Nat
      /\ mission' = mission /\ Missioned' = Missioned /\ NoAction.id = 0
      /\ known \subseteq known' /\ fates \subseteq fates'
  <2>1. /\ rt' \in Runtime /\ n \in Nat /\ n > 0 /\ rt.active \in [Agents -> Action] /\ NoAction.id = 0
    BY DEF Moves, Runtime, NoAction
  <2>2. old \in Nat
    BY <2>1 DEF Action
  <2>3. Missioned \subseteq Agents /\ mission' = mission /\ Missioned' = Missioned
    BY WorldAssumption DEF Missioned, OnMission, Recorded
  <2> QED BY <2>1, <2>2, <2>3 DEF Recorded
<1>1. new = rt.active[b] \/ new = NoAction \/ (new.id = n /\ new.name \in Names /\ new.by \in Callers /\ new \in Action)
  <2>1. Stayed(rt, rt', b) => new = rt.active[b] \/ new = NoAction
    BY DEF Stayed
  <2>2. ASSUME NEW by \in Callers, Entered(rt, rt', b, by)
        PROVE  new.id = n /\ new.name \in Names /\ new.by \in Callers
    BY <2>2 DEF Entered
  <2>3. new \in Action
    BY <1>0 DEF Runtime
  <2> QED BY <2>1, <2>2, <2>3 DEF Moves
<1>2. rt'.nextAction \in Nat /\ n <= rt'.nextAction /\ (new.id = n => n < rt'.nextAction)
  <2>1. Stayed(rt, rt', b) => rt'.nextAction = n /\ new.id # n
    <3>1. Running(rt, b) => old < n
      BY DEF IdsAreGiven
    <3> QED BY <1>0, <3>1 DEF Stayed, Running
  <2>2. \A by : Entered(rt, rt', b, by) => rt'.nextAction = n + 1
    BY DEF Entered
  <2> QED BY <1>0, <2>1, <2>2 DEF Moves
<1>3. known' = known \cup (IF b \in Missioned /\ new # NoAction THEN {new} ELSE {})
  <2>1. \A a \in Missioned \ {b} : rt'.active[a] = rt.active[a] /\ (rt'.active[a] # NoAction => rt'.active[a] \in known)
    BY <1>0 DEF Moves, KnownOK, Running
  <2> QED BY <2>1 DEF Recorded
<1>4. fates' = fates \/ (Running(rt, b) /\ new # rt.active[b] /\ \E e \in Ended : e.id = old /\ fates' = fates \cup {e})
  <2>1. CASE rt'.ended = rt.ended
    BY <2>1, FatesGrow
  <2>2. CASE Running(rt, b) /\ new # rt.active[b] /\ Reported(rt, rt', b)
    <3>1. PICK status \in Statuses : rt'.ended = Append(rt.ended, [agent |-> b, id |-> old, status |-> status])
      BY <2>2 DEF Reported
    <3> DEFINE e == [agent |-> b, id |-> old, status |-> status]
    <3>2. e \in Ended /\ e.agent = b /\ e.id = old
      BY <1>0 DEF Ended
    <3>3. rt'.ended = Append(rt.ended, e)
      BY <3>1
    <3> HIDE DEF e
    <3>4. fates' = fates \cup (IF b \in Missioned THEN {e} ELSE {})
      BY <3>2, <3>3, FatesGrow
    <3> QED BY <2>2, <3>2, <3>4
  <2> QED BY <2>1, <2>2 DEF Moves
<1>5. ASSUME NEW status \in Statuses, b \in Missioned,
             rt'.ended = Append(rt.ended, [agent |-> b, id |-> old, status |-> status])
      PROVE  [agent |-> b, id |-> old, status |-> status] \in fates'
  <2> DEFINE e == [agent |-> b, id |-> old, status |-> status]
  <2>1. e \in Ended /\ e.agent = b
    BY <1>0 DEF Ended
  <2>2. rt'.ended = Append(rt.ended, e)
    BY <1>5
  <2> HIDE DEF e
  <2>3. fates' = fates \cup (IF b \in Missioned THEN {e} ELSE {})
    BY <2>1, <2>2, FatesGrow
  <2> QED BY <1>5, <2>3 DEF e
<1> HIDE DEF new, n, old
<1>6. MissionTypes'
  <2>1. IsFiniteSet(known') /\ known' \subseteq Action
    <3>1. new \in Action
      BY <1>0 DEF Runtime, new
    <3>2. IsFiniteSet(known \cup {new}) /\ known' \subseteq known \cup {new}
      BY <1>3, FS_AddElement DEF MissionTypes
    <3>3. IsFiniteSet(known')
      BY <3>2, FS_Subset
    <3> QED BY <1>3, <3>1, <3>3 DEF MissionTypes
  <2>2. fates' \subseteq Ended
    BY <1>4 DEF MissionTypes
  <2> QED BY <1>0, <2>1, <2>2 DEF MissionTypes
<1>7. KnownOK'
  <2>1. \A x \in known : 0 < x.id /\ x.id < n /\ x.id \in Nat /\ x.name \in Names /\ x.by \in Callers
    BY DEF KnownOK, MissionTypes, Action, n
  <2>2. b \in Missioned /\ new # NoAction => new \in known \/ (new.id = n /\ new.name \in Names /\ new.by \in Callers)
    BY <1>1 DEF KnownOK, Running, new
  <2>3. \A x \in known' : x.name \in Names /\ x.by \in Callers /\ 0 < x.id /\ x.id < rt'.nextAction
    BY <1>0, <1>2, <1>3, <2>1, <2>2
  <2>4. \A x, y \in known' : x.id = y.id => x = y
    <3>1. \A x, y \in known : x.id = y.id => x = y
      BY DEF KnownOK
    <3> QED BY <1>0, <1>3, <2>1, <2>2, <3>1
  <2>5. ASSUME NEW a \in Missioned, Running(rt', a) PROVE rt'.active[a] \in known'
    <3>1. a # b => rt'.active[a] = rt.active[a]
      BY <1>0 DEF Moves
    <3>2. a # b => rt'.active[a] \in known
      BY <2>5, <3>1 DEF KnownOK, Running
    <3> QED BY <1>3, <2>5, <3>2 DEF Running, new
  <2>6. Running(rt, b) => 0 < old /\ old < n
    BY DEF IdsAreGiven, old, n
  <2>7. \A f \in fates' : 0 < f.id /\ f.id < rt'.nextAction
    <3>1. \A f \in fates : 0 < f.id /\ f.id < n /\ f.id \in Nat
      BY DEF KnownOK, MissionTypes, Ended, n
    <3>2. \A f \in fates' : f \in fates \/ (Running(rt, b) /\ f.id = old)
      BY <1>4
    <3> QED BY <1>0, <1>2, <2>6, <3>1, <3>2
  <2>8. ASSUME NEW a \in Missioned, NEW f \in fates' PROVE f.id # rt'.active[a].id
    <3>0. a \in Agents /\ \A g \in fates : 0 < g.id /\ g.id < n /\ g.id \in Nat /\ g.id # rt.active[a].id
      BY <1>0, <2>8 DEF KnownOK, MissionTypes, Ended, n
    <3>1. CASE a = b
      <4>1. new.id = n \/ new = NoAction \/ new = rt.active[b]
        BY <1>1
      <4>2. f \in fates \/ (Running(rt, b) /\ f.id = old /\ new # rt.active[b])
        BY <1>4
      <4>3. f \in fates => f.id # new.id
        BY <1>0, <3>0, <3>1, <4>1
      <4>4. f.id = old /\ Running(rt, b) /\ new # rt.active[b] => f.id # new.id
        BY <1>0, <2>6, <4>1
      <4> QED BY <3>1, <4>2, <4>3, <4>4 DEF new
    <3>2. CASE a # b
      <4>1. rt'.active[a] = rt.active[a]
        BY <3>0, <3>2 DEF Moves
      <4>2. f \in fates \/ (Running(rt, b) /\ f.id = old)
        BY <1>4
      <4>3. Running(rt, b) => old # rt.active[a].id
        <5>1. CASE Running(rt, a)
          BY <3>0, <3>2, <5>1 DEF IdsAreGiven, old
        <5>2. CASE ~Running(rt, a)
          BY <1>0, <2>6, <5>2 DEF Running
        <5> QED BY <5>1, <5>2
      <4> QED BY <3>0, <4>1, <4>2, <4>3
    <3> QED BY <3>1, <3>2
  <2>9. \A i \in 1..Len(rt'.ended) : rt'.ended[i].agent \in Missioned => rt'.ended[i] \in fates'
    <3>1. rt'.ended \in Seq(Ended)
      BY <1>0 DEF Runtime
    <3> QED BY <3>1 DEF Recorded, ToSet
  <2> QED BY <1>0, <2>3, <2>4, <2>5, <2>7, <2>8, <2>9 DEF KnownOK
<1>8. ASSUME NEW a \in Missioned \ {b} PROVE Ran(a)' = Ran(a)
  <2>1. rt'.traced.started = rt.traced.started \/ rt'.traced.started = rt.traced.started \cup {<<n, b>>}
    BY DEF Moves, Stayed, Entered, n
  <2>2. b \in Missioned /\ new # NoAction => new \in known \/ (new.id = n /\ <<n, a>> \notin rt.traced.started)
    <3>1. <<n, a>> \notin rt.traced.started
      BY <1>0 DEF IdsAreGiven, n
    <3> QED BY <1>1, <3>1 DEF KnownOK, Running, new
  <2>3. \A x \in known' \ known : <<x.id, a>> \notin rt.traced.started
    BY <1>3, <2>2
  <2>4. \A x \in known' : <<x.id, a>> \in rt'.traced.started <=> <<x.id, a>> \in rt.traced.started
    BY <2>1, <1>8
  <2> QED BY <1>0, <2>3, <2>4 DEF Ran
<1>9. ASSUME b \in Missioned, Stayed(rt, rt', b) PROVE Ran(b)' = Ran(b)
  <2>1. rt'.traced.started = rt.traced.started /\ (new = NoAction \/ new = rt.active[b])
    BY <1>9 DEF Stayed, new
  <2>2. known' = known
    BY <1>3, <2>1 DEF KnownOK, Running
  <2> QED BY <2>1, <2>2 DEF Ran
<1>10. ASSUME NEW by \in Callers, b \in Missioned, Entered(rt, rt', b, by)
       PROVE  Ran(b)' = Ran(b) \cup {rt'.active[b]} /\ rt'.active[b].by = by
  <2>1. rt'.traced.started = rt.traced.started \cup {<<n, b>>} /\ new.id = n /\ new.by = by /\ new # NoAction
    BY <1>0, <1>10 DEF Entered, n, new, NoAction, Callers
  <2>2. known' = known \cup {new}
    BY <1>3, <1>10, <2>1
  <2>3. \A x \in known : <<x.id, b>> \in rt'.traced.started <=> <<x.id, b>> \in rt.traced.started
    <3>1. \A x \in known : x.id # n
      BY <1>0 DEF KnownOK, MissionTypes, Action, n
    <3> QED BY <2>1, <3>1
  <2> QED BY <2>1, <2>2, <2>3 DEF Ran, new
<1>11. \A a : Started(a) = {x \in Ran(a) : x.by = "mind"} /\ Started(a)' = {x \in Ran(a)' : x.by = "mind"}
  BY DEF Started, Ran
<1>12. \A a \in Missioned \ {b} : Ran(a)' = Ran(a) /\ Started(a)' = Started(a)
  BY <1>8, <1>11
<1>13. b \in Missioned /\ Stayed(rt, rt', b) => Ran(b)' = Ran(b) /\ Started(b)' = Started(b)
  BY <1>9, <1>11
<1>14. \A by \in Callers : b \in Missioned /\ Entered(rt, rt', b, by) =>
         /\ Ran(b)' = Ran(b) \cup {rt'.active[b]}
         /\ Started(b)' = Started(b) \cup (IF by = "mind" THEN {rt'.active[b]} ELSE {})
  BY <1>10, <1>11
<1> QED BY <1>0, <1>5, <1>6, <1>7, <1>12, <1>13, <1>14 DEF old

(***************************************************************************)
(* What keeps a mission on its list                                        *)
(***************************************************************************)
\* The tick in which an event may have happened goes on or is over.
Later(a) == \/ tick' = tick /\ (Acted(a) => Acted(a)')
            \/ tick' \in Nat /\ tick' > tick

\* A step that does not move the agent, its mission or its events.
LEMMA NothingMoves ==
  ASSUME NEW a \in Missioned, FollowsOK(a), tick \in Nat, mission'[a] = mission[a],
         Ran(a)' = Ran(a), Unheard(a)' = Unheard(a), Pending(a)' <=> Pending(a),
         rt'.active[a] = rt.active[a], a \in rt.recovering => a \in rt'.recovering,
         known \subseteq known', fates \subseteq fates', Later(a)
  PROVE  FollowsOK(a)'
<1>1. Started(a)' = Started(a)
  <2>1. Started(a) = {x \in Ran(a) : x.by = "mind"} /\ Started(a)' = {x \in Ran(a)' : x.by = "mind"}
    BY DEF Started, Ran
  <2> QED BY <2>1
<1>2. /\ Count(a)' = Count(a)
      /\ \A x : Nth(a, x)' = Nth(a, x)
      /\ \A id : Latest(a, id)' <=> Latest(a, id)
      /\ \A id, status : EndedAs(id, status) => EndedAs(id, status)'
      /\ \A e : OfStep(a, e)' <=> OfStep(a, e)
      /\ Running(rt, a)' <=> Running(rt, a)
  BY <1>1 DEF Count, Nth, Latest, EndedAs, OfStep, Running
<1>3. CountOK(a)' /\ StoppedOK(a)'
  <2>1. CountOK(a)'
    BY <1>2 DEF FollowsOK, CountOK
  <2>2. StoppedOK(a)'
    BY <1>1, <1>2 DEF FollowsOK, StoppedOK
  <2> QED BY <2>1, <2>2
<1>4. ListOK(a)'
  BY <1>1, <1>2 DEF FollowsOK, ListOK
<1>5. ActiveOK(a)'
  BY <1>1, <1>2 DEF FollowsOK, ActiveOK
<1>6. ASSUME NEW e \in Unheard(a)' PROVE EventOK(a, e)'
  <2>1. e \in Unheard(a) /\ EventOK(a, e)
    BY <1>6 DEF FollowsOK
  <2>2. e.tick \in Nat
    BY <2>1 DEF EventOK, Event
  <2>3. e \in Event /\ e.tick <= tick' /\ (e.kind = "completed" /\ e.tick = tick' => Acted(a)')
    BY <2>1, <2>2 DEF EventOK, Later
  <2>4. \A x : HeardInTime(a, e, x) => HeardInTime(a, e, x)'
    BY <1>2 DEF HeardInTime, OfCommand
  <2>5. IsEnd(e) => \E x \in Ran(a)' :
          /\ x.id = e.subject
          /\ e.kind = "completed" => EndedAs(x.id, "succeeded")'
          /\ e.kind = "failed" => EndedAs(x.id, "failed")' \/ EndedAs(x.id, "preempted")'
          /\ mission'[a].phase = "running" /\ x.name = mission'[a].steps[mission'[a].cursor] => HeardInTime(a, e, x)'
    BY <1>2, <2>1, <2>4 DEF EventOK
  <2> QED BY <2>3, <2>5 DEF EventOK
<1> QED BY <1>3, <1>4, <1>5, <1>6 DEF FollowsOK

\* The event of an end.
EndEvent(e) == NewEvent(IF e.status = "succeeded" THEN "completed" ELSE "failed", e.id, tick, 0)
\* The ends of an agent that wait to be collected: those that waited, and the new one if it is the agent's.
LEMMA NewEnds ==
  ASSUME rt \in Runtime, tick' = tick, NEW a
  PROVE  /\ rt'.ended = rt.ended => EndedEvents(a)' = EndedEvents(a)
         /\ \A e \in Ended : rt'.ended = Append(rt.ended, e) =>
              EndedEvents(a)' = EndedEvents(a) \cup (IF e.agent = a THEN {EndEvent(e)} ELSE {})
<1>1. rt'.ended = rt.ended => EndedEvents(a)' = EndedEvents(a)
  BY DEF EndedEvents
<1>2. ASSUME NEW e \in Ended, rt'.ended = Append(rt.ended, e)
      PROVE  EndedEvents(a)' = EndedEvents(a) \cup (IF e.agent = a THEN {EndEvent(e)} ELSE {})
  <2> DEFINE s == rt'.ended
             n == Len(rt.ended)
  <2>1. /\ Len(s) = n + 1 /\ n \in Nat /\ s[n + 1] = e
        /\ \A i \in 1..n : s[i] = rt.ended[i]
    <3>1. rt.ended \in Seq(Ended)
      BY DEF Runtime
    <3> QED BY <1>2, <3>1, AppendedOne
  <2>2. /\ EndedEvents(a) = {EndEvent(rt.ended[i]) : i \in {j \in 1..n : rt.ended[j].agent = a}}
        /\ EndedEvents(a)' = {EndEvent(s[i]) : i \in {j \in 1..Len(s) : s[j].agent = a}}
    BY DEF EndedEvents, EndEvent
  <2> HIDE DEF s, n
  <2>3. {j \in 1..Len(s) : s[j].agent = a} =
          {j \in 1..n : rt.ended[j].agent = a} \cup (IF e.agent = a THEN {n + 1} ELSE {})
    BY <2>1
  <2> DEFINE ev(x) == EndEvent(x)
  <2> HIDE DEF ev
  <2>4. {ev(s[i]) : i \in {j \in 1..Len(s) : s[j].agent = a}} =
          {ev(rt.ended[i]) : i \in {j \in 1..n : rt.ended[j].agent = a}} \cup (IF e.agent = a THEN {ev(e)} ELSE {})
    <3>1. \A i \in {j \in 1..n : rt.ended[j].agent = a} : s[i] = rt.ended[i]
      BY <2>1
    <3> QED BY <2>1, <2>3, <3>1
  <2> QED BY <2>2, <2>4 DEF ev
<1> QED BY <1>1, <1>2

\* An agent with a pending decision is asked or answered: it does not recover, and
\* no action runs before the decision is applied.
LEMMA PendingWaits ==
  ASSUME IInv, NEW a \in Agents, Pending(a)
  PROVE  a \notin rt.recovering /\ pc # "actions" /\ slots[a].state # "free"
BY DEF IInv, Pending, LockstepPhases, NoRequestWhileRecovering, Open

\* A command, or the agent's turn in the actions: what ends is told, in the order the
\* ends happen in, and nothing is started for the mission.
LEMMA LoudStep ==
  ASSUME Inv, MissionInv, Recorded, NEW a \in Missioned, Moves(rt, rt', a), Loudly(rt, rt', a),
         pc = "inputs" \/ (pc = "actions" /\ turn = a /\ Acted(a)'),
         pc = "inputs" => rt'.ended = rt.ended
                          \/ rt'.ended = Append(rt.ended, [agent |-> a, id |-> rt.active[a].id, status |-> "preempted"]),
         UNCHANGED <<tick, inbox, slots, deciding>>
  PROVE  FollowsOK(a)'
<1> DEFINE new == rt'.active[a]
           m == mission[a]
<1>p. PICK old : old = rt.active[a]
  OBVIOUS
<1> USE <1>p
<1>0. /\ IInv /\ rt \in Runtime /\ rt' \in Runtime /\ tick \in Nat /\ IdsAreGiven(rt) /\ a \in Agents
      /\ MissionTypes /\ KnownOK /\ StateOK(a) /\ FollowsOK(a) /\ mission'[a] = mission[a]
  BY WorldAssumption DEF Inv, IInv, TypeOK, FatesInv, Fated, MissionInv, Moves, Missioned, Recorded
<1>1. /\ MissionTypes' /\ KnownOK' /\ known \subseteq known' /\ fates \subseteq fates'
      /\ Stayed(rt, rt', a) => Ran(a)' = Ran(a) /\ Started(a)' = Started(a)
      /\ \A by \in Callers : Entered(rt, rt', a, by) =>
           /\ Ran(a)' = Ran(a) \cup {new}
           /\ Started(a)' = Started(a) \cup (IF by = "mind" THEN {new} ELSE {})
      /\ \A status \in Statuses : LET e == [agent |-> a, id |-> old.id, status |-> status] IN
           rt'.ended = Append(rt.ended, e) => e \in fates'
  <2> HIDE DEF new
  <2>1. /\ MissionTypes' /\ KnownOK' /\ known \subseteq known' /\ fates \subseteq fates'
        /\ Stayed(rt, rt', a) => Ran(a)' = Ran(a) /\ Started(a)' = Started(a)
    BY <1>0, RecordsMove
  <2>2. \A by \in Callers : Entered(rt, rt', a, by) =>
           /\ Ran(a)' = Ran(a) \cup {rt'.active[a]}
           /\ Started(a)' = Started(a) \cup (IF by = "mind" THEN {rt'.active[a]} ELSE {})
    BY <1>0, RecordsMove
  <2>3. \A status \in Statuses : LET e == [agent |-> a, id |-> rt.active[a].id, status |-> status] IN
           rt'.ended = Append(rt.ended, e) => e \in fates'
    BY <1>0, RecordsMove
  <2> QED BY <2>1, <2>2, <2>3 DEF new
<1>2. Started(a)' = Started(a) /\ Ran(a) \subseteq Ran(a)' /\ Ran(a)' \subseteq Ran(a) \cup {new}
  <2>1. "world" \in Callers /\ "reflex" \in Callers
    BY DEF Callers
  <2>2. CASE Stayed(rt, rt', a)
    BY <1>1, <2>2
  <2>3. ASSUME NEW by \in {"world", "reflex"}, Entered(rt, rt', a, by)
        PROVE  Started(a)' = Started(a) /\ Ran(a) \subseteq Ran(a)' /\ Ran(a)' \subseteq Ran(a) \cup {new}
    BY <1>1, <2>1, <2>3
  <2> QED BY <2>2, <2>3 DEF Loudly
<1>3. Pending(a)' <=> Pending(a)
  BY <1>0 DEF Pending
<1>4. Unheard(a)' = Unheard(a) \cup {e \in EndedEvents(a)' : e.kind \in StepKinds}
  <2>1. EndedEvents(a) \subseteq EndedEvents(a)'
    <3>1. rt'.ended = rt.ended => EndedEvents(a)' = EndedEvents(a)
      BY <1>0, NewEnds
    <3>2. ASSUME NEW status \in Statuses, rt'.ended = Append(rt.ended, [agent |-> a, id |-> old.id, status |-> status])
          PROVE  EndedEvents(a) \subseteq EndedEvents(a)'
      <4> DEFINE e == [agent |-> a, id |-> old.id, status |-> status]
      <4>1. e \in Ended
        BY <1>0 DEF Ended, Runtime, Action
      <4>2. rt'.ended = Append(rt.ended, e)
        BY <3>2
      <4> HIDE DEF e
      <4> QED BY <1>0, <4>1, <4>2, NewEnds
    <3> QED BY <3>1, <3>2 DEF Moves, Reported
  <2> QED BY <1>0, <2>1 DEF Unheard
<1>5. CASE new = old
  <2>1. Stayed(rt, rt', a) /\ rt'.ended = rt.ended
    <3>1. \A by : ~Entered(rt, rt', a, by)
      <4>1. old.id # rt.nextAction
        <5>1. CASE Running(rt, a)
          <6>1. rt.active[a].id < rt.nextAction
            BY <1>0, <5>1 DEF IdsAreGiven
          <6> QED BY <1>0, <6>1 DEF Runtime, Action
        <5>2. CASE ~Running(rt, a)
          BY <1>0, <5>2 DEF Running, NoAction, Runtime
        <5> QED BY <5>1, <5>2
      <4>2. \A by : Entered(rt, rt', a, by) => new.id = rt.nextAction
        BY DEF Entered
      <4> QED BY <1>5, <4>1, <4>2
    <3> QED BY <1>5, <3>1 DEF Moves
  <2>2. EndedEvents(a)' = EndedEvents(a)
    BY <1>0, <2>1, NewEnds
  <2>3. Unheard(a)' = Unheard(a)
    BY <1>4, <2>2 DEF Unheard
  <2>4. a \in rt.recovering => a \in rt'.recovering
    BY <1>5, <2>1 DEF Stayed
  <2>5. Later(a)
    BY DEF Later, Acted
  <2> QED BY <1>0, <1>1, <1>3, <1>5, <2>1, <2>3, <2>4, <2>5, NothingMoves
<1>6. CASE new # old
  <2>1. /\ new = NoAction \/ (new.id = rt.nextAction /\ new.by \in {"world", "reflex"})
        /\ new.by = "reflex" => a \in rt'.recovering
        /\ new.by # "mind"
    <3>1. Stayed(rt, rt', a) => new = NoAction
      BY <1>6 DEF Stayed
    <3>2. ASSUME NEW by \in {"world", "reflex"}, Entered(rt, rt', a, by)
          PROVE  new.id = rt.nextAction /\ new.by = by /\ (by = "reflex" => a \in rt'.recovering)
      BY <3>2 DEF Entered
    <3> QED BY <3>1, <3>2 DEF Loudly, NoAction
  <2>2. /\ Count(a)' = Count(a)
        /\ \A x : Nth(a, x)' = Nth(a, x)
        /\ \A id : Latest(a, id)' <=> Latest(a, id)
        /\ \A id, status : EndedAs(id, status) => EndedAs(id, status)'
        /\ \A e : OfStep(a, e)' <=> OfStep(a, e)
    BY <1>0, <1>1, <1>2 DEF Count, Nth, Latest, EndedAs, OfStep
  <2>3. ~Running(rt, a) => Unheard(a)' = Unheard(a)
    <3>1. ~Running(rt, a) => EndedEvents(a)' = EndedEvents(a)
      BY <1>0, NewEnds DEF Moves
    <3> QED BY <1>4, <3>1 DEF Unheard
  <2>4. Running(rt, a) => \E e : \E status \in Statuses :
          /\ e = NewEvent(IF status = "succeeded" THEN "completed" ELSE "failed", old.id, tick, 0)
          /\ Unheard(a)' = Unheard(a) \cup {e}
          /\ EndedAs(old.id, status)'
          /\ pc = "inputs" => status = "preempted"
    <3> SUFFICES ASSUME Running(rt, a)
                 PROVE  \E e : \E status \in Statuses :
          /\ e = NewEvent(IF status = "succeeded" THEN "completed" ELSE "failed", old.id, tick, 0)
          /\ Unheard(a)' = Unheard(a) \cup {e}
          /\ EndedAs(old.id, status)'
          /\ pc = "inputs" => status = "preempted"
      OBVIOUS
    <3>1. PICK status \in Statuses :
            /\ rt'.ended = Append(rt.ended, [agent |-> a, id |-> old.id, status |-> status])
            /\ pc = "inputs" => status = "preempted"
      <4>1. PICK status \in Statuses : rt'.ended = Append(rt.ended, [agent |-> a, id |-> old.id, status |-> status])
        BY <1>6 DEF Loudly, Reported
      <4>2. rt.ended \in Seq(Ended) /\ [agent |-> a, id |-> old.id, status |-> status] \in Ended
        BY <1>0 DEF Runtime, Action, Ended
      <4>3. rt'.ended # rt.ended
        <5> DEFINE e == [agent |-> a, id |-> old.id, status |-> status]
        <5>1. e \in Ended /\ rt'.ended = Append(rt.ended, e)
          BY <4>1, <4>2
        <5> HIDE DEF e
        <5>2. Len(Append(rt.ended, e)) = Len(rt.ended) + 1 /\ Len(rt.ended) \in Nat
          BY <4>2, <5>1, AppendedOne
        <5> QED BY <5>1, <5>2
      <4>4. "preempted" \in Statuses
        BY DEF Statuses
      <4> QED BY <4>1, <4>3, <4>4
    <3> DEFINE f == [agent |-> a, id |-> old.id, status |-> status]
               e == NewEvent(IF status = "succeeded" THEN "completed" ELSE "failed", old.id, tick, 0)
    <3>2. f \in Ended /\ f.agent = a /\ EndEvent(f) = e /\ f.id = old.id /\ f.status = status
      BY <1>0 DEF Runtime, Action, Ended, EndEvent
    <3>3. rt'.ended = Append(rt.ended, f)
      BY <3>1
    <3>4. f \in fates'
      BY <1>1, <3>1
    <3>5. e.kind \in StepKinds
      BY DEF StepKinds, NewEvent
    <3> HIDE DEF f, e
    <3>6. EndedEvents(a)' = EndedEvents(a) \cup {e}
      BY <1>0, <3>2, <3>3, NewEnds
    <3>7. Unheard(a)' = Unheard(a) \cup {e}
      BY <1>4, <3>5, <3>6 DEF Unheard
    <3>8. EndedAs(old.id, status)'
      BY <3>2, <3>4 DEF EndedAs
    <3> QED BY <3>1, <3>7, <3>8 DEF e
  <2>5. Unheard(a) \subseteq Unheard(a)' /\ \A e \in Unheard(a)' : e.kind = "rejected" => e \in Unheard(a)
    BY <2>3, <2>4 DEF NewEvent
  <2>6. CountOK(a)' /\ StoppedOK(a)' /\ ListOK(a)'
    <3>1. CountOK(a)'
      BY <1>0, <1>3, <2>2, <2>5 DEF FollowsOK, CountOK
    <3>2. StoppedOK(a)'
      BY <1>0, <1>1, <1>2, <2>2 DEF FollowsOK, StoppedOK
    <3>3. ListOK(a)'
      BY <1>0, <1>2, <2>2 DEF FollowsOK, ListOK
    <3> QED BY <3>1, <3>2, <3>3
  <2>7. Running(rt, a) => old \in Ran(a) /\ old.id \in Nat /\ 0 < old.id /\ (old.by \in Callers)
    BY <1>0 DEF IdsAreGiven, Ran, KnownOK, Runtime, Action
  <2>8. ActiveOK(a)'
    <3>1. Running(rt, a)' => \A x \in Ran(a)' : x.id <= new.id
      <4>1. \A x \in Ran(a) : x.id < rt.nextAction /\ x.id \in Nat
        BY <1>0 DEF Ran, KnownOK, MissionTypes, Action
      <4>2. rt.nextAction \in Nat
        BY <1>0 DEF Runtime
      <4> QED BY <1>2, <2>1, <4>1, <4>2 DEF Running
    <3>2. m.phase = "running" /\ Count(a) = m.cursor => \E e \in Unheard(a)' : IsEnd(e) /\ Latest(a, e.subject)
      <4> SUFFICES ASSUME m.phase = "running", Count(a) = m.cursor
                   PROVE  \E e \in Unheard(a)' : IsEnd(e) /\ Latest(a, e.subject)
        OBVIOUS
      <4>1. old.by = "mind" \/ \E e \in Unheard(a) : IsEnd(e) /\ Latest(a, e.subject)
        BY <1>0 DEF FollowsOK, ActiveOK
      <4>2. CASE old.by = "mind"
        <5>1. Latest(a, old.id) /\ Running(rt, a)
          BY <1>0, <4>2 DEF FollowsOK, ActiveOK, Running, NoAction
        <5>2. PICK e \in Unheard(a)' : \E status \in Statuses :
                e = NewEvent(IF status = "succeeded" THEN "completed" ELSE "failed", old.id, tick, 0)
          BY <2>4, <5>1
        <5>3. IsEnd(e) /\ e.subject = old.id
          BY <5>2 DEF NewEvent, IsEnd
        <5> QED BY <5>1, <5>2, <5>3
      <4>3. CASE old.by # "mind"
        BY <2>5, <4>1, <4>3
      <4> QED BY <4>2, <4>3
    <3> QED BY <1>0, <2>1, <2>2, <3>1, <3>2 DEF ActiveOK
  <2>9. ASSUME NEW e \in Unheard(a) PROVE EventOK(a, e)'
    <3>1. EventOK(a, e)
      BY <1>0 DEF FollowsOK
    <3>2. \A x : HeardInTime(a, e, x) => HeardInTime(a, e, x)'
      BY <2>2, <2>5 DEF HeardInTime, OfCommand
    <3>3. e.kind = "completed" /\ e.tick = tick => Acted(a)'
      BY <3>1 DEF EventOK, Acted
    <3>4. IsEnd(e) => \E x \in Ran(a)' :
          /\ x.id = e.subject
          /\ e.kind = "completed" => EndedAs(x.id, "succeeded")'
          /\ e.kind = "failed" => EndedAs(x.id, "failed")' \/ EndedAs(x.id, "preempted")'
          /\ m.phase = "running" /\ x.name = m.steps[m.cursor] => HeardInTime(a, e, x)'
      BY <1>2, <2>2, <3>1, <3>2 DEF EventOK
    <3> QED BY <1>0, <3>1, <3>3, <3>4 DEF EventOK
  <2>10. ASSUME Running(rt, a), NEW status \in Statuses, NEW e,
                e = NewEvent(IF status = "succeeded" THEN "completed" ELSE "failed", old.id, tick, 0),
                Unheard(a)' = Unheard(a) \cup {e}, EndedAs(old.id, status)', pc = "inputs" => status = "preempted"
         PROVE  EventOK(a, e)'
    <3>1. /\ IsEnd(e) /\ e.subject = old.id /\ e.tick = tick /\ e \in Event
          /\ e.kind = "completed" <=> status = "succeeded"
          /\ e.kind \in {"completed", "failed"}
      <4>1. e.kind \in {"completed", "failed"} /\ e.subject = old.id /\ e.tick = tick /\ e.seq = 0
            /\ (e.kind = "completed" <=> status = "succeeded")
        BY <2>10 DEF NewEvent
      <4>2. e \in [kind : {"completed", "failed"}, subject : Nat, tick : Nat, seq : Nat]
        BY <1>0, <2>7, <2>10 DEF NewEvent
      <4> QED BY <4>1, <4>2 DEF IsEnd, Event
    <3>2. e.kind = "completed" => Acted(a)'
      BY <2>10, <3>1
    <3>3. /\ e.kind = "completed" => EndedAs(old.id, "succeeded")'
          /\ e.kind = "failed" => EndedAs(old.id, "failed")' \/ EndedAs(old.id, "preempted")'
      BY <2>10, <3>1 DEF Statuses
    <3>4. ASSUME m.phase = "running", old.name = m.steps[m.cursor] PROVE HeardInTime(a, e, old)'
      <4>0. old \in Ran(a) /\ Count(a) \in {m.cursor - 1, m.cursor} /\ m.cursor \in Nat
        BY <1>0, <2>7, <2>10 DEF FollowsOK, CountOK, MissionTypes, Mission, Missioned
      <4>1. CASE old.by = "mind"
        BY <1>0, <2>2, <3>1, <4>1 DEF FollowsOK, ActiveOK, HeardInTime, OfStep
      <4>2. CASE old.by # "mind" /\ Count(a) = m.cursor
        <5>1. PICK f \in Unheard(a) : IsEnd(f) /\ Latest(a, f.subject)
          BY <1>0, <3>4, <4>2 DEF FollowsOK, ActiveOK
        <5>2. EventOK(a, f)
          BY <1>0 DEF FollowsOK
        <5>3. PICK x \in Ran(a) : x.id = f.subject /\ (EndedAs(x.id, "succeeded") \/ EndedAs(x.id, "failed") \/ EndedAs(x.id, "preempted"))
          BY <5>1, <5>2 DEF EventOK, IsEnd
        <5>4. x.id # old.id /\ x.id <= old.id /\ x.id \in Nat
          <6>1. x.id # old.id
            BY <1>0, <5>3 DEF KnownOK, EndedAs
          <6>2. x.id <= old.id
            BY <1>0, <2>10 DEF FollowsOK, ActiveOK
          <6> QED BY <1>0, <6>1, <6>2 DEF Ran, MissionTypes, Action
        <5>5. f.subject < old.id
          BY <2>7, <2>10, <5>3, <5>4
        <5>6. f \in Event /\ f.tick \in Nat /\ f.tick <= tick /\ (f.kind = "completed" => f.tick # tick)
          <6>1. ~Acted(a)
            BY <1>0, WorldAssumption DEF Acted
          <6> QED BY <5>2, <6>1 DEF EventOK, Event
        <5>7. Before(f, e)
          <6>1. CASE f.tick < tick
            BY <3>1, <6>1 DEF Before
          <6>2. CASE f.tick = tick
            <7>1. f.kind = "failed"
              BY <5>1, <5>6, <6>2 DEF IsEnd
            <7>2. Rank(f) = 1 /\ About(f) = f.subject
              BY <7>1 DEF Rank, About
            <7>3. (Rank(e) = 1 \/ Rank(e) = 2) /\ About(e) = old.id
              BY <3>1 DEF Rank, About
            <7> QED BY <3>1, <5>5, <6>2, <7>2, <7>3 DEF Before
          <6> QED BY <1>0, <5>6, <6>1, <6>2
        <5>8. OfStep(a, f)
          BY <4>2, <5>1 DEF OfStep
        <5> QED BY <2>2, <2>5, <5>7, <5>8 DEF HeardInTime
      <4>3. CASE Count(a) = m.cursor - 1 /\ ~Pending(a)
        <5>1. PICK f \in Unheard(a) : f.kind = "rejected"
          BY <1>0, <3>4, <4>3 DEF FollowsOK, CountOK
        <5>2. f \in Event /\ f.tick \in Nat /\ f.tick <= tick
          BY <1>0 DEF FollowsOK, EventOK, Event
        <5>3. Rank(f) = 0 /\ (Rank(e) = 1 \/ Rank(e) = 2)
          BY <3>1, <5>1 DEF Rank
        <5>4. Before(f, e)
          BY <1>0, <3>1, <5>2, <5>3 DEF Before
        <5> QED BY <2>2, <2>5, <5>1, <5>4 DEF HeardInTime, OfStep
      <4>4. CASE Count(a) = m.cursor - 1 /\ Pending(a)
        <5>1. a \notin rt.recovering /\ pc # "actions"
          BY <1>0, <4>4, PendingWaits
        <5>2. old.by # "mind" /\ old.by # "reflex"
          BY <1>0, <4>0, <4>4, <5>1 DEF FollowsOK, ActiveOK
        <5>3. old.by = "world"
          BY <2>7, <2>10, <5>2 DEF Callers
        <5>4. status = "preempted" /\ e.kind = "failed"
          BY <2>10, <3>1, <5>1
        <5> QED BY <2>10, <5>3, <5>4 DEF HeardInTime, OfCommand
      <4> QED BY <4>0, <4>1, <4>2, <4>3, <4>4
    <3>5. old \in Ran(a)'
      BY <1>2, <2>7, <2>10
    <3>6. \E x \in Ran(a)' :
          /\ x.id = e.subject
          /\ e.kind = "completed" => EndedAs(x.id, "succeeded")'
          /\ e.kind = "failed" => EndedAs(x.id, "failed")' \/ EndedAs(x.id, "preempted")'
          /\ m.phase = "running" /\ x.name = m.steps[m.cursor] => HeardInTime(a, e, x)'
      BY <3>1, <3>3, <3>4, <3>5
    <3> QED BY <1>0, <3>1, <3>2, <3>6 DEF EventOK
  <2>11. \A e \in Unheard(a)' : EventOK(a, e)'
    BY <2>3, <2>4, <2>9, <2>10
  <2> QED BY <2>6, <2>8, <2>11 DEF FollowsOK
<1> QED BY <1>5, <1>6

\* While its decision is on the way a mission runs, its step is not started, and
\* what it is still to hear of an action called like it is a command's doing.
LEMMA PendingHears ==
  ASSUME NEW a \in Missioned, MissionTypes, FollowsOK(a), Pending(a)
  PROVE  /\ mission[a].phase = "running" /\ Count(a) = mission[a].cursor - 1 /\ mission[a].cursor \in Nat
         /\ \A e \in Unheard(a) : e.kind # "rejected"
         /\ \A e \in Unheard(a) : \A x : HeardInTime(a, e, x) => OfCommand(e, x)
<1>1. mission[a].phase = "running" /\ Count(a) = mission[a].cursor - 1 /\ mission[a].cursor \in Nat
  BY DEF FollowsOK, CountOK, MissionTypes, Mission, Missioned
<1>2. \A e \in Unheard(a) : e.kind # "rejected"
  BY DEF FollowsOK, CountOK
<1>3. \A e \in Unheard(a) : ~OfStep(a, e)
  BY <1>1, <1>2 DEF OfStep
<1> QED BY <1>1, <1>2, <1>3 DEF HeardInTime

\* A step that leaves the actions alone moves no mission by itself.
LEMMA StillStep ==
  ASSUME Inv, MissionInv, Recorded, rt'.active = rt.active, rt'.recovering = rt.recovering,
         rt'.ended = rt.ended \/ rt'.ended = <<>>, rt'.nextAction = rt.nextAction,
         rt'.traced.started = rt.traced.started,
         NEW a \in Missioned, Unheard(a)' = Unheard(a), Pending(a)' <=> Pending(a), Later(a)
  PROVE  FollowsOK(a)'
<1>1. rt \in Runtime /\ tick \in Nat /\ a \in Agents
  BY WorldAssumption DEF Inv, IInv, TypeOK, Missioned
<1>2. known' = known /\ fates' = fates /\ Ran(a)' = Ran(a) /\ mission' = mission
  BY <1>1, RecordsStay DEF MissionInv, Recorded
<1> QED BY <1>1, <1>2, NothingMoves DEF MissionInv

\* A step that runs another agent moves no mission but that agent's.
LEMMA OtherStep ==
  ASSUME Inv, MissionInv, Recorded, NEW b \in Agents, Moves(rt, rt', b), NEW a \in Missioned \ {b},
         UNCHANGED <<tick, deciding>>, inbox'[a] = inbox[a], slots'[a] = slots[a], Later(a)
  PROVE  FollowsOK(a)'
<1>1. rt \in Runtime /\ IdsAreGiven(rt) /\ tick \in Nat /\ a \in Agents /\ rt.active[b].id \in Nat
  <2>1. rt \in Runtime /\ IdsAreGiven(rt) /\ tick \in Nat /\ a \in Agents
    BY WorldAssumption DEF Inv, IInv, TypeOK, Missioned, FatesInv, Fated
  <2> QED BY <2>1 DEF Runtime, Action
<1>2. known \subseteq known' /\ fates \subseteq fates' /\ Ran(a)' = Ran(a)
  BY <1>1, RecordsMove DEF MissionInv
<1>3. rt'.active[a] = rt.active[a] /\ (a \in rt'.recovering <=> a \in rt.recovering)
  BY <1>1 DEF Moves
<1>4. EndedEvents(a)' = EndedEvents(a)
  <2>1. rt'.ended = rt.ended => EndedEvents(a)' = EndedEvents(a)
    BY <1>1, NewEnds
  <2>2. ASSUME NEW status \in Statuses, rt'.ended = Append(rt.ended, [agent |-> b, id |-> rt.active[b].id, status |-> status])
        PROVE  EndedEvents(a)' = EndedEvents(a)
    <3> DEFINE e == [agent |-> b, id |-> rt.active[b].id, status |-> status]
    <3>1. e \in Ended /\ e.agent # a
      BY <1>1 DEF Ended
    <3>2. rt'.ended = Append(rt.ended, e)
      BY <2>2
    <3> HIDE DEF e
    <3> QED BY <1>1, <3>1, <3>2, NewEnds
  <2> QED BY <2>1, <2>2 DEF Moves, Reported
<1>5. Unheard(a)' = Unheard(a)
  BY <1>4 DEF Unheard
<1>6. Pending(a)' <=> Pending(a)
  BY DEF Pending, Recorded
<1> QED BY <1>1, <1>2, <1>3, <1>5, <1>6, NothingMoves DEF MissionInv, Recorded

\* The mission's own decision: its step starts, or is refused.
LEMMA DecisionStarts ==
  ASSUME Inv, MissionInv, Recorded, NEW a \in Missioned, Pending(a), mission[a].answer \in Names,
         mission[a].answer = mission[a].steps[mission[a].cursor],
         rt' = Begin(rt, a, mission[a].answer, "mind"), pc = "brains", pc' = "brains",
         UNCHANGED <<tick, inbox, deciding>>, deciding = {}, slots'[a] = FreeSlot, slots[a].state = "answered"
  PROVE  FollowsOK(a)'
<1> DEFINE m == mission[a]
           S == Started(a)
<1>p. PICK new : new = rt'.active[a]
  OBVIOUS
<1> USE <1>p
<1>0. /\ rt \in Runtime /\ IdsAreGiven(rt) /\ tick \in Nat /\ a \in Agents /\ MissionTypes /\ KnownOK
      /\ FollowsOK(a) /\ rt.nextAction \in Nat /\ mission'[a] = m /\ IsFiniteSet(known)
  BY WorldAssumption DEF Inv, IInv, TypeOK, Missioned, FatesInv, Fated, MissionInv, MissionTypes, Runtime, Recorded
<1>1. /\ m.phase = "running" /\ Count(a) = m.cursor - 1 /\ m.cursor \in Nat
      /\ \A e \in Unheard(a) : e.kind # "rejected"
      /\ \A e \in Unheard(a) : \A x : HeardInTime(a, e, x) => OfCommand(e, x)
  BY <1>0, PendingHears
<1>2. Moves(rt, rt', a) /\ Entered(rt, rt', a, "mind") /\ rt'.ended = rt.ended
  BY <1>0, BeginsMove
<1>3. new.id = rt.nextAction /\ new.name = m.answer /\ new.by = "mind"
  <2>1. Begun(rt, rt', a, m.answer, "mind")
    BY <1>0, BeginMoves DEF Callers
  <2>2. rt'.active[a] = [id |-> rt.nextAction, name |-> mission[a].answer, by |-> "mind"]
    BY <2>1 DEF Begun
  <2> QED BY <2>2
<1>4. /\ known \subseteq known' /\ fates \subseteq fates' /\ Started(a)' = S \cup {new} /\ Ran(a)' = Ran(a) \cup {new}
  <2>1. "mind" \in Callers
    BY DEF Callers
  <2>2. /\ known \subseteq known' /\ fates \subseteq fates'
        /\ Entered(rt, rt', a, "mind") =>
             Ran(a)' = Ran(a) \cup {rt'.active[a]} /\ Started(a)' = Started(a) \cup {rt'.active[a]}
    BY <1>0, <1>2, <2>1, RecordsMove
  <2> QED BY <1>2, <2>2
<1>5. \A x \in Ran(a) : x.id \in Nat /\ x.id < new.id
  BY <1>0, <1>3 DEF Ran, KnownOK, MissionTypes, Action
<1>6. S \subseteq Ran(a) /\ IsFiniteSet(S)
  <2>1. S \subseteq Ran(a) /\ S \subseteq known
    BY DEF Started, Ran
  <2> QED BY <1>0, <2>1, FS_Subset
<1> HIDE DEF S
<1>7. /\ Cardinality(S \cup {new}) = Cardinality(S) + 1
      /\ \A y \in S : {z \in S \cup {new} : z.id <= y.id} = {z \in S : z.id <= y.id}
      /\ {z \in S \cup {new} : z.id <= new.id} = S \cup {new}
  <2>1. new.id \in Nat /\ \A y \in S : y.id \in Nat /\ y.id < new.id
    BY <1>0, <1>3, <1>5, <1>6
  <2>2. new \notin S
    BY <2>1
  <2>3. Cardinality(S \cup {new}) = Cardinality(S) + 1
    BY <1>6, <2>2, FS_AddElement
  <2>4. \A y \in S : {z \in S \cup {new} : z.id <= y.id} = {z \in S : z.id <= y.id}
    BY <2>1
  <2>5. {z \in S \cup {new} : z.id <= new.id} = S \cup {new}
    BY <2>1
  <2> QED BY <2>3, <2>4, <2>5
<1>8. /\ Count(a)' = m.cursor
      /\ \A y \in S : Nth(a, y)' = Nth(a, y)
      /\ Nth(a, new)' = m.cursor
  <2>1. Count(a)' = m.cursor
    <3>1. Count(a)' = Cardinality(S \cup {new}) /\ Count(a) = Cardinality(S)
      BY <1>4 DEF Count, S
    <3>2. Count(a)' = Count(a) + 1
      BY <1>7, <3>1
    <3> QED BY <1>1, <3>2
  <2>2. \A y \in S : Nth(a, y)' = Nth(a, y)
    BY <1>4, <1>7 DEF Nth, S
  <2>3. Nth(a, new)' = Cardinality(S \cup {new})
    BY <1>4, <1>7 DEF Nth
  <2>4. Count(a)' = Cardinality(S \cup {new})
    BY <1>4 DEF Count
  <2> QED BY <2>1, <2>2, <2>3, <2>4
<1>9. Latest(a, new.id)'
  <2>1. new.id \in Nat
    BY <1>0, <1>3
  <2>2. \A y \in Started(a)' : y.id <= new.id
    BY <1>4, <1>5, <1>6, <2>1
  <2> QED BY <1>4, <2>2 DEF Latest
<1>10. \A id, status : EndedAs(id, status) => EndedAs(id, status)'
  BY <1>4 DEF EndedAs
<1>11. Unheard(a)' = Unheard(a)
  <2>1. EndedEvents(a)' = EndedEvents(a)
    BY <1>0, <1>2, NewEnds
  <2> QED BY <2>1 DEF Unheard, FreeSlot
<1>12. ~Pending(a)'
  BY DEF Pending, FreeSlot
<1>13. CountOK(a)'
  BY <1>0, <1>1, <1>8, <1>11, <1>12 DEF CountOK
<1>14. StoppedOK(a)'
  BY <1>0, <1>1 DEF StoppedOK
<1>15. ListOK(a)'
  <2>1. ASSUME NEW x \in S
        PROVE  x.name = m.steps[Nth(a, x)] /\ (Nth(a, x) < m.cursor => EndedAs(x.id, "succeeded")')
    BY <1>0, <1>10 DEF FollowsOK, ListOK, S
  <2>2. new.name = m.steps[m.cursor] /\ ~(m.cursor < m.cursor)
    BY <1>1, <1>3
  <2>3. \A x \in Started(a)' : x.name = m.steps[Nth(a, x)'] /\ (Nth(a, x)' < m.cursor => EndedAs(x.id, "succeeded")')
    BY <1>4, <1>8, <2>1, <2>2
  <2> QED BY <1>0, <1>1, <2>3 DEF ListOK
<1>16. ActiveOK(a)'
  <2>1. \A x \in Ran(a)' : x.id <= new.id
    <3>1. new.id \in Nat
      BY <1>0, <1>3
    <3> QED BY <1>4, <1>5, <3>1
  <2> QED BY <1>0, <1>1, <1>3, <1>8, <1>9, <2>1 DEF ActiveOK
<1>17. ASSUME NEW e \in Unheard(a) PROVE EventOK(a, e)'
  <2>1. EventOK(a, e)
    BY <1>0 DEF FollowsOK
  <2>2. \A x : HeardInTime(a, e, x) => HeardInTime(a, e, x)'
    BY <1>1, <1>10 DEF HeardInTime, OfCommand
  <2>3. ~(e.kind = "completed" /\ e.tick = tick)
    BY <2>1 DEF EventOK, Acted
  <2>4. IsEnd(e) => \E x \in Ran(a)' :
          /\ x.id = e.subject
          /\ e.kind = "completed" => EndedAs(x.id, "succeeded")'
          /\ e.kind = "failed" => EndedAs(x.id, "failed")' \/ EndedAs(x.id, "preempted")'
          /\ m.phase = "running" /\ x.name = m.steps[m.cursor] => HeardInTime(a, e, x)'
    BY <1>4, <1>10, <2>1, <2>2 DEF EventOK
  <2> QED BY <1>0, <2>1, <2>3, <2>4 DEF EventOK
<1> QED BY <1>11, <1>13, <1>14, <1>15, <1>16, <1>17 DEF FollowsOK

\* A refused decision leaves a refusal on its way to the mission.
LEMMA DecisionRefused ==
  ASSUME Inv, MissionInv, Recorded, NEW a \in Missioned, Pending(a), UNCHANGED <<rt, tick, deciding>>, Reject(a),
         pc = "brains", pc' = "brains", deciding = {}, slots'[a] = FreeSlot, slots[a].state = "answered"
  PROVE  FollowsOK(a)'
<1> DEFINE m == mission[a]
<1>p. PICK rej : rej = NewEvent("rejected", 0, tick, rejections[a])
  OBVIOUS
<1> USE <1>p
<1>0. /\ rt \in Runtime /\ tick \in Nat /\ a \in Agents /\ MissionTypes /\ KnownOK /\ FollowsOK(a)
      /\ mission'[a] = m /\ inbox \in [Agents -> SUBSET Event] /\ rejections[a] \in Nat
  BY WorldAssumption DEF Inv, IInv, TypeOK, Missioned, MissionInv, Recorded
<1>1. /\ m.phase = "running" /\ Count(a) = m.cursor - 1 /\ m.cursor \in Nat
      /\ \A e \in Unheard(a) : e.kind # "rejected"
      /\ \A e \in Unheard(a) : \A x : HeardInTime(a, e, x) => OfCommand(e, x)
  BY <1>0, PendingHears
<1>2. known' = known /\ fates' = fates /\ Ran(a)' = Ran(a) /\ Started(a)' = Started(a)
  BY <1>0, RecordsStay
<1>3. /\ Count(a)' = Count(a)
      /\ \A x : Nth(a, x)' = Nth(a, x)
      /\ \A id : Latest(a, id)' <=> Latest(a, id)
      /\ \A id, status : EndedAs(id, status)' <=> EndedAs(id, status)
  BY <1>2 DEF Count, Nth, Latest, EndedAs
<1>4. Unheard(a)' = Unheard(a) \cup {rej}
  <2>1. EndedEvents(a)' = EndedEvents(a)
    BY <1>0, NewEnds
  <2>2. inbox'[a] = AddEvents(inbox[a], {rej})
    BY <1>0 DEF Reject
  <2>3. rej.kind = "rejected"
    BY DEF NewEvent
  <2>4. \A e : e.kind \in StepKinds => (e \in inbox'[a] <=> e \in inbox[a] \/ e = rej)
    BY <2>2, <2>3 DEF AddEvents, StepKinds
  <2>5. rej.kind \in StepKinds
    BY <2>3 DEF StepKinds
  <2> QED BY <2>1, <2>4, <2>5 DEF Unheard, FreeSlot
<1>5. rej.kind = "rejected" /\ rej.tick = tick /\ rej \in Event /\ ~IsEnd(rej)
  BY <1>0 DEF NewEvent, Event, IsEnd
<1>6. ~Pending(a)'
  BY DEF Pending, FreeSlot
<1>7. CountOK(a)'
  BY <1>0, <1>1, <1>3, <1>4, <1>5, <1>6 DEF FollowsOK, CountOK
<1>8. StoppedOK(a)' /\ ListOK(a)'
  <2>1. StoppedOK(a)'
    BY <1>0, <1>1 DEF StoppedOK
  <2>2. ListOK(a)'
    BY <1>0, <1>2, <1>3 DEF FollowsOK, ListOK
  <2> QED BY <2>1, <2>2
<1>9. ActiveOK(a)'
  BY <1>0, <1>1, <1>2, <1>3 DEF FollowsOK, ActiveOK, Running
<1>10. ASSUME NEW e \in Unheard(a) PROVE EventOK(a, e)'
  <2>1. EventOK(a, e)
    BY <1>0 DEF FollowsOK
  <2>2. \A x : HeardInTime(a, e, x) => HeardInTime(a, e, x)'
    BY <1>1, <1>3 DEF HeardInTime, OfCommand
  <2>3. ~(e.kind = "completed" /\ e.tick = tick)
    BY <2>1 DEF EventOK, Acted
  <2>4. IsEnd(e) => \E x \in Ran(a)' :
          /\ x.id = e.subject
          /\ e.kind = "completed" => EndedAs(x.id, "succeeded")'
          /\ e.kind = "failed" => EndedAs(x.id, "failed")' \/ EndedAs(x.id, "preempted")'
          /\ m.phase = "running" /\ x.name = m.steps[m.cursor] => HeardInTime(a, e, x)'
    BY <1>2, <1>3, <2>1, <2>2 DEF EventOK
  <2> QED BY <1>0, <2>1, <2>3, <2>4 DEF EventOK
<1>11. EventOK(a, rej)'
  BY <1>0, <1>5 DEF EventOK
<1> QED BY <1>4, <1>7, <1>8, <1>9, <1>10, <1>11 DEF FollowsOK

(***************************************************************************)
(* The steps                                                               *)
(***************************************************************************)
\* What a mission makes of its events: nothing of its step, its first step, or what
\* the first event about the step says.
Waits(m, n) == n.cursor = m.cursor /\ n.phase = m.phase /\ n.answer = "none"
Goes(m, n, k) == n.cursor = k /\ k <= Len(m.steps) /\ n.phase = "running" /\ n.answer = m.steps[k]
Stops(m, n, phase) == n.cursor = m.cursor /\ n.phase = phase /\ n.answer = "none"
Decided(m, n, events) ==
  \/ Waits(m, n) /\ (m.phase = "running" => \A e \in events : ~Concerns(e, m))
  \/ m.phase = "ready" /\ Goes(m, n, 1)
  \/ m.phase = "running" /\ \E e \in events :
       /\ Concerns(e, m) /\ \A f \in events : Concerns(f, m) => ~Before(f, e)
       /\ \/ e.kind # "completed" /\ Stops(m, n, "stopped")
          \/ e.kind = "completed" /\ m.cursor = Len(m.steps) /\ Stops(m, n, "done")
          \/ e.kind = "completed" /\ m.cursor < Len(m.steps) /\ Goes(m, n, m.cursor + 1)

\* How a mission advances on a request: it waits, takes its next step, or is over.
LEMMA NextIs ==
  ASSUME NEW m \in Mission, m.steps # <<>>, m.cursor \in 0..Len(m.steps), m.cursor = 0 <=> m.phase = "ready",
         NEW events, events \subseteq Event
  PROVE  LET n == NextDecision(m, Preview(events)) IN
         n \in Mission /\ n.steps = m.steps /\ Decided(m, n, events)
<1> DEFINE seen == Preview(events)
           mine == {e \in seen : Concerns(e, m)}
           first == CHOOSE e \in mine : \A f \in mine : ~Before(f, e)
           n == NextDecision(m, seen)
<1>0. m.steps \in Seq(Names) /\ Len(m.steps) \in Nat /\ Len(m.steps) >= 1
  <2>1. m.steps \in Seq(Names)
    BY MissionAssumption DEF Mission
  <2> QED BY <2>1
<1>1. mine = {e \in events : Concerns(e, m)}
  BY PreviewKeeps
<1>2. mine # {} => first \in mine /\ \A f \in mine : ~Before(f, first)
  <2>1. mine \subseteq Event /\ \A e \in mine : e.kind \in StepKinds
    BY <1>1 DEF Concerns, StepKinds
  <2> HIDE DEF mine
  <2>2. mine # {} => \E e \in mine : \A f \in mine : ~Before(f, e)
    BY <2>1, OneComesFirst
  <2> QED BY <2>2
<1>3. Idle(m) \in Mission /\ Idle(m).steps = m.steps /\ Waits(m, Idle(m))
  BY DEF Idle, Mission, Waits
<1>4. StopMission(m) \in Mission /\ StopMission(m).steps = m.steps /\ Stops(m, StopMission(m), "stopped")
  BY DEF StopMission, Idle, Mission, Stops
<1>5. LET d == [Idle(m) EXCEPT !.phase = "done"] IN d \in Mission /\ d.steps = m.steps /\ Stops(m, d, "done")
  BY DEF Idle, Mission, Stops
<1>6. ASSUME NEW k \in 1..Len(m.steps)
      PROVE  BeginStep(m, k) \in Mission /\ BeginStep(m, k).steps = m.steps /\ Goes(m, BeginStep(m, k), k)
  <2>1. m.steps[k] \in Names
    BY <1>0
  <2>2. k \in Nat /\ k <= Len(m.steps)
    BY <1>0
  <2> QED BY <2>1, <2>2 DEF BeginStep, Mission, Goes
<1>7. n = CASE m.phase = "ready" /\ \E e \in seen : e.kind = "start" -> BeginStep(m, 1)
            [] m.phase = "running" /\ mine # {} /\ first.kind # "completed" -> StopMission(m)
            [] m.phase = "running" /\ mine # {} /\ first.kind = "completed" ->
                 IF AtLastStep(m) THEN [Idle(m) EXCEPT !.phase = "done"] ELSE BeginStep(m, m.cursor + 1)
            [] OTHER -> Idle(m)
  BY DEF NextDecision
<1> HIDE DEF n, first, mine
<1>8. CASE m.phase = "ready" /\ \E e \in seen : e.kind = "start"
  <2>1. n = BeginStep(m, 1) /\ 1 \in 1..Len(m.steps)
    BY <1>0, <1>7, <1>8
  <2> QED BY <1>6, <1>8, <2>1 DEF Decided, n
<1>9. CASE m.phase = "running" /\ mine # {} /\ first.kind # "completed"
  <2>1. n = StopMission(m)
    BY <1>7, <1>9
  <2> QED BY <1>1, <1>2, <1>4, <1>9, <2>1 DEF Decided, n
<1>10. CASE m.phase = "running" /\ mine # {} /\ first.kind = "completed"
  <2>1. n = IF AtLastStep(m) THEN [Idle(m) EXCEPT !.phase = "done"] ELSE BeginStep(m, m.cursor + 1)
    BY <1>7, <1>10
  <2>2. CASE AtLastStep(m)
    <3>1. m.cursor = Len(m.steps)
      BY <1>0, <2>2 DEF AtLastStep
    <3>2. n = [Idle(m) EXCEPT !.phase = "done"]
      BY <2>1, <2>2
    <3> QED BY <1>1, <1>2, <1>5, <1>10, <3>1, <3>2 DEF Decided, n
  <2>3. CASE ~AtLastStep(m)
    <3>1. m.cursor < Len(m.steps) /\ m.cursor + 1 \in 1..Len(m.steps)
      BY <1>0, <2>3 DEF AtLastStep
    <3>2. n = BeginStep(m, m.cursor + 1)
      BY <2>1, <2>3
    <3> QED BY <1>1, <1>2, <1>6, <1>10, <3>1, <3>2 DEF Decided, n
  <2> QED BY <2>2, <2>3
<1>11. CASE /\ ~(m.phase = "ready" /\ \E e \in seen : e.kind = "start")
            /\ ~(m.phase = "running" /\ mine # {})
  <2>1. n = Idle(m)
    BY <1>7, <1>11
  <2> QED BY <1>1, <1>3, <1>11, <2>1 DEF Decided, n
<1> QED BY <1>8, <1>9, <1>10, <1>11

\* The latest of its actions has the last place.
LEMMA LatestIsLast ==
  ASSUME MissionTypes, KnownOK, NEW a, NEW x \in Started(a)
  PROVE  /\ Nth(a, x) \in Nat /\ Nth(a, x) >= 1 /\ Nth(a, x) <= Count(a) /\ Count(a) \in Nat
         /\ Latest(a, x.id) <=> Nth(a, x) = Count(a)
<1> DEFINE S == Started(a)
           place == Cardinality({y \in S : y.id <= x.id})
<1>1. S \subseteq known /\ IsFiniteSet(S) /\ (\A y \in S : y.id \in Nat) /\ Cardinality(S) \in Nat
  <2>1. S \subseteq known
    BY DEF Started
  <2> HIDE DEF S
  <2>2. IsFiniteSet(S)
    BY <2>1, FS_Subset DEF MissionTypes
  <2> QED BY <2>1, <2>2, FS_CardinalityType DEF MissionTypes, Action
<1>2. place \in Nat /\ place >= 1 /\ place <= Cardinality(S) /\ (place = Cardinality(S) <=> \A y \in S : y.id <= x.id)
  <2> HIDE DEF S
  <2>1. x \in S
    BY DEF S
  <2> QED BY <1>1, <2>1, Places
<1>3. Latest(a, x.id) <=> \A y \in S : y.id <= x.id
  BY DEF Latest
<1>4. Nth(a, x) = place /\ Count(a) = Cardinality(S)
  BY DEF Nth, Count
<1> HIDE DEF S, place
<1> QED BY <1>1, <1>2, <1>3, <1>4

\* The event of its step concerns a mission.
LEMMA NamesOfEnds ==
  ASSUME KnownOK, NEW x \in known, NEW e, IsEnd(e), e.subject = x.id, NEW m
  PROVE  NameIn(e, m) = x.name
<1>1. (CHOOSE y \in known : y.id = e.subject) = x
  BY DEF KnownOK
<1>2. e.kind # "rejected"
  BY DEF IsEnd
<1> QED BY <1>1, <1>2 DEF NameIn

\* The refusal or the end of its step concerns the mission.
LEMMA StepConcerns ==
  ASSUME MissionTypes, KnownOK, NEW a \in Missioned, FollowsOK(a), NEW e, OfStep(a, e)
  PROVE  Concerns(e, mission[a])
<1>1. CASE e.kind = "rejected"
  BY <1>1 DEF Concerns, NameIn
<1>2. CASE IsEnd(e) /\ Latest(a, e.subject) /\ Count(a) = mission[a].cursor
  <2>1. PICK x \in Started(a) : x.id = e.subject
    BY <1>2 DEF Latest
  <2>2. Nth(a, x) = mission[a].cursor
    BY <1>2, <2>1, LatestIsLast
  <2>3. x.name = mission[a].steps[mission[a].cursor] /\ x \in known
    BY <2>2 DEF FollowsOK, ListOK, Started
  <2>4. NameIn(e, mission[a]) = x.name
    BY <1>2, <2>1, <2>3, NamesOfEnds
  <2> QED BY <1>2, <2>3, <2>4 DEF Concerns, IsEnd
<1> QED BY <1>1, <1>2 DEF OfStep

\* The first event that concerns a running mission is about its step, or a command
\* replaced the researcher's own action of that name.
StepOver(a, id, ends) == \E status \in ends : Latest(a, id) /\ Count(a) = mission[a].cursor /\ EndedAs(id, status)
\* The first event that concerns a mission is about the step itself, or about a replaced command of the same name.
LEMMA FirstIsOfStep ==
  ASSUME MissionTypes, KnownOK, NEW a \in Missioned, FollowsOK(a), mission[a].phase = "running",
         NEW e \in Unheard(a), Concerns(e, mission[a]),
         \A f \in Unheard(a) : Concerns(f, mission[a]) => ~Before(f, e)
  PROVE  /\ e.kind = "completed" => StepOver(a, e.subject, {"succeeded"})
         /\ e.kind # "completed" =>
              \/ e.kind = "rejected"
              \/ StepOver(a, e.subject, {"failed", "preempted"})
              \/ \E x \in known : x.by = "world" /\ x.name = mission[a].steps[mission[a].cursor] /\ EndedAs(x.id, "preempted")
<1> DEFINE m == mission[a]
<1>1. EventOK(a, e) /\ (IsEnd(e) \/ e.kind = "rejected")
  BY DEF FollowsOK, Unheard, StepKinds, IsEnd
<1>2. CASE IsEnd(e)
  <2>1. PICK x \in Ran(a) :
          /\ x.id = e.subject
          /\ e.kind = "completed" => EndedAs(x.id, "succeeded")
          /\ e.kind = "failed" => EndedAs(x.id, "failed") \/ EndedAs(x.id, "preempted")
          /\ m.phase = "running" /\ x.name = m.steps[m.cursor] => HeardInTime(a, e, x)
    BY <1>1, <1>2 DEF EventOK
  <2>2. x \in known /\ x.name = m.steps[m.cursor]
    <3>1. x \in known
      BY DEF Ran
    <3>2. NameIn(e, m) = x.name
      BY <1>2, <2>1, <3>1, NamesOfEnds
    <3> QED BY <3>1, <3>2 DEF Concerns
  <2>3. OfStep(a, e) \/ OfCommand(e, x)
    <3>1. ~\E f \in Unheard(a) : OfStep(a, f) /\ Before(f, e)
      BY StepConcerns
    <3> QED BY <2>1, <2>2, <3>1 DEF HeardInTime
  <2>4. CASE OfStep(a, e)
    <3>1. Latest(a, e.subject) /\ Count(a) = m.cursor
      BY <1>2, <2>4 DEF OfStep, IsEnd
    <3> QED BY <1>2, <2>1, <3>1 DEF StepOver, IsEnd
  <2>5. CASE OfCommand(e, x)
    BY <2>2, <2>5 DEF OfCommand
  <2> QED BY <2>3, <2>4, <2>5
<1>3. CASE e.kind = "rejected"
  BY <1>3
<1> QED BY <1>1, <1>2, <1>3

\* Asking a mission: what it makes of all it had not heard keeps it on its list.
LEMMA AskedStep ==
  ASSUME Inv, MissionInv, MissionsAsked, NEW a \in Missioned
  PROVE  StateOK(a)' /\ FollowsOK(a)' /\ mission'[a] \in Mission /\ mission'[a].steps = mission[a].steps
<1> DEFINE m == mission[a]
<1>p. PICK n : n = mission'[a]
  OBVIOUS
<1> USE <1>p
<1>0. /\ a \in Agents /\ a \in Minded /\ m \in Mission /\ m.steps # <<>> /\ slots \in [Agents -> Slot] /\ tick \in Nat
      /\ MissionTypes /\ KnownOK /\ StateOK(a) /\ FollowsOK(a) /\ rt \in Runtime
      /\ pc = "idle" /\ deciding = {} /\ deciding' = Open /\ rt.ended = <<>>
      /\ UNCHANGED <<pc, turn, rt, tick, inbox, slots, known, fates>>
  <2>1. a \in Agents /\ a \in Minded /\ m.steps # <<>>
    BY WorldAssumption DEF Missioned, OnMission
  <2>2. pc = "idle" /\ deciding = {} /\ deciding' = Open /\ UNCHANGED <<pc, turn, rt, tick, inbox, slots, known, fates>>
    BY DEF MissionsAsked, Decide
  <2>3. slots \in [Agents -> Slot] /\ tick \in Nat /\ rt \in Runtime /\ rt.ended = <<>>
    BY <2>2 DEF Inv, IInv, TypeOK, FatesInv
  <2>4. MissionTypes /\ KnownOK /\ StateOK(a) /\ FollowsOK(a)
    BY DEF MissionInv
  <2>5. m \in Mission
    BY <2>1, <2>4 DEF MissionTypes
  <2> QED BY <2>1, <2>2, <2>3, <2>4, <2>5
<1>1. EndedEvents(a) = {} /\ EndedEvents(a)' = {}
  BY <1>0 DEF EndedEvents
<1>2. Ran(a)' = Ran(a) /\ Started(a)' = Started(a)
  BY <1>0 DEF Ran, Started
<1>3. n = IF a \in Open THEN NextDecision(m, Preview(slots[a].events)) ELSE m
  BY <1>0 DEF MissionsAsked
<1>4. CASE a \notin Open
  <2>1. n = m
    BY <1>3, <1>4
  <2>2. Unheard(a)' = Unheard(a) /\ (Pending(a)' <=> Pending(a))
    BY <1>0, <1>1, <1>4 DEF Unheard, Pending, Open
  <2>3. Later(a)
    BY <1>0 DEF Later, Acted
  <2>4. FollowsOK(a)'
    BY <1>0, <1>2, <2>1, <2>2, <2>3, NothingMoves
  <2>5. StateOK(a)'
    BY <1>0, <2>1 DEF StateOK
  <2> QED BY <1>0, <2>1, <2>4, <2>5
<1>5. CASE a \in Open
  <2> DEFINE events == slots[a].events
  <2>1. events \subseteq Event /\ slots[a].state = "open" /\ inbox[a] = {}
    BY <1>0, <1>5 DEF Slot, Open, StateOK
  <2>2. n \in Mission /\ n.steps = m.steps /\ Decided(m, n, events)
    BY <1>0, <1>3, <1>5, <2>1, NextIs DEF StateOK
  <2>3. Unheard(a) = {e \in events : e.kind \in StepKinds} /\ ~Pending(a)
    BY <1>0, <1>1, <2>1 DEF Unheard, Pending
  <2>4. Unheard(a)' = {} /\ (Pending(a)' <=> n.answer # "none")
    BY <1>0, <1>1, <1>5, <2>1 DEF Unheard, Pending
  <2> HIDE DEF events
  <2>5. \A e \in events : Concerns(e, m) => e \in Unheard(a)
    BY <2>3 DEF Concerns, StepKinds
  <2>6. /\ Count(a)' = Count(a) /\ Count(a) \in {m.cursor - 1, m.cursor}
        /\ \A x : Nth(a, x)' = Nth(a, x)
        /\ \A id : Latest(a, id)' <=> Latest(a, id)
        /\ \A id, status : EndedAs(id, status)' <=> EndedAs(id, status)
    BY <1>0, <1>2 DEF Count, Nth, Latest, EndedAs, FollowsOK, CountOK
  <2>7. m.cursor \in Nat /\ m.cursor <= Len(m.steps) /\ Len(m.steps) \in Nat /\ (m.cursor = 0 <=> m.phase = "ready")
    <3>1. m.steps \in Seq(Names)
      BY <1>0, MissionAssumption DEF Mission
    <3> QED BY <1>0, <3>1 DEF StateOK, Mission
  <2>8. rt.active[a].by = "mind" => m.phase \in {"running", "stopped"} /\ ~\E f \in fates : f.id = rt.active[a].id
    BY <1>0 DEF FollowsOK, ActiveOK, KnownOK
  <2>9. CASE Waits(m, n) /\ (m.phase = "running" => \A e \in events : ~Concerns(e, m))
    <3>1. m.phase = "running" => \A e \in Unheard(a) : ~OfStep(a, e)
      <4>1. ASSUME m.phase = "running", NEW e \in Unheard(a), OfStep(a, e) PROVE FALSE
        BY <1>0, <2>3, <2>9, <4>1, StepConcerns
      <4> QED BY <4>1
    <3>2. m.phase = "running" => Count(a) = m.cursor /\ rt.active[a].by = "mind"
      <4> SUFFICES ASSUME m.phase = "running" PROVE Count(a) = m.cursor /\ rt.active[a].by = "mind"
        OBVIOUS
      <4>1. Count(a) = m.cursor
        BY <1>0, <2>3, <2>6, <3>1 DEF FollowsOK, CountOK, OfStep
      <4>2. ~\E e \in Unheard(a) : IsEnd(e) /\ Latest(a, e.subject)
        BY <3>1, <4>1 DEF OfStep
      <4> QED BY <1>0, <4>1, <4>2 DEF FollowsOK, ActiveOK
    <3>3. CountOK(a)'
      BY <1>0, <2>2, <2>4, <2>6, <2>7, <2>9, <3>2 DEF FollowsOK, CountOK, Waits
    <3>4. StoppedOK(a)'
      BY <1>0, <1>2, <2>2, <2>6, <2>9 DEF FollowsOK, StoppedOK, Waits
    <3>5. ListOK(a)'
      BY <1>0, <1>2, <2>2, <2>6, <2>9 DEF FollowsOK, ListOK, Waits
    <3>6. ActiveOK(a)'
      BY <1>0, <1>2, <2>2, <2>6, <2>9, <3>2 DEF FollowsOK, ActiveOK, Waits
    <3>7. StateOK(a)'
      BY <1>0, <2>1, <2>2, <2>9 DEF StateOK, Waits
    <3> QED BY <2>2, <2>4, <3>3, <3>4, <3>5, <3>6, <3>7 DEF FollowsOK
  <2>10. ASSUME NEW k \in Nat, k = m.cursor + 1, Goes(m, n, k), Count(a) = m.cursor, rt.active[a].by # "mind",
                \A x \in Started(a) : EndedAs(x.id, "succeeded")
         PROVE  StateOK(a)' /\ FollowsOK(a)'
    <3>0. n.answer # "none"
      <4>1. m.steps \in Seq(Names) /\ k \in 1..Len(m.steps)
        BY <1>0, <2>7, <2>10, MissionAssumption DEF Mission, Goes
      <4>2. m.steps[k] \in Names
        BY <4>1
      <4> QED BY <2>10, <4>2 DEF Goes, Names
    <3>1. CountOK(a)'
      BY <1>0, <2>2, <2>4, <2>6, <2>7, <2>10, <3>0 DEF CountOK, Goes
    <3>2. StoppedOK(a)'
      BY <2>10 DEF StoppedOK, Goes
    <3>3. ListOK(a)'
      BY <1>0, <1>2, <2>2, <2>6, <2>10 DEF FollowsOK, ListOK, Goes
    <3>4. ActiveOK(a)'
      BY <1>0, <1>2, <2>2, <2>6, <2>7, <2>10 DEF FollowsOK, ActiveOK, Goes
    <3>5. StateOK(a)'
      BY <1>0, <2>1, <2>2, <2>7, <2>10 DEF StateOK, Goes
    <3> QED BY <2>4, <3>1, <3>2, <3>3, <3>4, <3>5 DEF FollowsOK
  <2>11. CASE m.phase = "ready" /\ Goes(m, n, 1)
    <3>1. Count(a) = 0 /\ m.cursor = 0 /\ rt.active[a].by # "mind"
      BY <1>0, <2>7, <2>8, <2>11 DEF FollowsOK, CountOK
    <3>2. \A x \in Started(a) : FALSE
      BY <1>0, <3>1, LatestIsLast
    <3> QED BY <2>2, <2>10, <2>11, <3>1, <3>2
  <2>12. CASE m.phase = "running" /\ \E e \in events :
       /\ Concerns(e, m) /\ \A f \in events : Concerns(f, m) => ~Before(f, e)
       /\ \/ e.kind # "completed" /\ Stops(m, n, "stopped")
          \/ e.kind = "completed" /\ m.cursor = Len(m.steps) /\ Stops(m, n, "done")
          \/ e.kind = "completed" /\ m.cursor < Len(m.steps) /\ Goes(m, n, m.cursor + 1)
    <3>1. PICK e \in Unheard(a) :
       /\ Concerns(e, m) /\ \A f \in events : Concerns(f, m) => ~Before(f, e)
       /\ \/ e.kind # "completed" /\ Stops(m, n, "stopped")
          \/ e.kind = "completed" /\ m.cursor = Len(m.steps) /\ Stops(m, n, "done")
          \/ e.kind = "completed" /\ m.cursor < Len(m.steps) /\ Goes(m, n, m.cursor + 1)
      BY <2>5, <2>12
    <3>2. \A f \in Unheard(a) : Concerns(f, m) => ~Before(f, e)
      BY <2>3, <3>1
    <3>3. /\ e.kind = "completed" => StepOver(a, e.subject, {"succeeded"})
          /\ e.kind # "completed" =>
              \/ e.kind = "rejected"
              \/ StepOver(a, e.subject, {"failed", "preempted"})
              \/ \E x \in known : x.by = "world" /\ x.name = m.steps[m.cursor] /\ EndedAs(x.id, "preempted")
      BY <1>0, <2>12, <3>1, <3>2, FirstIsOfStep
    <3>4. CASE e.kind # "completed" /\ Stops(m, n, "stopped")
      <4>1. CountOK(a)'
        BY <1>0, <2>2, <2>4, <2>6, <2>7, <2>12, <3>4 DEF FollowsOK, CountOK, Stops
      <4>2. StoppedOK(a)'
        <5>1. e.kind = "rejected" => Count(a) = m.cursor - 1
          BY <1>0 DEF FollowsOK, CountOK
        <5>2. StepOver(a, e.subject, {"failed", "preempted"}) =>
                \E x \in Started(a), status \in {"failed", "preempted"} : Latest(a, x.id) /\ EndedAs(x.id, status)
          BY DEF StepOver, Latest
        <5> QED BY <1>0, <1>2, <2>2, <2>6, <3>3, <3>4, <5>1, <5>2 DEF StoppedOK, Stops
      <4>3. ListOK(a)'
        BY <1>0, <1>2, <2>2, <2>6, <2>12, <3>4 DEF FollowsOK, ListOK, Stops
      <4>4. ActiveOK(a)'
        BY <1>0, <1>2, <2>2, <2>6, <2>12, <3>4 DEF FollowsOK, ActiveOK, Stops
      <4>5. StateOK(a)'
        BY <1>0, <2>1, <2>2, <2>7, <2>12, <3>4 DEF StateOK, Stops
      <4> QED BY <2>2, <2>4, <4>1, <4>2, <4>3, <4>4, <4>5 DEF FollowsOK
    <3>5. ASSUME e.kind = "completed"
          PROVE  /\ Count(a) = m.cursor /\ rt.active[a].by # "mind"
                 /\ \A x \in Started(a) : EndedAs(x.id, "succeeded")
      <4>1. Latest(a, e.subject) /\ Count(a) = m.cursor /\ EndedAs(e.subject, "succeeded")
        BY <3>3, <3>5 DEF StepOver
      <4>2. rt.active[a].by # "mind"
        <5>1. rt.active[a].by = "mind" => Latest(a, rt.active[a].id)
          BY <1>0 DEF FollowsOK, ActiveOK
        <5>2. rt.active[a].by = "mind" => rt.active[a].id = e.subject
          <6>1. \A x \in Started(a) : x.id \in Nat
            BY <1>0 DEF Started, MissionTypes, Action
          <6> QED BY <4>1, <5>1, <6>1 DEF Latest
        <5> QED BY <2>8, <4>1, <5>2 DEF EndedAs
      <4>3. ASSUME NEW x \in Started(a) PROVE EndedAs(x.id, "succeeded")
        <5>1. Nth(a, x) \in Nat /\ Nth(a, x) <= m.cursor /\ (Nth(a, x) = m.cursor => Latest(a, x.id))
          BY <1>0, <4>1, LatestIsLast
        <5>2. Nth(a, x) < m.cursor => EndedAs(x.id, "succeeded")
          BY <1>0 DEF FollowsOK, ListOK
        <5>3. Latest(a, x.id) => x.id = e.subject
          <6>1. \A y \in Started(a) : y.id \in Nat
            BY <1>0 DEF Started, MissionTypes, Action
          <6> QED BY <4>1, <6>1 DEF Latest
        <5> QED BY <2>7, <4>1, <5>1, <5>2, <5>3
      <4> QED BY <4>1, <4>2, <4>3
    <3>6. CASE e.kind = "completed" /\ m.cursor = Len(m.steps) /\ Stops(m, n, "done")
      <4>1. CountOK(a)'
        BY <1>0, <2>2, <2>4, <2>6, <2>7, <2>12, <3>5, <3>6 DEF CountOK, Stops
      <4>2. StoppedOK(a)'
        BY <3>6 DEF StoppedOK, Stops
      <4>3. ListOK(a)'
        BY <1>0, <1>2, <2>2, <2>6, <3>5, <3>6 DEF FollowsOK, ListOK, Stops
      <4>4. ActiveOK(a)'
        BY <1>0, <1>2, <2>2, <2>6, <3>5, <3>6 DEF FollowsOK, ActiveOK, Stops
      <4>5. StateOK(a)'
        BY <1>0, <2>1, <2>2, <2>7, <2>12, <3>6 DEF StateOK, Stops
      <4> QED BY <2>2, <2>4, <4>1, <4>2, <4>3, <4>4, <4>5 DEF FollowsOK
    <3>7. CASE e.kind = "completed" /\ Goes(m, n, m.cursor + 1)
      BY <2>2, <2>7, <2>10, <3>5, <3>7
    <3> QED BY <3>1, <3>4, <3>6, <3>7
  <2> QED BY <2>2, <2>9, <2>11, <2>12 DEF Decided
<1> QED BY <1>4, <1>5

\* The answers arrive: each mission's is the decision it returned.
LEMMA AnswerStep ==
  ASSUME Inv, MissionInv, MissionsAnswer, NEW a \in Missioned
  PROVE  StateOK(a)' /\ FollowsOK(a)'
<1>0. /\ a \in Agents /\ slots \in [Agents -> Slot] /\ tick \in Nat
      /\ MissionTypes /\ KnownOK /\ StateOK(a) /\ FollowsOK(a) /\ deciding \subseteq Open
      /\ UNCHANGED <<pc, turn, rt, tick, inbox, known, fates, mission>> /\ deciding' = {}
  <2>1. a \in Agents
    BY WorldAssumption DEF Missioned
  <2>2. UNCHANGED <<pc, turn, rt, tick, inbox, known, fates, mission>> /\ deciding' = {}
    BY DEF MissionsAnswer, DecisionsArrive, missionVars
  <2> QED BY <2>1, <2>2 DEF Inv, IInv, TypeOK, LockstepPhases, MissionInv
<1>1. PICK S \in SUBSET deciding : \E f \in [S -> Decisions] :
        slots' = [b \in Agents |->
            IF b \in S THEN [slots[b] EXCEPT !.state = "answered", !.answer = f[b]] ELSE slots[b]]
  BY DEF MissionsAnswer, DecisionsArrive
<1>2. a \notin deciding => slots'[a] = slots[a]
  BY <1>0, <1>1
<1>3. a \in deciding => /\ slots'[a].state = "answered" /\ slots'[a].answer = [NoDecision EXCEPT !.action = mission[a].answer]
                        /\ slots[a].state = "open"
  BY <1>0 DEF MissionsAnswer, Open
<1>4. a \in deciding => slots'[a].answer.timers = <<>> /\ slots'[a].answer.action = mission[a].answer
  BY <1>3 DEF NoDecision
<1>5. Ran(a)' = Ran(a) /\ EndedEvents(a)' = EndedEvents(a)
  BY <1>0 DEF Ran, EndedEvents
<1>6. Unheard(a)' = Unheard(a)
  BY <1>0, <1>2, <1>3, <1>5 DEF Unheard
<1>7. Pending(a)' <=> Pending(a)
  BY <1>0, <1>2, <1>3, <1>4 DEF Pending
<1>8. Later(a)
  BY <1>0 DEF Later, Acted
<1>9. FollowsOK(a)'
  BY <1>0, <1>5, <1>6, <1>7, <1>8, NothingMoves
<1>10. StateOK(a)'
  BY <1>0, <1>2, <1>3, <1>4 DEF StateOK
<1> QED BY <1>9, <1>10

\* What a step of the world does to the records.
LEMMA WorldRecords ==
  ASSUME Inv, MissionInv, InTheWorld
  PROVE  MissionTypes' /\ KnownOK' /\ Missioned' = Missioned /\ Recorded
<1>0. rt \in Runtime /\ MissionTypes /\ KnownOK /\ Recorded /\ IdsAreGiven(rt) /\ IInv
  BY DEF Inv, IInv, TypeOK, MissionInv, InTheWorld, Recorded, FatesInv, Fated
<1>1. CASE UNCHANGED rt
  BY <1>0, <1>1, RecordsStay
<1>2. CASE CollectEvents
  <2>1. rt' = [rt EXCEPT !.ended = <<>>]
    BY <1>2 DEF CollectEvents, TakeEnded
  <2>2. rt'.active = rt.active /\ rt'.ended = <<>> /\ rt'.nextAction = rt.nextAction /\ rt'.traced.started = rt.traced.started
    BY <1>0, <2>1 DEF Runtime
  <2> QED BY <1>0, <2>2, RecordsStay
<1>3. ASSUME NEW b \in Agents, Moves(rt, rt', b)
      PROVE  MissionTypes' /\ KnownOK' /\ Missioned' = Missioned
  BY <1>0, <1>3, RecordsMove
<1>4. (\E b \in Agents : Moves(rt, rt', b)) \/ UNCHANGED rt \/ CollectEvents
  <2>1. CASE ApplyInput
    <3>1. UNCHANGED rt \/ rt' = Begin(rt, inputLog[turn].agent, inputLog[turn].name, "world")
      BY <2>1 DEF ApplyInput
    <3>2. inputLog[turn].agent \in Agents /\ inputLog[turn].name \in Names
      <4>1. turn \in 1..Len(inputLog) /\ inputLog \in Seq([agent : Agents, name : Names, tick : Nat])
        BY <1>0, <2>1 DEF IInv, TypeOK, ApplyInput
      <4>2. inputLog[turn] \in [agent : Agents, name : Names, tick : Nat]
        BY <4>1, SeqElement
      <4> QED BY <4>2
    <3> QED BY <1>0, <3>1, <3>2, BeginsMove
  <2>2. ASSUME NEW b \in Agents, ApplyDecision(b)
        PROVE  UNCHANGED rt \/ Moves(rt, rt', b)
    <3>1. UNCHANGED rt \/ (rt' = Begin(rt, b, slots[b].answer.action, "mind") /\ slots[b].answer.action # "none")
      BY <2>2 DEF ApplyDecision
    <3>2. slots[b].answer.action # "none" => slots[b].answer.action \in Names
      BY <1>0 DEF IInv, TypeOK, Slot, Decision
    <3> QED BY <1>0, <3>1, <3>2, BeginsMove
  <2>3. ASSUME NEW b \in Agents, ActAgent(b)
        PROVE  Moves(rt, rt', b)
    <3>1. PICK level \in Drain(soc[b]), outcome \in StepOutcomes, name \in Names, refused \in BOOLEAN :
            rt' = RuntimeTick(rt, b, outcome, level, name, refused)
      BY <2>3 DEF ActAgent
    <3>2. level \in 0..FullSoc
      BY <1>0, SocAssumption DEF IInv, TypeOK, Drain
    <3> QED BY <1>0, <3>1, <3>2, TickMoves
  <2> QED BY <2>1, <2>2, <2>3 DEF InTheWorld, Tick, StartTick, InputsDone, BrainsDone, TickDone, TickThrows,
            ApplyTimerOp, Ask, DoNotAsk, Inject
<1> QED BY <1>0, <1>1, <1>2, <1>3, <1>4

\* A step that leaves the runtime, the events and the requests alone.
LEMMA PhaseStep ==
  ASSUME Inv, MissionInv, Recorded, UNCHANGED <<rt, inbox, slots, deciding>>, NEW a \in Missioned,
         tick' = tick \/ rt.ended = <<>>, Later(a)
  PROVE  FollowsOK(a)'
<1>1. EndedEvents(a)' = EndedEvents(a)
  BY DEF EndedEvents
<1>2. Unheard(a)' = Unheard(a) /\ (Pending(a)' <=> Pending(a))
  BY <1>1 DEF Unheard, Pending, Recorded
<1> QED BY <1>2, StillStep

\* What is collected is what was waiting.
LEMMA CollectStep ==
  ASSUME Inv, MissionInv, Recorded, CollectEvents, NEW a \in Missioned
  PROVE  FollowsOK(a)'
<1>0. /\ rt \in Runtime /\ tick \in Nat /\ a \in Agents /\ a \in Minded
      /\ slots[a].state = "free" /\ deciding = {}
      /\ UNCHANGED <<slots, deciding, tick>> /\ pc' = "asks" /\ rt' = [rt EXCEPT !.ended = <<>>]
  <2>1. a \in Agents /\ a \in Minded
    BY WorldAssumption DEF Missioned
  <2> QED BY <2>1 DEF Inv, IInv, TypeOK, LockstepPhases, CollectEvents, TakeEnded
<1>1. PICK seen \in [Minded -> SUBSET Subjects] :
        inbox'[a] = AddEvents(inbox[a], EndedEvents(a) \cup BatteryEvents(a)
                                          \cup PerceptionEvents(seen[a]) \cup TimerEvents(a))
  BY <1>0 DEF CollectEvents
<1>2. /\ \A e \in BatteryEvents(a) : e.kind = "battery"
      /\ \A e \in PerceptionEvents(seen[a]) : e.kind = "perception"
      /\ \A e \in TimerEvents(a) : e.kind = "timer"
  BY DEF BatteryEvents, PerceptionEvents, TimerEvents, NewEvent
<1>3. \A e : e.kind \in StepKinds => (e \in inbox'[a] <=> e \in inbox[a] \/ e \in EndedEvents(a))
  BY <1>1, <1>2 DEF AddEvents, StepKinds
<1>4. /\ rt'.active = rt.active /\ rt'.recovering = rt.recovering /\ rt'.ended = <<>>
      /\ rt'.nextAction = rt.nextAction /\ rt'.traced.started = rt.traced.started
  BY <1>0 DEF Runtime
<1>5. EndedEvents(a)' = {}
  BY <1>4 DEF EndedEvents
<1>6. Unheard(a)' = Unheard(a)
  BY <1>0, <1>3, <1>5 DEF Unheard
<1>7. Pending(a)' <=> Pending(a)
  BY <1>0 DEF Pending
<1>8. Later(a)
  BY <1>0 DEF Later, Acted
<1> QED BY <1>4, <1>6, <1>7, <1>8, StillStep

\* A request takes what waited in the inbox.
LEMMA AskStepOf ==
  ASSUME Inv, MissionInv, Recorded, NEW b \in Agents, Ask(b), NEW a \in Missioned
  PROVE  FollowsOK(a)' /\ (a = b => slots'[a].state = "open" /\ inbox'[a] = {})
<1>0. /\ a \in Agents /\ inbox \in [Agents -> SUBSET Event] /\ slots \in [Agents -> Slot]
      /\ deciding = {} /\ UNCHANGED <<rt, tick, deciding>> /\ pc = "asks" /\ pc' = "asks"
      /\ slots[b].state = "free"
      /\ inbox' = [inbox EXCEPT ![b] = {}]
      /\ slots' = [slots EXCEPT ![b] = [FreeSlot EXCEPT !.state = "open", !.events = inbox[b]]]
  <2>1. a \in Agents
    BY WorldAssumption DEF Missioned
  <2> QED BY <2>1 DEF Inv, IInv, TypeOK, LockstepPhases, Ask, WouldAsk
<1>1. EndedEvents(a)' = EndedEvents(a)
  BY <1>0 DEF EndedEvents
<1>2. a = b => slots'[a].state = "open" /\ slots'[a].events = inbox[a] /\ inbox'[a] = {}
  BY <1>0 DEF FreeSlot
<1>3. a # b => slots'[a] = slots[a] /\ inbox'[a] = inbox[a]
  BY <1>0
<1>4. Unheard(a)' = Unheard(a)
  BY <1>0, <1>1, <1>2, <1>3 DEF Unheard
<1>5. Pending(a)' <=> Pending(a)
  BY <1>0, <1>2, <1>3 DEF Pending
<1>6. Later(a)
  BY <1>0 DEF Later, Acted
<1>7. FollowsOK(a)'
  BY <1>0, <1>4, <1>5, <1>6, StillStep
<1> QED BY <1>2, <1>7

(***************************************************************************)
(* The steps of the world                                                  *)
(***************************************************************************)
\* While a mission is not asked, its answer and its request agree.
LEMMA StateStays ==
  ASSUME NEW a \in Missioned, StateOK(a), UNCHANGED mission,
         \/ slots'[a] = slots[a] /\ (inbox'[a] = inbox[a] \/ slots[a].state = "free")
         \/ slots'[a].state = "free"
         \/ slots'[a].state = "open" /\ inbox'[a] = {}
  PROVE  StateOK(a)'
BY DEF StateOK

\* What the steps of the world leave as they are.
LEMMA WorldFacts ==
  ASSUME Inv, MissionInv, InTheWorld, NEW a \in Missioned
  PROVE  /\ a \in Agents /\ a \in Minded /\ Recorded /\ rt \in Runtime /\ tick \in Nat /\ IdsAreGiven(rt)
         /\ Agents = 1..N /\ N \in Nat /\ turn \in Nat
         /\ slots \in [Agents -> Slot] /\ inbox \in [Agents -> SUBSET Event]
         /\ StateOK(a) /\ FollowsOK(a) /\ MissionTypes /\ KnownOK /\ LockstepPhases
<1>1. a \in Agents /\ a \in Minded /\ Agents = 1..N /\ N \in Nat
  BY WorldAssumption DEF Missioned
<1>2. Recorded
  BY DEF InTheWorld, Recorded
<1> QED BY <1>1, <1>2 DEF Inv, IInv, TypeOK, FatesInv, Fated, MissionInv

\* A run input replaces the agent's action, aloud.
LEMMA InputFollows ==
  ASSUME Inv, MissionInv, InTheWorld, ApplyInput, NEW a \in Missioned
  PROVE  FollowsOK(a)'
<1>0. /\ a \in Agents /\ Recorded /\ rt \in Runtime /\ IdsAreGiven(rt)
      /\ pc = "inputs" /\ UNCHANGED <<pc, tick, inbox, slots, deciding>>
      /\ inputLog \in Seq([agent : Agents, name : Names, tick : Nat]) /\ turn \in 1..Len(inputLog)
  BY WorldFacts DEF ApplyInput, Inv, IInv, TypeOK
<1>1. Later(a)
  BY <1>0 DEF Later, Acted
<1>2. CASE UNCHANGED rt
  BY <1>0, <1>1, <1>2, PhaseStep
<1>3. ASSUME NEW b \in Agents, NEW name \in Names, rt' = Begin(rt, b, name, "world")
      PROVE  FollowsOK(a)'
  <2>1. Moves(rt, rt', b) /\ Loudly(rt, rt', b) /\ Begun(rt, rt', b, name, "world")
    <3>1. "world" \in Callers
      BY DEF Callers
    <3> QED BY <1>0, <1>3, <3>1, BeginsMove, BeginMoves
  <2>2. CASE a = b
    <3>1. rt'.ended = rt.ended
            \/ rt'.ended = Append(rt.ended, [agent |-> a, id |-> rt.active[a].id, status |-> "preempted"])
      BY <2>1, <2>2 DEF Begun
    <3> QED BY <1>0, <2>1, <2>2, <3>1, LoudStep
  <2>3. CASE a # b
    <3>1. a \in Missioned \ {b}
      BY <2>3
    <3> QED BY <1>0, <1>1, <2>1, <3>1, OtherStep
  <2> QED BY <2>2, <2>3
<1>4. inputLog[turn].agent \in Agents /\ inputLog[turn].name \in Names
  <2>1. inputLog[turn] \in [agent : Agents, name : Names, tick : Nat]
    BY <1>0, SeqElement
  <2> QED BY <2>1
<1>5. UNCHANGED rt \/ rt' = Begin(rt, inputLog[turn].agent, inputLog[turn].name, "world")
  BY DEF ApplyInput
<1> QED BY <1>2, <1>3, <1>4, <1>5

\* A decision is applied or refused.
LEMMA DecisionFollows ==
  ASSUME Inv, MissionInv, InTheWorld, NEW b \in Agents, ApplyDecision(b), NEW a \in Missioned
  PROVE  FollowsOK(a)' /\ (a = b => slots'[a].state = "free")
                       /\ (a # b => slots'[a] = slots[a] /\ inbox'[a] = inbox[a])
<1> DEFINE answer == slots[b].answer.action
<1>0. /\ a \in Agents /\ Recorded /\ rt \in Runtime /\ IdsAreGiven(rt)
      /\ slots \in [Agents -> Slot] /\ inbox \in [Agents -> SUBSET Event] /\ StateOK(a)
      /\ pc = "brains" /\ UNCHANGED <<pc, tick, deciding>> /\ deciding = {} /\ b \notin Open
      /\ slots' = [slots EXCEPT ![b] = FreeSlot]
      /\ \/ slots[b].state = "free" /\ UNCHANGED <<rt, inbox>>
         \/ answer = "none" /\ UNCHANGED <<rt, inbox>>
         \/ /\ slots[b].state # "free" /\ answer # "none"
            /\ \/ rt' = Begin(rt, b, answer, "mind") /\ UNCHANGED inbox
               \/ Reject(b) /\ UNCHANGED rt
  <2>1. pc = "brains" /\ UNCHANGED <<pc, tick, deciding>> /\ slots' = [slots EXCEPT ![b] = FreeSlot]
    BY DEF ApplyDecision
  <2>2. deciding = {} /\ Open = {}
    BY <2>1, WorldFacts DEF LockstepPhases
  <2>3. \/ slots[b].state = "free" /\ UNCHANGED <<rt, inbox>>
        \/ answer = "none" /\ UNCHANGED <<rt, inbox>>
        \/ /\ slots[b].state # "free" /\ answer # "none"
           /\ \/ rt' = Begin(rt, b, answer, "mind") /\ UNCHANGED inbox
              \/ Reject(b) /\ UNCHANGED rt
    BY DEF ApplyDecision
  <2> QED BY <2>1, <2>2, <2>3, WorldFacts
<1>1. Later(a)
  BY <1>0 DEF Later, Acted
<1>2. slots'[b] = FreeSlot /\ slots'[b].state = "free" /\ (a # b => slots'[a] = slots[a])
  BY <1>0 DEF FreeSlot
<1>3. a # b => inbox'[a] = inbox[a]
  BY <1>0 DEF Reject
<1>4. slots[b].state # "free" => slots[b].state = "answered"
  BY <1>0 DEF Slot, Open
<1>5. answer # "none" => answer \in Names
  BY <1>0 DEF Slot, Decision
<1> HIDE DEF answer
<1>6. ASSUME a # b PROVE FollowsOK(a)'
  <2>1. a \in Missioned \ {b}
    BY <1>6
  <2>2. CASE UNCHANGED rt
    <3>1. EndedEvents(a)' = EndedEvents(a)
      BY <1>0, <2>2 DEF EndedEvents
    <3>2. Unheard(a)' = Unheard(a) /\ (Pending(a)' <=> Pending(a))
      BY <1>0, <1>2, <1>3, <1>6, <3>1 DEF Unheard, Pending, Recorded
    <3>3. rt'.active = rt.active /\ rt'.recovering = rt.recovering /\ rt'.ended = rt.ended
          /\ rt'.nextAction = rt.nextAction /\ rt'.traced.started = rt.traced.started
      BY <2>2
    <3> QED BY <1>0, <1>1, <3>2, <3>3, StillStep
  <2>3. CASE rt' = Begin(rt, b, answer, "mind") /\ answer # "none"
    <3>1. Moves(rt, rt', b)
      BY <1>0, <1>5, <2>3, BeginsMove
    <3> QED BY <1>0, <1>1, <1>2, <1>3, <1>6, <2>1, <3>1, OtherStep
  <2> QED BY <1>0, <2>2, <2>3
<1>7. ASSUME a = b PROVE FollowsOK(a)'
  <2>1. CASE (slots[a].state = "free" \/ answer = "none") /\ UNCHANGED <<rt, inbox>>
    <3>1. EndedEvents(a)' = EndedEvents(a)
      BY <1>0, <2>1 DEF EndedEvents
    <3>2. slots[a].state # "open" /\ slots'[a].state = "free"
      BY <1>0, <1>2, <1>7 DEF Open
    <3>3. Unheard(a)' = Unheard(a)
      BY <1>0, <2>1, <3>1, <3>2 DEF Unheard
    <3>4. ~Pending(a) /\ ~Pending(a)'
      BY <1>0, <1>7, <2>1, <3>2 DEF Pending, answer
    <3>5. rt'.active = rt.active /\ rt'.recovering = rt.recovering /\ rt'.ended = rt.ended
          /\ rt'.nextAction = rt.nextAction /\ rt'.traced.started = rt.traced.started
      BY <2>1
    <3> QED BY <1>0, <1>1, <3>3, <3>4, <3>5, StillStep
  <2>2. CASE slots[a].state # "free" /\ answer # "none"
    <3>1. slots[a].state = "answered" /\ slots'[a] = FreeSlot
      BY <1>2, <1>4, <1>7, <2>2
    <3>2. answer = mission[a].answer /\ mission[a].answer \in Names /\ Pending(a)
          /\ mission[a].answer = mission[a].steps[mission[a].cursor]
      BY <1>0, <1>5, <1>7, <2>2, <3>1 DEF StateOK, Pending, answer
    <3>3. CASE rt' = Begin(rt, b, answer, "mind") /\ UNCHANGED inbox
      <4>1. rt' = Begin(rt, a, mission[a].answer, "mind") /\ UNCHANGED <<tick, inbox, deciding>>
        BY <1>0, <1>7, <3>2, <3>3
      <4> QED BY <1>0, <3>1, <3>2, <4>1, DecisionStarts
    <3>4. CASE Reject(b) /\ UNCHANGED rt
      <4>1. Reject(a) /\ UNCHANGED <<rt, tick, deciding>>
        BY <1>0, <1>7, <3>4
      <4> QED BY <1>0, <3>1, <3>2, <4>1, DecisionRefused
    <3> QED BY <1>0, <1>7, <2>2, <3>3, <3>4
  <2> QED BY <1>0, <1>7, <2>1, <2>2
<1> QED BY <1>2, <1>3, <1>6, <1>7

\* A tick's actions: of the agent itself, or of another.
LEMMA ActFollows ==
  ASSUME Inv, MissionInv, InTheWorld, NEW b \in Agents, ActAgent(b), NEW a \in Missioned
  PROVE  FollowsOK(a)'
<1>0. /\ a \in Agents /\ Agents = 1..N /\ N \in Nat /\ Recorded /\ rt \in Runtime /\ IdsAreGiven(rt) /\ turn \in Nat
      /\ pc = "actions" /\ turn = b /\ turn' = turn + 1 /\ UNCHANGED <<pc, tick, inbox, slots, deciding>>
  BY WorldFacts DEF ActAgent
<1>1. Moves(rt, rt', b) /\ Loudly(rt, rt', b)
  <2>1. PICK level \in Drain(soc[b]), outcome \in StepOutcomes, name \in Names, refused \in BOOLEAN :
          rt' = RuntimeTick(rt, b, outcome, level, name, refused)
    BY DEF ActAgent
  <2>2. level \in 0..FullSoc
    BY SocAssumption DEF Inv, IInv, TypeOK, Drain
  <2> QED BY <1>0, <2>1, <2>2, TickMoves
<1>2. CASE a = b
  <2>1. Acted(a)'
    BY <1>0, <1>2 DEF Acted
  <2> QED BY <1>0, <1>1, <1>2, <2>1, LoudStep
<1>3. CASE a # b
  <2>1. Later(a)
    BY <1>0 DEF Later, Acted
  <2>2. a \in Missioned \ {b}
    BY <1>3
  <2> QED BY <1>0, <1>1, <2>1, <2>2, OtherStep
<1> QED BY <1>2, <1>3

\* A timer operation is never a mission's, and a refused one tells its own mind.
LEMMA TimerFollows ==
  ASSUME Inv, MissionInv, InTheWorld, NEW b \in Agents, ApplyTimerOp(b), NEW a \in Missioned
  PROVE  FollowsOK(a)' /\ inbox'[a] = inbox[a] /\ slots'[a] = slots[a]
<1>0. /\ a \in Agents /\ Recorded /\ rt \in Runtime /\ StateOK(a) /\ inbox \in [Agents -> SUBSET Event]
      /\ pc = "brains" /\ UNCHANGED <<pc, rt, tick, slots, deciding>>
      /\ slots[b].state = "answered" /\ op \in Nat \ {0} /\ op <= Len(slots[b].answer.timers)
      /\ UNCHANGED inbox \/ Reject(b)
  BY WorldFacts DEF ApplyTimerOp, Inv, IInv, TypeOK
<1>1. a # b
  <2>1. ASSUME a = b PROVE FALSE
    <3>1. slots[b].answer.timers = <<>>
      BY <1>0, <2>1 DEF StateOK
    <3>2. Len(slots[b].answer.timers) = 0
      BY <3>1
    <3> QED BY <1>0, <3>2
  <2> QED BY <2>1
<1>2. inbox'[a] = inbox[a]
  BY <1>0, <1>1 DEF Reject
<1>3. EndedEvents(a)' = EndedEvents(a)
  BY <1>0 DEF EndedEvents
<1>4. Unheard(a)' = Unheard(a) /\ (Pending(a)' <=> Pending(a))
  BY <1>0, <1>2, <1>3 DEF Unheard, Pending, Recorded
<1>5. Later(a)
  BY <1>0 DEF Later, Acted
<1> QED BY <1>0, <1>2, <1>4, <1>5, StillStep

\* The other steps move on the phase.
LEMMA QuietFollows ==
  ASSUME Inv, MissionInv, InTheWorld, NEW a \in Missioned,
         \/ StartTick \/ InputsDone \/ BrainsDone \/ TickDone \/ TickThrows
         \/ \E b \in Agents : DoNotAsk(b)
         \/ \E b \in Agents, name \in Names, t \in 1..MaxTick : Inject(b, name, t)
  PROVE  FollowsOK(a)' /\ inbox'[a] = inbox[a] /\ slots'[a] = slots[a]
<1>0. a \in Agents /\ Agents = 1..N /\ N \in Nat /\ turn \in Nat /\ Recorded /\ tick \in Nat
  BY WorldFacts
<1>1. UNCHANGED <<rt, inbox, slots, deciding>>
  BY DEF StartTick, InputsDone, BrainsDone, TickDone, TickThrows, DoNotAsk, Inject
<1>2. CASE StartTick
  <2>1. rt.ended = <<>> /\ tick' = tick + 1
    BY <1>2 DEF StartTick, Inv, FatesInv
  <2>2. Later(a)
    BY <1>0, <2>1 DEF Later
  <2> QED BY <1>0, <1>1, <2>1, <2>2, PhaseStep
<1>3. CASE ~StartTick
  <2>1. tick' = tick
    BY <1>3 DEF InputsDone, BrainsDone, TickDone, TickThrows, DoNotAsk, Inject
  <2>2. Acted(a) => Acted(a)'
    BY <1>0, <1>3 DEF Acted, InputsDone, BrainsDone, TickDone, TickThrows, DoNotAsk, Inject
  <2>3. Later(a)
    BY <2>1, <2>2 DEF Later
  <2> QED BY <1>0, <1>1, <2>1, <2>3, PhaseStep
<1> QED BY <1>2, <1>3

\* Every step of the world keeps a mission on its list.
LEMMA WorldStep ==
  ASSUME Inv, MissionInv, InTheWorld, NEW a \in Missioned
  PROVE  StateOK(a)' /\ FollowsOK(a)'
<1>0. StateOK(a) /\ Recorded /\ UNCHANGED mission /\ LockstepPhases /\ a \in Agents
  BY WorldFacts DEF Recorded
<1>1. ASSUME ApplyInput PROVE StateOK(a)' /\ FollowsOK(a)'
  <2>1. UNCHANGED <<slots, inbox>>
    BY <1>1 DEF ApplyInput
  <2> QED BY <1>0, <1>1, <2>1, InputFollows, StateStays
<1>2. ASSUME NEW b \in Agents, ApplyDecision(b) PROVE StateOK(a)' /\ FollowsOK(a)'
  BY <1>0, <1>2, DecisionFollows, StateStays
<1>3. ASSUME NEW b \in Agents, ActAgent(b) PROVE StateOK(a)' /\ FollowsOK(a)'
  <2>1. UNCHANGED <<slots, inbox>>
    BY <1>3 DEF ActAgent
  <2> QED BY <1>0, <1>3, <2>1, ActFollows, StateStays
<1>4. ASSUME NEW b \in Agents, ApplyTimerOp(b) PROVE StateOK(a)' /\ FollowsOK(a)'
  BY <1>0, <1>4, TimerFollows, StateStays
<1>5. ASSUME CollectEvents PROVE StateOK(a)' /\ FollowsOK(a)'
  <2>1. UNCHANGED slots /\ slots[a].state = "free"
    BY <1>0, <1>5 DEF CollectEvents, LockstepPhases
  <2> QED BY <1>0, <1>5, <2>1, CollectStep, StateStays
<1>6. ASSUME NEW b \in Agents, Ask(b) PROVE StateOK(a)' /\ FollowsOK(a)'
  <2>1. a # b => slots'[a] = slots[a] /\ inbox'[a] = inbox[a]
    BY <1>0, <1>6, WorldFacts DEF Ask
  <2>2. FollowsOK(a)' /\ (a = b => slots'[a].state = "open" /\ inbox'[a] = {})
    BY <1>0, <1>6, AskStepOf
  <2> QED BY <1>0, <2>1, <2>2, StateStays
<1>7. ASSUME \/ StartTick \/ InputsDone \/ BrainsDone \/ TickDone \/ TickThrows
             \/ \E b \in Agents : DoNotAsk(b)
             \/ \E b \in Agents, name \in Names, t \in 1..MaxTick : Inject(b, name, t)
      PROVE  StateOK(a)' /\ FollowsOK(a)'
  BY <1>0, <1>7, QuietFollows, StateStays
<1> QED BY <1>1, <1>2, <1>3, <1>4, <1>5, <1>6, <1>7 DEF InTheWorld, Tick

(***************************************************************************)
(* The invariant                                                           *)
(***************************************************************************)
\* At first nothing has run, and every mission waits for its `start`.
LEMMA MissionInvInit == MissionInit => MissionInv
<1> SUFFICES ASSUME MissionInit PROVE MissionInv
  OBVIOUS
<1>0. /\ known = {} /\ fates = {} /\ mission \in [Minded -> {NewMission(list) : list \in Lists}]
      /\ Init /\ rt = RuntimeInit /\ deciding = {} /\ inbox = [a \in Agents |-> {}]
      /\ slots = [a \in Agents |->
           IF a \in Minded
           THEN [FreeSlot EXCEPT !.state = "open", !.events = {NewEvent("start", 0, 0, 0)}]
           ELSE FreeSlot]
  BY DEF MissionInit, Init
<1>1. MissionTypes
  <2>1. ASSUME NEW list \in Lists PROVE NewMission(list) \in Mission
    BY DEF NewMission, Mission
  <2>2. mission \in [Minded -> Mission]
    BY <1>0, <2>1
  <2> QED BY <1>0, <2>2, FS_EmptySet DEF MissionTypes
<1>2. rt.ended = <<>> /\ rt.active = [a \in Agents |-> NoAction]
  BY <1>0 DEF RuntimeInit
<1>3. KnownOK
  BY <1>0, <1>2, WorldAssumption DEF KnownOK, Running, Missioned
<1>4. ASSUME NEW a \in Missioned PROVE StateOK(a) /\ FollowsOK(a)
  <2>1. a \in Agents /\ a \in Minded
    BY WorldAssumption DEF Missioned
  <2>2. PICK list \in Lists : mission[a] = NewMission(list)
    BY <1>0, <2>1
  <2>3. /\ mission[a].steps = list /\ mission[a].cursor = 0 /\ mission[a].phase = "ready"
        /\ mission[a].answer = "none" /\ Len(list) \in Nat
    BY <2>2, MissionAssumption DEF NewMission
  <2>4. slots[a].state = "open" /\ slots[a].events = {NewEvent("start", 0, 0, 0)} /\ inbox[a] = {}
    BY <1>0, <2>1 DEF FreeSlot
  <2>5. StateOK(a)
    BY <2>3, <2>4 DEF StateOK
  <2>6. Started(a) = {} /\ Ran(a) = {} /\ Count(a) = 0
    <3>1. Started(a) = {} /\ Ran(a) = {}
      BY <1>0 DEF Started, Ran
    <3> QED BY <3>1, FS_EmptySet DEF Count
  <2>7. Unheard(a) = {} /\ ~Pending(a)
    <3>1. EndedEvents(a) = {}
      BY <1>2 DEF EndedEvents
    <3>2. NewEvent("start", 0, 0, 0).kind \notin StepKinds
      BY DEF NewEvent, StepKinds
    <3> QED BY <1>0, <2>4, <3>1, <3>2 DEF Unheard, Pending
  <2>8. rt.active[a].by = "none" /\ ~Running(rt, a)
    BY <1>2, <2>1 DEF NoAction, Running
  <2> QED BY <2>3, <2>5, <2>6, <2>7, <2>8 DEF FollowsOK, CountOK, StoppedOK, ListOK, ActiveOK
<1> QED BY <1>1, <1>3, <1>4 DEF MissionInv

\* Every step keeps it.
LEMMA MissionInvNext == Inv /\ MissionInv /\ [MissionNext]_<<vars, missionVars>> => MissionInv'
<1> SUFFICES ASSUME Inv, MissionInv, [MissionNext]_<<vars, missionVars>> PROVE MissionInv'
  OBVIOUS
<1>0. MissionTypes /\ KnownOK /\ \A a \in Missioned : StateOK(a) /\ FollowsOK(a)
  BY DEF MissionInv
<1>1. CASE MissionsAsked
  <2>1. UNCHANGED <<rt, known, fates>>
    BY <1>1 DEF MissionsAsked, Decide
  <2>2. \A a \in Missioned : /\ StateOK(a)' /\ FollowsOK(a)'
                             /\ mission'[a] \in Mission /\ mission'[a].steps = mission[a].steps
    BY <1>1, AskedStep
  <2>3. \A a \in Minded \ Missioned : mission'[a] = mission[a]
    BY <1>1 DEF MissionsAsked
  <2>4. mission' \in [Minded -> Mission]
    <3>1. mission' = [a \in Minded |-> mission'[a]]
      BY <1>1 DEF MissionsAsked
    <3>2. \A a \in Minded : mission'[a] \in Mission
      BY <1>0, <2>2, <2>3 DEF MissionTypes
    <3> QED BY <3>1, <3>2
  <2>5. Missioned' = Missioned
    BY <2>2, <2>3 DEF Missioned, OnMission
  <2>6. MissionTypes' /\ KnownOK'
    BY <1>0, <2>1, <2>4, <2>5 DEF MissionTypes, KnownOK, Running
  <2> QED BY <2>2, <2>5, <2>6 DEF MissionInv
<1>2. CASE MissionsAnswer
  <2>1. UNCHANGED <<rt, known, fates, mission>>
    BY <1>2 DEF MissionsAnswer, DecisionsArrive, missionVars
  <2>2. \A a \in Missioned : StateOK(a)' /\ FollowsOK(a)'
    BY <1>2, AnswerStep
  <2>3. Missioned' = Missioned
    BY <2>1 DEF Missioned, OnMission
  <2>4. MissionTypes' /\ KnownOK'
    BY <1>0, <2>1, <2>3 DEF MissionTypes, KnownOK, Running
  <2> QED BY <2>2, <2>3, <2>4 DEF MissionInv
<1>3. CASE InTheWorld
  <2>1. MissionTypes' /\ KnownOK' /\ Missioned' = Missioned
    BY <1>3, WorldRecords
  <2>2. \A a \in Missioned : StateOK(a)' /\ FollowsOK(a)'
    BY <1>3, WorldStep
  <2> QED BY <2>1, <2>2 DEF MissionInv
<1>4. CASE UNCHANGED <<vars, missionVars>>
  <2>1. UNCHANGED <<pc, turn, tick, rt, inbox, slots, deciding, mission, known, fates>>
    BY <1>4 DEF vars, missionVars
  <2>2. Missioned' = Missioned
    BY <2>1 DEF Missioned, OnMission
  <2>3. MissionTypes' /\ KnownOK'
    BY <1>0, <2>1, <2>2 DEF MissionTypes, KnownOK, Running
  <2>4. ASSUME NEW a \in Missioned PROVE StateOK(a)' /\ FollowsOK(a)'
    <3>1. EndedEvents(a)' = EndedEvents(a) /\ Ran(a)' = Ran(a) /\ tick \in Nat
      BY <2>1 DEF EndedEvents, Ran, Inv, IInv, TypeOK
    <3>2. Unheard(a)' = Unheard(a) /\ (Pending(a)' <=> Pending(a))
      BY <2>1, <3>1 DEF Unheard, Pending
    <3>3. Later(a)
      BY <2>1 DEF Later, Acted
    <3>4. FollowsOK(a)'
      BY <1>0, <2>1, <3>1, <3>2, <3>3, NothingMoves
    <3>5. StateOK(a)'
      BY <1>0, <2>1 DEF StateOK
    <3> QED BY <3>4, <3>5
  <2> QED BY <2>2, <2>3, <2>4 DEF MissionInv
<1> QED BY <1>1, <1>2, <1>3, <1>4 DEF MissionNext

\* The invariant of the missions, in every state of the loop.
THEOREM MissionsAlways == MissionSpec => [](Inv /\ MissionInv)
<1>1. MissionSpec => []Inv
  BY MissionsKeepTheLoop, Progress, PTL
<1>2. MissionInit => MissionInv
  BY MissionInvInit
<1>3. Inv /\ MissionInv /\ [MissionNext]_<<vars, missionVars>> => MissionInv'
  BY MissionInvNext
<1> QED BY <1>1, <1>2, <1>3, PTL DEF MissionSpec

(***************************************************************************)
(* What it promises                                                        *)
(***************************************************************************)
\* The mission's own action runs under the name of its step.
LEMMA RunsItsStep ==
  ASSUME MissionInv, NEW a \in Missioned, rt.active[a].by = "mind"
  PROVE  rt.active[a].name = mission[a].steps[mission[a].cursor]
<1>1. Latest(a, rt.active[a].id) /\ Count(a) = mission[a].cursor /\ ListOK(a)
  BY DEF MissionInv, FollowsOK, ActiveOK
<1>2. PICK x \in Started(a) : x.id = rt.active[a].id
  BY <1>1 DEF Latest
<1>3. x = rt.active[a]
  <2>1. Running(rt, a)
    BY DEF Running, NoAction
  <2>2. rt.active[a] \in known /\ x \in known
    BY <2>1 DEF MissionInv, KnownOK, Started
  <2> QED BY <1>2, <2>2 DEF MissionInv, KnownOK
<1>4. Nth(a, x) = mission[a].cursor
  BY <1>1, <1>2, LatestIsLast DEF MissionInv
<1> QED BY <1>1, <1>3, <1>4 DEF ListOK

\* A mission that is running never hangs: its step runs or is about to, or the
\* event that moves it on is on its way (sequence.ts decide, world.ts step).
THEOREM MissionsNeverHang == MissionSpec => []MissionNeverHangs
<1>1. Inv /\ MissionInv => MissionNeverHangs
  <2> SUFFICES ASSUME Inv, MissionInv, pc = "idle", NEW a \in Missioned, mission[a].phase = "running"
               PROVE  LET m == mission[a]  step == m.steps[m.cursor]
                          told(events) == \E e \in events : Concerns(e, m)
                      IN  \/ rt.active[a].by = "mind" /\ rt.active[a].name = step
                          \/ told(inbox[a])
                          \/ a \in deciding /\ m.answer = step
                          \/ a \notin deciding /\ slots[a].state = "open" /\ told(slots[a].events)
                          \/ slots[a].state = "answered" /\ slots[a].answer.action = step
    BY DEF MissionNeverHangs, BetweenTicksHolds
  <2>1. MissionTypes /\ KnownOK /\ StateOK(a) /\ FollowsOK(a)
    BY DEF MissionInv
  <2>2. rt.ended = <<>> /\ EndedEvents(a) = {}
    BY DEF Inv, FatesInv, EndedEvents
  <2>3. Unheard(a) \subseteq inbox[a] \cup (IF slots[a].state = "open" /\ a \notin deciding THEN slots[a].events ELSE {})
    BY <2>2 DEF Unheard
  <2>4. CASE Pending(a)
    BY <2>1, <2>4 DEF Pending, StateOK
  <2>5. CASE ~Pending(a) /\ rt.active[a].by = "mind"
    BY <2>5, RunsItsStep
  <2>6. CASE ~Pending(a) /\ rt.active[a].by # "mind"
    <3>1. \E e \in Unheard(a) : OfStep(a, e)
      BY <2>1, <2>6 DEF FollowsOK, CountOK, ActiveOK, OfStep
    <3>2. \E e \in Unheard(a) : Concerns(e, mission[a])
      BY <2>1, <3>1, StepConcerns
    <3> QED BY <2>3, <3>2
  <2> QED BY <2>4, <2>5, <2>6
<1> QED BY <1>1, MissionsAlways, PTL

\* A mission starts the actions of its list, in its order, each after the one
\* before it succeeded, and stops only because of its step (sequence.ts decide).
THEOREM MissionsFollowTheirList == MissionSpec => []MissionFollowsItsList
<1>1. Inv /\ MissionInv => MissionFollowsItsList
  <2> SUFFICES ASSUME Inv, MissionInv PROVE MissionFollowsItsList
    OBVIOUS
  <2>1. MissionTypes /\ KnownOK
    BY DEF MissionInv
  <2>2. MissionRunsItsList
    BY DEF MissionRunsItsList, MissionInv, FollowsOK, CountOK, ListOK, Count
  <2>3. ASSUME NEW a \in Missioned, mission[a].phase = "stopped"
        PROVE  \/ Cardinality(Started(a)) < mission[a].cursor
               \/ \E x \in Started(a), status \in {"failed", "preempted"} :
                    Nth(a, x) = mission[a].cursor /\ EndedAs(x.id, status)
               \/ \E x \in known : /\ x.by = "world" /\ x.name = mission[a].steps[mission[a].cursor]
                                   /\ EndedAs(x.id, "preempted")
    <3>1. /\ Count(a) \in {mission[a].cursor - 1, mission[a].cursor} /\ mission[a].cursor \in Nat
          /\ \/ Count(a) = mission[a].cursor - 1
             \/ \E x \in Started(a), status \in {"failed", "preempted"} : Latest(a, x.id) /\ EndedAs(x.id, status)
             \/ \E x \in known : /\ x.by = "world" /\ x.name = mission[a].steps[mission[a].cursor]
                                 /\ EndedAs(x.id, "preempted")
      <4>1. mission[a] \in Mission
        BY <2>1 DEF MissionTypes, Missioned
      <4> QED BY <2>3, <4>1 DEF MissionInv, FollowsOK, CountOK, StoppedOK, Mission
    <3>2. Count(a) = mission[a].cursor - 1 => Cardinality(Started(a)) < mission[a].cursor
      BY <3>1 DEF Count
    <3>3. \A x \in Started(a) : Latest(a, x.id) => Nth(a, x) = Count(a)
      BY <2>1, LatestIsLast
    <3> QED BY <3>1, <3>2, <3>3
  <2>4. MissionStopsWithItsStep
    BY <2>3 DEF MissionStopsWithItsStep, BetweenTicksHolds
  <2> QED BY <2>2, <2>4 DEF MissionFollowsItsList
<1> QED BY <1>1, MissionsAlways, PTL
=============================================================================
