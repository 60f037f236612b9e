------------------------------- MODULE World -------------------------------
(***************************************************************************)
(* The world loop of packages/core/src/world/world.ts: the phases of one   *)
(* tick, the decision requests asked at its end and their asynchronous     *)
(* answers, the inboxes, the minds' timers and the researcher's run        *)
(* inputs.                                                                 *)
(*                                                                         *)
(* A tick is one synchronous call (World.step); `pc` and `turn` only walk  *)
(* its phases, in order, so nothing but the tick itself runs until pc is   *)
(* "idle" again. Between ticks the host may inject run inputs and the      *)
(* answers of the minds arrive (decide is asynchronous). The call order is *)
(* the one runLockstep gives: one decide() at a time. What happens when a  *)
(* host does otherwise is SimHost.tla.                                     *)
(*                                                                         *)
(* Time is counted in ticks; charge in levels; an event keeps its kind,    *)
(* its subject and the tick it happened at (Missions.tla has the cap of a  *)
(* request and what a mission makes of its events).                        *)
(***************************************************************************)
EXTENDS ActionRuntime, FiniteSets

CONSTANTS
  N,                  \* number of agents: Agents = 1..N
  Minded,             \* the agents with a mind
  Tags,               \* timer tags
  Subjects,           \* what perception events are about
  Decisions,          \* the decisions the minds choose from
  TimerMaxActive,     \* TIMER_MAX_ACTIVE
  TimerOpsPerDecision,\* TIMER_OPS_PER_DECISION
  MinDelay, MaxDelay, \* TIMER_MIN_DELAY_S, TIMER_MAX_DELAY_S, in ticks
  MinInterval,        \* minDecisionIntervalS, in ticks
  MaxTick,            \* bound: ticks run
  MaxInputs,          \* bound: run inputs
  Faults              \* whether a mind may reject and a tick may throw

TimerOp  == [op : {"set", "cancel"}, tag : Tags, delay : Int]
Decision == [action : Names \cup {"none"}, timers : Seq(TimerOp)]

ASSUME WorldAssumption ==
  /\ N \in Nat \ {0} /\ Agents = 1..N /\ Minded \subseteq Agents
  /\ Decisions \subseteq Decision
  /\ IsFiniteSet(Tags)
  /\ TimerMaxActive \in Nat /\ TimerOpsPerDecision \in Nat
  /\ MinDelay \in Nat \ {0} /\ MaxDelay \in Nat /\ MinInterval \in Nat
  /\ MaxTick \in Nat /\ MaxInputs \in Nat /\ Faults \in BOOLEAN

VARIABLES
  pc,          \* the phase of the tick being run, "idle" between ticks
  turn,        \* the agent, or the run input, whose turn it is in the phase
  op,          \* the timer operation of that agent's decision
  tick,        \* lastTick, or the tick being run
  rt,          \* the action runtime
  soc, prevSoc,\* charge now, and at the previous tick
  inbox,       \* undelivered events of each agent
  rejections,  \* rejections in each inbox (the emission order of equals)
  slots,       \* the decision request asked and not yet applied
  unanswered,  \* requests that must be answered before the next tick
  deciding,    \* the agents whose minds the running decide() asks
  lastRequest, \* the tick of each agent's previous request
  timers,      \* the tick at which each tag fires, 0 when not set
  inputLog,    \* the run inputs, in input-ID order
  traced       \* records: inputs applied, ends delivered in requests

vars == <<pc, turn, op, tick, rt, soc, prevSoc, inbox, rejections, slots,
          unanswered, deciding, lastRequest, timers, inputLog, traced>>

(***************************************************************************)
(* Events                                                                  *)
(***************************************************************************)
ControlKinds == {"start", "completed", "failed", "rejected", "battery", "timer"}

\* What an event is about: an action's ID, a timer's tag, an entity, or
\* nothing (rejections are told apart by seq).
Event ==
  [kind : {"start", "rejected", "battery"}, subject : {0}, tick : Nat, seq : Nat]
  \cup [kind : {"completed", "failed"}, subject : Nat, tick : Nat, seq : Nat]
  \cup [kind : {"timer"}, subject : Tags, tick : Nat, seq : Nat]
  \cup [kind : {"perception"}, subject : Subjects, tick : Nat, seq : Nat]

NewEvent(kind, subject, t, seq) ==
  [kind |-> kind, subject |-> subject, tick |-> t, seq |-> seq]

IsControl(e) == e.kind \in ControlKinds

HasControl(a) == \E e \in inbox[a] : IsControl(e)

\* Inbox.add for each new event: perception is coalesced per subject.
AddEvents(entries, new) ==
  {e \in entries : e.kind = "perception" =>
      ~\E x \in new : x.kind = "perception" /\ x.subject = e.subject} \cup new

(***************************************************************************)
(* Requests                                                                *)
(***************************************************************************)
NoDecision == [action |-> "none", timers |-> <<>>]

\* A slot is free, or holds a request that is open or has its answer.
Slot == [state : {"free", "open", "answered"}, events : SUBSET Event,
         answer : Decision]

FreeSlot == [state |-> "free", events |-> {}, answer |-> NoDecision]

Open     == {a \in Agents : slots[a].state = "open"}
Answered == {a \in Agents : slots[a].state = "answered"}

\* The IDs of the actions whose end is among these events.
EndsIn(events) == {e.subject : e \in {x \in events : x.kind \in {"completed", "failed"}}}

ActiveTimers(a) == {t \in Tags : timers[a][t] # 0}

(***************************************************************************)
(* Genesis: every agent with a mind gets `start` and is asked.             *)
(***************************************************************************)
Init ==
  /\ pc = "idle" /\ turn = 1 /\ op = 1 /\ tick = 0
  /\ rt = RuntimeInit
  /\ soc = [a \in Agents |-> FullSoc]
  /\ prevSoc = soc
  /\ inbox = [a \in Agents |-> {}]
  /\ rejections = [a \in Agents |-> 0]
  /\ slots = [a \in Agents |->
       IF a \in Minded
       THEN [FreeSlot EXCEPT !.state = "open", !.events = {NewEvent("start", 0, 0, 0)}]
       ELSE FreeSlot]
  /\ unanswered = Cardinality(Minded)
  /\ deciding = {}
  /\ lastRequest = [a \in Agents |-> IF a \in Minded THEN 0 ELSE -MinInterval]
  /\ timers = [a \in Agents |-> [t \in Tags |-> 0]]
  /\ inputLog = <<>>
  /\ traced = [inputs |-> {}, delivered |-> {}]

(***************************************************************************)
(* Between ticks                                                           *)
(***************************************************************************)
\* An input never rewrites history. (NotBefore: off by one.)
NotBefore(atTick) == atTick >= tick
After(atTick)     == atTick > tick

\* inject(): a run input for a future tick.
Inject(a, name, atTick) ==
  /\ pc = "idle"
  /\ Len(inputLog) < MaxInputs
  /\ After(atTick)
  /\ inputLog' = Append(inputLog, [agent |-> a, name |-> name, tick |-> atTick])
  /\ UNCHANGED <<pc, turn, op, tick, rt, soc, prevSoc, inbox, rejections, slots,
                 unanswered, deciding, lastRequest, timers, traced>>

\* decide(): asks the minds of the open requests...
Decide ==
  /\ pc = "idle"
  /\ deciding = {} /\ Open # {}
  /\ deciding' = Open
  /\ UNCHANGED <<pc, turn, op, tick, rt, soc, prevSoc, inbox, rejections, slots,
                 unanswered, lastRequest, timers, inputLog, traced>>

\* How many requests stay unanswered. (CountingFailures: a mind that failed is
\* counted as answered; NotCounting: the counter is left alone.)
CountingFailures(S) == unanswered - Cardinality(deciding)
NotCounting(S)      == unanswered
StillUnanswered(S)  == unanswered - Cardinality(S)

\* ... and, once all have settled, keeps the answers of those that did answer.
DecisionsArrive ==
  /\ deciding # {}
  /\ \E S \in SUBSET deciding : \E f \in [S -> Decisions] :
       /\ Faults \/ S = deciding
       /\ slots' = [a \in Agents |->
            IF a \in S THEN [slots[a] EXCEPT !.state = "answered", !.answer = f[a]]
            ELSE slots[a]]
       /\ unanswered' = StillUnanswered(S)
  /\ deciding' = {}
  /\ UNCHANGED <<pc, turn, op, tick, rt, soc, prevSoc, inbox, rejections,
                 lastRequest, timers, inputLog, traced>>

(***************************************************************************)
(* One tick                                                                *)
(***************************************************************************)
\* step() refuses while decisions are outstanding (and after a failure).
StartTick ==
  /\ pc = "idle" /\ unanswered <= 0 /\ tick < MaxTick
  /\ pc' = "inputs" /\ turn' = 1 /\ tick' = tick + 1
  /\ UNCHANGED <<op, rt, soc, prevSoc, inbox, rejections, slots, unanswered,
                 deciding, lastRequest, timers, inputLog, traced>>

\* 1. The inputs due at this tick, in input-ID order.
ApplyInput ==
  /\ pc = "inputs" /\ turn <= Len(inputLog)
  /\ turn' = turn + 1
  /\ IF inputLog[turn].tick # tick THEN UNCHANGED <<rt, traced>>
     ELSE LET i == inputLog[turn] IN
       /\ traced' = [traced EXCEPT !.inputs = @ \cup {turn}]
       /\ \E refused \in BOOLEAN :
            rt' = IF Startable(soc[i.agent], refused)
                  THEN Begin(rt, i.agent, i.name, "world") ELSE rt
  /\ UNCHANGED <<pc, op, tick, soc, prevSoc, inbox, rejections, slots,
                 unanswered, deciding, lastRequest, timers, inputLog>>

InputsDone ==
  /\ pc = "inputs" /\ turn > Len(inputLog)
  /\ pc' = "brains" /\ turn' = 1 /\ op' = 1
  /\ UNCHANGED <<tick, rt, soc, prevSoc, inbox, rejections, slots, unanswered,
                 deciding, lastRequest, timers, inputLog, traced>>

\* addEvent of an `actionRejected` to the agent whose decision it answers.
Reject(a) ==
  /\ inbox' = [inbox EXCEPT ![a] =
       AddEvents(@, {NewEvent("rejected", 0, tick, rejections[a])})]
  /\ rejections' = [rejections EXCEPT ![a] = @ + 1]

\* Whether a timer operation, the k-th of its decision, applies.
TimerOpValid(a, o, k) ==
  /\ k <= TimerOpsPerDecision
  /\ IF o.op = "cancel" THEN timers[a][o.tag] # 0
     ELSE /\ o.delay >= MinDelay /\ o.delay <= MaxDelay
          /\ timers[a][o.tag] # 0 \/ Cardinality(ActiveTimers(a)) < TimerMaxActive

\* 2. Brains, in agent-ID order: first the decision's timer operations, one
\* after the other; a refused one is reported and the others still apply.
ApplyTimerOp(a) ==
  /\ pc = "brains" /\ turn = a /\ slots[a].state = "answered"
  /\ op <= Len(slots[a].answer.timers)
  /\ LET o == slots[a].answer.timers[op] IN
       \/ /\ TimerOpValid(a, o, op)
          /\ timers' = [timers EXCEPT ![a][o.tag] =
                          IF o.op = "cancel" THEN 0 ELSE tick + o.delay]
          /\ UNCHANGED <<inbox, rejections>>
       \/ /\ ~TimerOpValid(a, o, op)
          /\ Reject(a)
          /\ UNCHANGED timers
  /\ op' = op + 1
  /\ UNCHANGED <<pc, turn, tick, rt, soc, prevSoc, slots, unanswered, deciding,
                 lastRequest, inputLog, traced>>

\* ... then its action, if it has one and the start checks accept it.
ApplyDecision(a) ==
  /\ pc = "brains" /\ turn = a
  /\ slots[a].state = "free" \/ op > Len(slots[a].answer.timers)
  /\ LET name == slots[a].answer.action IN
       IF slots[a].state = "free" \/ name = "none"
       THEN UNCHANGED <<rt, inbox, rejections>>
       ELSE \E refused \in BOOLEAN :
              IF Startable(soc[a], refused)
              THEN rt' = Begin(rt, a, name, "mind") /\ UNCHANGED <<inbox, rejections>>
              ELSE Reject(a) /\ UNCHANGED rt
  /\ slots' = [slots EXCEPT ![a] = FreeSlot]
  /\ turn' = turn + 1 /\ op' = 1
  /\ UNCHANGED <<pc, tick, soc, prevSoc, unanswered, deciding, lastRequest,
                 timers, inputLog, traced>>

\* 3. Planning, which the step outcomes stand for.
BrainsDone ==
  /\ pc = "brains" /\ turn > N
  /\ pc' = "actions" /\ turn' = 1
  /\ UNCHANGED <<op, tick, rt, soc, prevSoc, inbox, rejections, slots, unanswered,
                 deciding, lastRequest, timers, inputLog, traced>>

\* The charge after a tick, floored at empty.
Drain(level)             == 0..level

\* 4. Actions, reflexes, kinematics and battery of one agent.
ActAgent(a) ==
  /\ pc = "actions" /\ turn = a
  /\ \E level \in Drain(soc[a]), outcome \in StepOutcomes, name \in Names, refused \in BOOLEAN :
       /\ ~Running(rt, a) => outcome = "running"
       /\ soc' = [soc EXCEPT ![a] = level]
       /\ rt' = RuntimeTick(rt, a, outcome, level, name, refused)
  /\ turn' = turn + 1
  /\ UNCHANGED <<pc, op, tick, prevSoc, inbox, rejections, slots, unanswered,
                 deciding, lastRequest, timers, inputLog, traced>>

\* The events of the tick: ended actions, low battery, perception, timers.
EndedEvents(a) ==
  {NewEvent(IF rt.ended[i].status = "succeeded" THEN "completed" ELSE "failed",
            rt.ended[i].id, tick, 0) : i \in {j \in 1..Len(rt.ended) : rt.ended[j].agent = a}}

CrossesLow(a) == prevSoc[a] > LowSoc /\ soc[a] <= LowSoc

BatteryEvents(a) == IF CrossesLow(a) THEN {NewEvent("battery", 0, tick, 0)} ELSE {}

PerceptionEvents(seen) == {NewEvent("perception", s, tick, 0) : s \in seen}

\* The timers due at this tick. (TimersPastDue: off by one.)
TimersPastDue(a) == {t \in ActiveTimers(a) : timers[a][t] < tick}
DueTimers(a)     == {t \in ActiveTimers(a) : timers[a][t] <= tick}

TimerEvents(a) == {NewEvent("timer", t, tick, 0) : t \in DueTimers(a)}

CollectEvents ==
  /\ pc = "actions" /\ turn > N
  /\ \E seen \in [Minded -> SUBSET Subjects] :
       inbox' = [a \in Agents |->
         IF a \in Minded
         THEN AddEvents(inbox[a], EndedEvents(a) \cup BatteryEvents(a)
                          \cup PerceptionEvents(seen[a]) \cup TimerEvents(a))
         ELSE {}]
  /\ rt' = TakeEnded(rt)
  /\ prevSoc' = soc
  /\ timers' = [a \in Agents |-> [t \in Tags |-> IF t \in DueTimers(a) THEN 0 ELSE timers[a][t]]]
  /\ pc' = "asks" /\ turn' = 1
  /\ UNCHANGED <<op, tick, soc, rejections, slots, unanswered, deciding,
                 lastRequest, inputLog, traced>>

\* 5. The next request of an agent: control events ask at once, perception
\* events wait out the minimum interval, a recovery holds both back.
\* (AskInRecovery: the recovery is not looked at; AskOnInterval: control events
\* wait too.)
AskInRecovery(a) == a \in Minded /\ slots[a].state = "free" /\ inbox[a] # {}
AskOnInterval(a) ==
  /\ AskInRecovery(a) /\ a \notin rt.recovering
  /\ tick - lastRequest[a] >= MinInterval
WouldAsk(a) ==
  /\ a \in Minded /\ slots[a].state = "free"
  /\ inbox[a] # {}
  /\ a \notin rt.recovering
  /\ HasControl(a) \/ tick - lastRequest[a] >= MinInterval

Ask(a) ==
  /\ pc = "asks" /\ turn = a /\ WouldAsk(a)
  /\ slots' = [slots EXCEPT ![a] = [FreeSlot EXCEPT !.state = "open", !.events = inbox[a]]]
  /\ traced' = [traced EXCEPT !.delivered = @ \cup EndsIn(inbox[a])]
  /\ inbox' = [inbox EXCEPT ![a] = {}]
  /\ rejections' = [rejections EXCEPT ![a] = 0]
  /\ lastRequest' = [lastRequest EXCEPT ![a] = tick]
  /\ unanswered' = unanswered + 1
  /\ turn' = turn + 1
  /\ UNCHANGED <<pc, op, tick, rt, soc, prevSoc, deciding, timers, inputLog>>

DoNotAsk(a) ==
  /\ pc = "asks" /\ turn = a /\ ~WouldAsk(a)
  /\ turn' = turn + 1
  /\ UNCHANGED <<pc, op, tick, rt, soc, prevSoc, inbox, rejections, slots,
                 unanswered, deciding, lastRequest, timers, inputLog, traced>>

TickDone ==
  /\ pc = "asks" /\ turn > N
  /\ pc' = "idle" /\ turn' = 1
  /\ UNCHANGED <<op, tick, rt, soc, prevSoc, inbox, rejections, slots,
                 unanswered, deciding, lastRequest, timers, inputLog, traced>>

\* A tick that throws midway (a behavior, the planner, sensing) leaves the
\* world failed: every later step and snapshot refuses.
TickThrows ==
  /\ Faults /\ pc \notin {"idle", "failed"}
  /\ pc' = "failed"
  /\ UNCHANGED <<turn, op, tick, rt, soc, prevSoc, inbox, rejections, slots,
                 unanswered, deciding, lastRequest, timers, inputLog, traced>>

BetweenTicks ==
  \/ \E a \in Agents, name \in Names, t \in 1..MaxTick : Inject(a, name, t)
  \/ Decide
  \/ DecisionsArrive

Tick ==
  \/ StartTick \/ ApplyInput \/ InputsDone \/ BrainsDone
  \/ CollectEvents \/ TickDone
  \/ \E a \in Agents : \/ ApplyTimerOp(a) \/ ApplyDecision(a)
                       \/ ActAgent(a) \/ Ask(a) \/ DoNotAsk(a)

Next == BetweenTicks \/ Tick \/ TickThrows

Spec == Init /\ [][Next]_vars
=============================================================================
