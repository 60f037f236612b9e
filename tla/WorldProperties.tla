-------------------------- MODULE WorldProperties --------------------------
(***************************************************************************)
(* What the world loop and the action runtime must never get wrong. Most   *)
(* are about the world between ticks, where minds, the researcher and the  *)
(* recorder see it.                                                        *)
(***************************************************************************)
EXTENDS World

\* P is about the world as it is between ticks.
BetweenTicksHolds(P) == pc = "idle" => P

\* Types of the loop's state.
TypeOK ==
  /\ pc \in {"idle", "inputs", "brains", "actions", "asks", "failed"}
  /\ turn \in Nat \ {0} /\ op \in Nat \ {0} /\ tick \in Nat
  /\ rt \in Runtime
  /\ soc \in [Agents -> 0..FullSoc] /\ prevSoc \in [Agents -> 0..FullSoc]
  /\ inbox \in [Agents -> SUBSET Event]
  /\ rejections \in [Agents -> Nat]
  /\ slots \in [Agents -> Slot]
  /\ unanswered \in Int
  /\ deciding \subseteq Agents
  /\ lastRequest \in [Agents -> Int]
  /\ timers \in [Agents -> [Tags -> Nat]]
  /\ inputLog \in Seq([agent : Agents, name : Names, tick : Nat])
  /\ traced \in [inputs : SUBSET Nat, delivered : SUBSET Nat]

\* The counter the lockstep wait reads is the number of requests without an
\* answer: were it ever too low, a tick would start with a decision missing;
\* too high, and the run would wait for ever (world.ts step, decide, ask).
UnansweredIsOpenRequests == unanswered = Cardinality(Open)

\* Requests and phases agree: a decision reaches the brain phase with its
\* answer (the code reads `p.envelope as DecisionEnvelope` without looking),
\* every answer is applied before an action runs, no agent holds a request
\* while actions run, and the minds being asked are those of open requests.
LockstepPhases ==
  /\ pc \in {"inputs", "brains"} => Open = {}
  /\ pc = "brains" => \A a \in Agents : a < turn => slots[a].state = "free"
  /\ pc = "actions" => \A a \in Agents : slots[a].state = "free"
  /\ pc = "asks" => /\ Answered = {}
                    /\ \A a \in Agents : a >= turn => slots[a].state = "free"
  /\ deciding \subseteq Open
  /\ pc # "idle" => deciding = {}

\* No mind is being asked while a reflex recovery runs its agent (the
\* decision would preempt the recovery when it is applied).
NoRequestWhileRecovering ==
  \A a \in Agents : slots[a].state # "free" => a \notin rt.recovering

\* The purpose of that rule: only the recovery's own end, the reflexes, an
\* empty battery or a world command end a recovery, never a mind's decision.
MindNeverEndsRecovery ==
  [][pc = "brains" => rt.recovering \subseteq rt'.recovering]_vars

\* Events reach their mind: "control events request a decision at once", so
\* between ticks none waits unless a recovery holds its agent back; perception
\* is "delayed, not lost", by less than the minimum decision interval.
EventsAreDelivered ==
  BetweenTicksHolds(\A a \in Agents \ rt.recovering :
    /\ ~HasControl(a)
    /\ inbox[a] # {} => tick - lastRequest[a] < MinInterval)

\* Every action a minded agent ever started is, between ticks, in exactly one
\* place: running, replaced by the agent's own decision, its end waiting in
\* the inbox, or its end delivered in a request. Only the decision replaces
\* silently: a world command or a reflex that ends an action raises an event.
Fates(id, a) ==
  << rt.active[a].id = id,
     id \in rt.traced.replaced,
     id \in EndsIn(inbox[a]),
     id \in traced.delivered >>

EveryActionHasOneFate ==
  /\ []BetweenTicksHolds(\A s \in rt.traced.started :
       s[2] \in Minded => Cardinality({k \in 1..4 : Fates(s[1], s[2])[k]}) = 1)
  /\ [][rt'.traced.replaced # rt.traced.replaced => pc = "brains"]_vars

\* Each run input is applied in the tick it was recorded for, and only once
\* that tick has run: replaying the log reproduces the run (ADR-0015).
InputsApplyAtTheirTick ==
  BetweenTicksHolds(\A k \in 1..Len(inputLog) :
    k \in traced.inputs <=> inputLog[k].tick <= tick)

\* Between ticks at most TimerMaxActive timers are set, and each is due later,
\* within the longest delay.
TimersAreInTime ==
  BetweenTicksHolds(\A a \in Agents :
    /\ Cardinality(ActiveTimers(a)) <= TimerMaxActive
    /\ \A t \in ActiveTimers(a) : timers[a][t] > tick /\ timers[a][t] <= tick + MaxDelay)

\* No step leaves a timer overdue, too many of them or one out of range; and a
\* timer leaves before its tick only by its own mind's decision.
TimersFireOnTime ==
  [][/\ TimersAreInTime'
     /\ \A a \in Agents, t \in Tags :
          (timers[a][t] > tick /\ timers'[a][t] # timers[a][t]) => pc = "brains" /\ turn = a]_vars

\* A recovery is a running action the reflex started: the flag that silences
\* the mind never outlives it.
RecoveryIsTheReflexAction ==
  \A a \in rt.recovering : rt.active[a].by = "reflex"

\* The inductive invariant of the proofs (WorldProofs.tla).
IInv ==
  /\ TypeOK
  /\ UnansweredIsOpenRequests
  /\ LockstepPhases
  /\ NoRequestWhileRecovering
  /\ RecoveryIsTheReflexAction

\* Where an agent's question is, in the terms of the protocol.
MindOf(a) == CASE slots[a].state = "free" -> "idle"
               [] slots[a].state = "open" -> "asked"
               [] OTHER -> "answered"

\* The loop, seen by minds, is the lockstep protocol.
Protocol == INSTANCE Lockstep WITH
  ticking <- pc # "idle",
  mind <- [a \in Agents |-> MindOf(a)],
  recovering <- rt.recovering

LockstepProtocol == Protocol!Spec

\* Under fair scheduling and minds that, asked again and again, answer in the end,
\* the simulation never gets stuck: whatever tick it is at, the next one comes (up
\* to the bound), unless a tick threw.
TicksGoOn == <>(tick = MaxTick \/ pc = "failed")
=============================================================================
