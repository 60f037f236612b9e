------------------------------ MODULE Lockstep ------------------------------
(***************************************************************************)
(* What the world loop promises to minds and to the researcher, without    *)
(* saying how: time advances tick by tick; an agent's mind is asked at     *)
(* most one question at a time, only inside a tick and only while no       *)
(* recovery holds the agent; answers come between ticks; no tick starts    *)
(* while a question is unanswered; every answer is applied in the very     *)
(* next tick, before any question is asked in it.                          *)
(***************************************************************************)
EXTENDS Integers

CONSTANT Agents

VARIABLES
  tick,        \* ticks started so far
  ticking,     \* a tick is being executed
  mind,        \* the state of each agent's question
  recovering   \* the agents held by a reflex recovery

vars == <<tick, ticking, mind, recovering>>

MindStates == {"idle", "asked", "answered"}

TypeOK ==
  /\ tick \in Nat
  /\ ticking \in BOOLEAN
  /\ mind \in [Agents -> MindStates]
  /\ recovering \subseteq Agents

Init ==
  /\ tick = 0
  /\ ticking = FALSE
  /\ mind \in [Agents -> {"idle", "asked"}]
  /\ recovering = {}

StartTick ==
  /\ ~ticking
  /\ \A a \in Agents : mind[a] # "asked"
  /\ ticking' = TRUE
  /\ tick' = tick + 1
  /\ UNCHANGED <<mind, recovering>>

\* An answer is applied.
Apply(a) ==
  /\ ticking
  /\ mind[a] = "answered"
  /\ mind' = [mind EXCEPT ![a] = "idle"]
  /\ UNCHANGED <<tick, ticking, recovering>>

\* A reflex takes an agent over, or lets it go, while no answer is waiting
\* to be applied to an agent it takes over.
Recover ==
  /\ ticking
  /\ recovering' \in SUBSET Agents
  /\ \A a \in recovering' \ recovering : mind[a] = "idle"
  /\ UNCHANGED <<tick, ticking, mind>>

Ask(a) ==
  /\ ticking
  /\ \A b \in Agents : mind[b] # "answered"
  /\ mind[a] = "idle"
  /\ a \notin recovering
  /\ mind' = [mind EXCEPT ![a] = "asked"]
  /\ UNCHANGED <<tick, ticking, recovering>>

EndTick ==
  /\ ticking
  /\ \A a \in Agents : mind[a] # "answered"
  /\ ticking' = FALSE
  /\ UNCHANGED <<tick, mind, recovering>>

\* Some of the questions are answered together.
Answer ==
  /\ ~ticking
  /\ \E S \in SUBSET {a \in Agents : mind[a] = "asked"} :
       mind' = [a \in Agents |-> IF a \in S THEN "answered" ELSE mind[a]]
  /\ UNCHANGED <<tick, ticking, recovering>>

Next ==
  \/ StartTick \/ Recover \/ EndTick \/ Answer
  \/ \E a \in Agents : Apply(a) \/ Ask(a)

Spec == Init /\ [][Next]_vars
=============================================================================
