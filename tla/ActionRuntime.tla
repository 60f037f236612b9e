--------------------------- MODULE ActionRuntime ---------------------------
(***************************************************************************)
(* The action lifecycle of packages/core/src/actions/runtime.ts: at most   *)
(* one running action per agent, the ways an action ends, and the battery  *)
(* reflex that preempts it and starts a recovery on the agent's behalf.    *)
(*                                                                         *)
(* The runtime is driven by the world loop only (World.tla), inside one    *)
(* synchronous call per tick, so it is written as operators on the         *)
(* runtime's state, a record                                               *)
(*   active      the running action of each agent (NoAction: none)         *)
(*   recovering  the agents whose running action is a reflex recovery      *)
(*   fired       the latch of the battery reflex                           *)
(*   nextAction  the action counter (act-000001, ...)                      *)
(*   ended       the ended actions the world has not taken yet             *)
(*   traced      the "start" records and the silent "end" records written  *)
(* What an action does with the vehicle (planning, following, exploring)   *)
(* is left to the outcome the caller chooses; only what the lifecycle      *)
(* looks at is kept: an action is "home" (returnToBase, land), which the   *)
(* battery reflex leaves alone, or any other "task".                       *)
(***************************************************************************)
EXTENDS Integers, Sequences

CONSTANTS
  Agents,        \* the agents, in ID order 1..N
  FullSoc,       \* charge levels are 0 (empty) .. FullSoc
  LowSoc,        \* crossing it downwards raises batteryLow
  CriticalSoc    \* at or below it the battery reflex acts

ASSUME SocAssumption ==
  /\ FullSoc \in Nat /\ LowSoc \in Nat /\ CriticalSoc \in Nat
  /\ 0 < CriticalSoc /\ CriticalSoc < LowSoc /\ LowSoc < FullSoc

Names   == {"task", "home"}
Callers == {"mind", "world", "reflex"}
Action  == [id : Nat, name : Names \cup {"none"}, by : Callers \cup {"none"}]

NoAction == [id |-> 0, name |-> "none", by |-> "none"]

\* How an action ends (the status of its end record and of its event).
Statuses == {"succeeded", "failed", "preempted"}
Ended    == [agent : Agents, id : Nat, status : Statuses]

\* What a behavior's step may answer: go on, or one of the ends; a reflex
\* that vetoes the move (geofence, obstacle) preempts and starts nothing.
StepOutcomes == Statuses \cup {"running"}

Runtime ==
  [active : [Agents -> Action], recovering : SUBSET Agents,
   fired : SUBSET Agents, nextAction : Nat \ {0}, ended : Seq(Ended),
   traced : [started : SUBSET (Nat \X Agents), replaced : SUBSET Nat]]

RuntimeInit ==
  [active |-> [a \in Agents |-> NoAction], recovering |-> {}, fired |-> {},
   nextAction |-> 1, ended |-> <<>>,
   traced |-> [started |-> {}, replaced |-> {}]]

Running(rt, a) == rt.active[a] # NoAction

\* What the end of an action clears.
Clears(rt, a) == [rt EXCEPT !.active[a] = NoAction, !.recovering = @ \ {a}]

(***************************************************************************)
(* Ends the running action, if any. It is reported through `ended` unless  *)
(* the agent's own next decision replaced it (silent).                     *)
(***************************************************************************)
End(rt, a, status, silent) ==
  IF ~Running(rt, a) THEN rt
  ELSE LET id == rt.active[a].id
       IN [Clears(rt, a) EXCEPT
             !.ended = IF silent THEN @
                       ELSE Append(@, [agent |-> a, id |-> id, status |-> status]),
             !.traced.replaced = IF silent THEN @ \cup {id} ELSE @]

(***************************************************************************)
(* Starts an action the start checks accepted: the running one is replaced *)
(* (silently, except by a world command) and the new one takes the next ID.*)
(***************************************************************************)
\* Whether the end of the action a new one replaces goes unreported.
Silently(by) == by # "world"

Begin(rt, a, name, by) ==
  LET r == End(rt, a, "preempted", Silently(by))
  IN [r EXCEPT
        !.active[a]  = [id |-> r.nextAction, name |-> name, by |-> by],
        !.nextAction = @ + 1,
        !.traced.started = @ \cup {<<r.nextAction, a>>}]

\* The start checks: an empty battery refuses every action; the parameters,
\* the preconditions and the agent's own map may refuse it too (`refused`).
Startable(soc, refused) == soc > 0 /\ ~refused

(***************************************************************************)
(* The battery reflex, after the step and the drain: once per agent, at    *)
(* the critical level and not while the agent is already going home or     *)
(* landing. Its recovery (returnToBase or land: "home"; hold: "task")      *)
(* passes the start checks like any action.                                *)
(***************************************************************************)
BatteryReflexActs(rt, a, soc) ==
  /\ a \notin rt.fired
  /\ soc > 0 /\ soc <= CriticalSoc
  /\ rt.active[a].name # "home"

ApplyBatteryReflex(rt, a, soc, name, refused) ==
  LET r == [End(rt, a, "preempted", FALSE) EXCEPT !.fired = @ \cup {a}]
  IN IF Startable(soc, refused)
     THEN [Begin(r, a, name, "reflex") EXCEPT !.recovering = @ \cup {a}]
     ELSE r

\* The battery running out ends the action.
Deplete(rt, a, soc) == IF soc = 0 THEN End(rt, a, "failed", FALSE) ELSE rt

(***************************************************************************)
(* One tick of one agent: the behavior's step, the battery running out,    *)
(* then the battery reflex. `soc` is the charge after the tick's drain.    *)
(***************************************************************************)
RuntimeTick(rt, a, outcome, soc, name, refused) ==
  LET stepped  == IF outcome = "running" THEN rt ELSE End(rt, a, outcome, FALSE)
      depleted == Deplete(stepped, a, soc)
  IN IF BatteryReflexActs(depleted, a, soc)
     THEN ApplyBatteryReflex(depleted, a, soc, name, refused)
     ELSE depleted

\* The world takes the ended actions once per tick. (TakeEndedAgain: the list
\* handed over is not emptied.)
TakeEndedAgain(rt) == rt
TakeEnded(rt) == [rt EXCEPT !.ended = <<>>]
=============================================================================
