------------------------------ MODULE Missions ------------------------------
(***************************************************************************)
(* The world loop (World.tla) with agents whose mind is a mission: the     *)
(* SequenceBrain of packages/core/src/world/sequence.ts, an ordered list   *)
(* of actions run one after the other, and the order in which an inbox     *)
(* (packages/core/src/world/events.ts) hands its events to a mind.         *)
(*                                                                         *)
(* A mission advances when it is asked, inside the call of decide(); its   *)
(* answer reaches the world with the other answers and is applied in the   *)
(* next tick, after that tick's run inputs. In between it knows of the     *)
(* world only what the events tell it.                                     *)
(***************************************************************************)
EXTENDS World, SequencesExt

CONSTANTS
  Lists,     \* the missions an agent may be given; <<>>: it has another mind
  InboxCap   \* INBOX_CAP

ASSUME MissionAssumption == Lists \subseteq Seq(Names) /\ InboxCap \in Nat

VARIABLES
  mission,   \* the mission of each agent
  known,     \* history: every action those agents ran: its ID, its name, who started it
  fates      \* history: how they ended

missionVars == <<mission, known, fates>>

(***************************************************************************)
(* Inbox.preview: what a request delivers                                  *)
(***************************************************************************)
\* The fixed order of kinds within a tick.
Rank(e) == CASE e.kind = "rejected" -> 0 [] e.kind = "failed" -> 1
             [] e.kind = "completed" -> 2 [] e.kind = "battery" -> 3
             [] e.kind = "timer" -> 4 [] e.kind = "perception" -> 6 [] OTHER -> 8

\* (Subjects that are not numbers are told apart by no property here.)
\* (ByRankAlone: the tick is not looked at.)
About(e) == IF e.kind \in {"completed", "failed"} THEN e.subject ELSE 0
ByRankAlone(e, f) == Rank(e) < Rank(f)
Before(e, f) ==
  \/ e.tick < f.tick
  \/ e.tick = f.tick /\ Rank(e) < Rank(f)
  \/ e.tick = f.tick /\ Rank(e) = Rank(f) /\ About(e) < About(f)
  \/ e.tick = f.tick /\ Rank(e) = Rank(f) /\ About(e) = About(f) /\ e.seq < f.seq

\* Over the cap the oldest perception entries are dropped, and nothing else.
Dropped(events) ==
  LET seen == {e \in events : ~IsControl(e)}
  IN  CHOOSE d \in SUBSET seen :
        /\ \A e \in d, f \in seen \ d : ~Before(f, e)
        /\ Cardinality(events \ d) > InboxCap => d = seen
        /\ Cardinality(events \ d) < InboxCap => d = {}
Preview(events) == {e \in events : IsControl(e) \/ e \notin Dropped(events)}

(***************************************************************************)
(* SequenceBrain                                                           *)
(***************************************************************************)
\* `answer` is the action of the decision it has returned.
NewMission(list) == [steps |-> list, cursor |-> 0, phase |-> "ready", answer |-> "none"]
OnMission(a) == mission[a].steps # <<>>
Missioned == {a \in Minded : OnMission(a)}

Idle(m) == [m EXCEPT !.answer = "none"]
BeginStep(m, index) ==
  [m EXCEPT !.cursor = index, !.phase = "running", !.answer = m.steps[index]]
StopMission(m) == [Idle(m) EXCEPT !.phase = "stopped"]

\* The last step done is the end of the mission.
AtLastStep(m)   == m.cursor >= Len(m.steps)

\* The name of the action an event is about: the one that ended, or the one the
\* mission itself asked for and was refused.
NameIn(e, m) ==
  IF e.kind = "rejected" THEN m.steps[m.cursor]
  ELSE (CHOOSE x \in known : x.id = e.subject).name

\* The event a running mission acts on: the first about an action with the name
\* of its step. (EndsOnly: it does not look for refusals.)
EndsOnly(e, m) == e.kind \in {"completed", "failed"} /\ NameIn(e, m) = m.steps[m.cursor]
Concerns(e, m) ==
  e.kind \in {"rejected", "completed", "failed"} /\ NameIn(e, m) = m.steps[m.cursor]

NextDecision(m, events) ==
  LET mine  == {e \in events : Concerns(e, m)}
      first == CHOOSE e \in mine : \A f \in mine : ~Before(f, e)
  IN  CASE m.phase = "ready" /\ \E e \in events : e.kind = "start" -> BeginStep(m, 1)
        [] m.phase = "running" /\ mine # {} /\ first.kind # "completed" -> StopMission(m)
        [] m.phase = "running" /\ mine # {} /\ first.kind = "completed" ->
             IF AtLastStep(m) THEN [Idle(m) EXCEPT !.phase = "done"] ELSE BeginStep(m, m.cursor + 1)
        [] OTHER -> Idle(m)

(***************************************************************************)
(* The loop with missions                                                  *)
(***************************************************************************)
MissionInit ==
  /\ Init
  /\ mission \in [Minded -> {NewMission(list) : list \in Lists}]
  /\ known = {} /\ fates = {}

\* decide() asks the missions, which advance in that call.
MissionsAsked ==
  /\ Decide
  /\ mission' = [a \in Minded |-> IF a \in deciding' \cap Missioned
                                  THEN NextDecision(mission[a], Preview(slots[a].events))
                                  ELSE mission[a]]
  /\ UNCHANGED <<known, fates>>

\* Their answers arrive with the others; a mission never fails.
MissionsAnswer ==
  /\ DecisionsArrive
  /\ \A a \in deciding \cap Missioned :
       slots'[a].state = "answered" /\ slots'[a].answer = [NoDecision EXCEPT !.action = mission[a].answer]
  /\ UNCHANGED missionVars

\* Everything else is the world's.
InTheWorld ==
  /\ Tick \/ TickThrows \/ \E a \in Agents, name \in Names, t \in 1..MaxTick : Inject(a, name, t)
  /\ known' = known \cup ({rt'.active[a] : a \in Missioned} \ {NoAction})
  /\ fates' = fates \cup {e \in ToSet(rt'.ended) : e.agent \in Missioned}
  /\ UNCHANGED mission

MissionNext == MissionsAsked \/ MissionsAnswer \/ InTheWorld

MissionSpec == MissionInit /\ [][MissionNext]_<<vars, missionVars>>

\* Every mind that is asked answers.
AllAnswer == MissionsAnswer /\ \A a \in deciding : slots'[a].state = "answered"

\* The loop steps when it may and asks when requests are open; minds that failed are
\* asked again, and do not fail for ever.
FairMissionSpec ==
  /\ MissionSpec
  /\ WF_<<vars, missionVars>>(InTheWorld /\ Tick)
  /\ WF_<<vars, missionVars>>(MissionsAsked)
  /\ SF_<<vars, missionVars>>(AllAnswer)
=============================================================================
