------------------------- MODULE MissionProperties -------------------------
(***************************************************************************)
(* What a mission promises (packages/core/src/world/sequence.ts), over the *)
(* whole way from the end of an action to the start of the next one.       *)
(***************************************************************************)
EXTENDS WorldProperties, Missions

\* The actions the mission of an agent has started, and the place of one among them.
Started(a) == {x \in known : x.by = "mind" /\ <<x.id, a>> \in rt.traced.started}
Nth(a, x)  == Cardinality({y \in Started(a) : y.id <= x.id})
EndedAs(id, status) == \E f \in fates : f.id = id /\ f.status = status

\* "A step is decided once the step before it ended `done`", "no retry": what
\* the agent has started for its mission is a beginning of the list, each of its
\* actions but the last has succeeded, and with the mission done all have.
MissionRunsItsList ==
  \A a \in Missioned :
    LET m == mission[a]  n == Cardinality(Started(a)) IN
    /\ n \in {m.cursor - 1, m.cursor}
    /\ \A x \in Started(a) : x.name = m.steps[Nth(a, x)]
    /\ \A x \in Started(a) : Nth(a, x) < m.cursor \/ m.phase = "done" => EndedAs(x.id, "succeeded")
    /\ m.phase = "done" => n = Len(m.steps)

\* A mission that is running has something to wait for: its step is about to be
\* started or is running, or an event that moves it on is on its way to it.
MissionNeverHangs ==
  BetweenTicksHolds(\A a \in Missioned : mission[a].phase = "running" =>
      LET m == mission[a]  step == m.steps[m.cursor]
          told(events) == \E e \in events : Concerns(e, m)
      IN  \/ rt.active[a].by = "mind" /\ rt.active[a].name = step
          \/ told(inbox[a])
          \/ a \in deciding /\ m.answer = step
          \/ a \notin deciding /\ slots[a].state = "open" /\ told(slots[a].events)
          \/ slots[a].state = "answered" /\ slots[a].answer.action = step)

\* "A refused or failed step stops the mission", and nothing else does: a mission
\* that stopped was refused its step, or the step ended and did not succeed. (The
\* exception: the researcher's command for the same action, ended by the next
\* command in the tick in which the mission's step starts, is taken for it.)
MissionStopsWithItsStep ==
  BetweenTicksHolds(\A a \in Missioned : mission[a].phase = "stopped" =>
    LET m == mission[a] IN
    \/ Cardinality(Started(a)) < m.cursor
    \/ \E x \in Started(a), status \in {"failed", "preempted"} : Nth(a, x) = m.cursor /\ EndedAs(x.id, status)
    \/ \E x \in known : x.by = "world" /\ x.name = m.steps[m.cursor] /\ EndedAs(x.id, "preempted"))

\* A mission follows its list: it starts what the list says in the list's order, and
\* stops only because of its step.
MissionFollowsItsList == MissionRunsItsList /\ MissionStopsWithItsStep
=============================================================================
