-------------------------------- MODULE GoTo --------------------------------
(***************************************************************************)
(* The goTo behavior (packages/core/src/actions/runtime.ts) and the        *)
(* planner it sees through its port                                        *)
(* (packages/scenarios/src/assemble/adapters.ts): a query is answered      *)
(* whole or, when it is lazy, leg by leg while the vehicle drives.         *)
(*                                                                         *)
(* Positions are metre cells on a line, a path is the cell it leads to.    *)
(* What depends on geometry and on the map (what the planner answers, the  *)
(* pre-drive check, a recovery found, a veto, a contact) may come out      *)
(* either way, so a step gives the set of its outcomes, records of         *)
(*   g, p, pos  the goTo, the planner and the vehicle after it             *)
(*   step       "running", "succeeded", "reflex", or the code it fails with *)
(*   told       onUnreachable was called                                   *)
(*   thrown     an error was thrown, which fails the world                 *)
(* A vehicle v says its kind, whether it may reverse and whether its       *)
(* planning strategy is lazy.                                              *)
(***************************************************************************)
EXTENDS Integers, Sequences, FiniteSets, SequencesExt

CONSTANTS
  Cells,           \* 0..n
  MaxRecoveries,   \* back-offs and escapes of one goTo
  Patience         \* ticks after which a query gets further at the latest

ASSUME GoToAssumption ==
  /\ IsFiniteSet(Cells) /\ 0 \in Cells /\ Cells = 0..(Cardinality(Cells) - 1)
  /\ MaxRecoveries \in Nat /\ Patience \in Nat

Vehicles == [kind : {"ugv", "uav"}, reverse : BOOLEAN, lazy : BOOLEAN]

Distance(x, y) == IF x < y THEN y - x ELSE x - y
OneCloser(x, y) == IF x < y THEN x + 1 ELSE x - 1
Near(x) == {c \in Cells : Distance(c, x) <= 1}

(***************************************************************************)
(* The planner, for one agent                                              *)
(***************************************************************************)
NoLegs == [on |-> FALSE]
LegsFrom(c) == [on |-> TRUE, reach |-> c, ready |-> <<>>, produced |-> FALSE, done |-> FALSE, status |-> "none"]

\* `outcome`: of the query, complete and not taken. `left`: there are outcomes
\* of queries nobody will ask for again. `changed`: the map did, under the query.
NoPlanner == [searching |-> FALSE, changed |-> FALSE, to |-> 0, age |-> 0, legs |-> NoLegs, outcome |-> "none", left |-> FALSE]

Submitted(p, from, to, lazy) ==
  [p EXCEPT !.searching = TRUE, !.changed = FALSE, !.to = to, !.age = 0, !.legs = IF lazy THEN LegsFrom(from) ELSE NoLegs]

\* The service forgets the query and its legs; the adapter keeps an outcome it has.
Cancelled(p) == [p EXCEPT !.searching = FALSE, !.changed = FALSE, !.legs = NoLegs]

\* Nobody has the query's id any more.
Disowned(p) == [p EXCEPT !.left = @ \/ p.outcome # "none", !.outcome = "none"]

Answered(p, status) ==
  [p EXCEPT !.searching = FALSE, !.outcome = status,
            !.legs = IF @.on THEN [@ EXCEPT !.done = TRUE, !.status = status] ELSE @]

\* A leg goes part of the way; the last one ends at the goal.
LegEnds(reach, to) ==
  IF reach = to THEN {to} ELSE {c \in Cells : c # reach /\ Distance(reach, c) + Distance(c, to) = Distance(reach, to)}
LegRuns(p) ==
  LET ends == LegEnds(p.legs.reach, p.to)
  IN  {<<e>> : e \in ends} \cup UNION {{<<e, f>> : f \in LegEnds(e, p.to)} : e \in ends \ {p.to}}
WithLegs(p, s) ==
  [p EXCEPT !.age = 0, !.legs.reach = Last(s), !.legs.produced = TRUE,
            !.legs.ready = @ \o [i \in DOMAIN s |-> [first |-> i = 1 /\ ~p.legs.produced, end |-> s[i], last |-> s[i] = p.to]]]

\* A map change may make a query start again; a lazy one of which a leg was handed
\* out is ended by it, and has no outcome.
MapChanged(p) == [p EXCEPT !.changed = p.searching]
Restarted(p) ==
  IF ~p.legs.on THEN [p EXCEPT !.age = 0]
  ELSE IF ~p.legs.produced THEN [p EXCEPT !.age = 0]
  ELSE [p EXCEPT !.searching = FALSE, !.legs = [@ EXCEPT !.ready = <<>>, !.done = TRUE, !.status = "interrupted"]]

Failures == {"not_found", "budget_exceeded"}

\* The planning phase of a tick: a query waits, ends, or has legs ready.
Waits(p) == IF p.age < Patience THEN {[p EXCEPT !.age = @ + 1]} ELSE {}
Searched(p) ==
  LET runs  == IF p.legs.on THEN {WithLegs(p, s) : s \in LegRuns(p)} ELSE {}
      whole == IF p.legs.on THEN {q \in runs : q.legs.reach = p.to} ELSE {p}
      short == runs \ whole
  IN  Waits(p) \cup short
      \cup {Answered(q, "found") : q \in whole} \cup {Answered(q, s) : q \in {p} \cup short, s \in Failures}

Advanced(p) ==
  LET q == [p EXCEPT !.changed = FALSE]
  IN  IF ~p.searching THEN {p}
      ELSE Searched(q) \cup IF p.changed THEN {Restarted(q)} ELSE {}

(***************************************************************************)
(* A goTo                                                                  *)
(***************************************************************************)
NoPath == -1
NewGoTo(goal, returning) ==
  [phase |-> "planning", goal |-> goal, returning |-> returning, asked |-> FALSE, end |-> NoPath,
   pending |-> FALSE, backing |-> FALSE, reverse |-> FALSE, recoveries |-> 0, stale |-> FALSE]
NoGoTo == [phase |-> "none", asked |-> FALSE, end |-> NoPath]

Outcome(g, p, pos) == [g |-> g, p |-> p, pos |-> pos, step |-> "running", told |-> FALSE, thrown |-> FALSE]
Running(o) == o.step = "running" /\ ~o.thrown
Fails(o, code) == [o EXCEPT !.step = code]
Unreachable(o, code) == [Fails(o, code) EXCEPT !.told = TRUE]
Forgotten(g) == [g EXCEPT !.asked = FALSE, !.pending = FALSE]

\* What stop() tells the planner. (OnlyPlanning: a lazy search goes on while it moves.)
OnlyPlanning(g, p) == IF g.asked /\ g.phase = "planning" THEN Disowned(Cancelled(p)) ELSE p
Stopped(g, p) == IF g.asked THEN Disowned(Cancelled(p)) ELSE p

DropQuery(o) == [o EXCEPT !.p = Stopped(o.g, @), !.g = Forgotten(@)]
PlanAgain(o) == [o EXCEPT !.g = [Forgotten(@) EXCEPT !.end = NoPath, !.backing = FALSE, !.phase = "planning"]]
Follows(v, o, end) ==
  LET g == [o.g EXCEPT !.end = end, !.backing = FALSE, !.reverse = FALSE, !.stale = FALSE]
  IN  {[o EXCEPT !.g = [g EXCEPT !.phase = f]] : f \in IF v.kind = "uav" THEN {"climbing", "following"} ELSE {"following"}}

\* Recoveries: an escape (forward) and a back-off (in reverse), a few metres.
CanRecover(v, g) == v.kind = "ugv" /\ v.reverse /\ g.recoveries < MaxRecoveries
Recovers(o, reverse) ==
  {[o EXCEPT !.g = [o.g EXCEPT !.recoveries = @ + 1, !.end = c, !.backing = TRUE, !.reverse = reverse,
                               !.stale = FALSE, !.phase = "backing-off"]] : c \in Near(o.pos)}

\* A path that fails the pre-drive check, from where the vehicle stands or further on.
CheckFails(v, o, first) ==
  (IF first /\ CanRecover(v, o.g) THEN Recovers(o, TRUE) ELSE {}) \cup {Unreachable(o, "kinematically_infeasible")}

BeginFollowing(v, o) ==
  Follows(v, o, o.g.goal) \cup (IF v.kind = "ugv" THEN CheckFails(v, o, TRUE) ELSE {})

\* A later leg is appended to the path being followed, which must not be one in reverse.
Appended(o, leg) ==
  IF o.g.reverse /\ o.g.end # NoPath THEN [o EXCEPT !.thrown = TRUE]
  ELSE [o EXCEPT !.g.end = IF @ = NoPath THEN @ ELSE leg.end, !.g.pending = ~leg.last]

AcceptLeg(v, o, leg) ==
  (IF leg.first THEN Follows(v, [o EXCEPT !.g.pending = ~leg.last], leg.end) ELSE {Appended(o, leg)})
  \cup (IF v.kind = "ugv" THEN CheckFails(v, DropQuery(o), leg.first) ELSE {})

\* One after another, as long as none ends the action; a recovery does not.
AcceptLegs(v, o, legs) ==
  FoldLeft(LAMBDA S, leg : UNION {IF Running(x) THEN AcceptLeg(v, x, leg) ELSE {x} : x \in S}, {o}, legs)

\* How a query that is over ends its goTo.
QueryEnds(o, status) ==
  LET t == [o EXCEPT !.g = Forgotten(@)]
  IN  IF ~Running(o) THEN o
      ELSE CASE status = "not_found" -> Unreachable(t, "unreachable")
             [] status = "budget_exceeded" -> Fails(t, "planning_budget")
             [] OTHER -> t

HasProgress(o) == o.g.asked /\ o.p.legs.on /\ (o.p.legs.ready # <<>> \/ o.p.legs.done)
Taken(p) ==
  IF p.legs.done THEN [p EXCEPT !.legs = NoLegs, !.outcome = "none"] ELSE [p EXCEPT !.legs.ready = <<>>]
OnProgress(v, o) ==
  LET l == o.p.legs
      t == [o EXCEPT !.p = Taken(@)]
  IN  IF l.status = "interrupted" THEN {PlanAgain(t)}
      ELSE {IF l.done THEN QueryEnds(x, l.status) ELSE x : x \in AcceptLegs(v, t, l.ready)}

\* With no query: a recovery if the vehicle stands too close to obstacles to plan, or a
\* failure if none is found; else a query, which is refused if an end is outside the map.
Ask(v, o) ==
  (IF CanRecover(v, o.g) THEN Recovers(o, FALSE) \cup Recovers(o, TRUE) \cup {Fails(o, "kinematically_infeasible")} ELSE {})
  \cup {[o EXCEPT !.g.asked = TRUE, !.g.stale = FALSE, !.p = Submitted(@, o.pos, o.g.goal, v.lazy)], Fails(o, "unreachable")}

Take(v, o) ==
  LET t == [o EXCEPT !.g.asked = FALSE, !.p.outcome = "none"]
  IN  CASE o.p.outcome = "none" -> {o}
        [] o.p.outcome = "found" -> BeginFollowing(v, t)
        [] OTHER -> {QueryEnds(t, o.p.outcome)}

StepPlanning(v, o) ==
  IF ~o.g.asked THEN Ask(v, o) ELSE IF HasProgress(o) THEN OnProgress(v, o) ELSE Take(v, o)

\* While it moves, a goTo takes what has become ready, and goes on unless that
\* ends it or makes it plan again.
Polled(v, o) == IF HasProgress(o) THEN OnProgress(v, o) ELSE {o}
GoesOn(o) == Running(o) /\ o.g.phase # "planning"

Arrives(v, o) ==
  IF o.g.backing THEN {PlanAgain(o)}
  ELSE IF o.g.pending THEN {o}
  ELSE IF v.kind = "uav" /\ o.g.returning THEN {[o EXCEPT !.g.phase = "landing"], Fails(o, "landing_blocked")}
  ELSE {[o EXCEPT !.step = "succeeded"]}

\* The move may be vetoed by a reflex, end in contact, at a fence or without progress.
Moves(v, o) ==
  {[o EXCEPT !.pos = OneCloser(@, o.g.end)]}
  \cup {Fails(o, code) : code \in {"reflex", "collision", IF v.kind = "uav" THEN "geofence" ELSE "kinematically_infeasible"}}

\* The map changed under the path: it is planned again if it is not clear any more.
Replans(o) == {PlanAgain(DropQuery(o))}

Follow(v, o) ==
  LET arrived == o.pos = o.g.end
      fresh   == [o EXCEPT !.g.stale = FALSE]
      goOn    == IF arrived THEN Arrives(v, fresh) ELSE Moves(v, fresh)
  IN  IF o.g.end = NoPath THEN {o}
      ELSE IF v.kind = "uav" /\ arrived THEN Arrives(v, o)
      ELSE IF o.g.stale /\ ~o.g.backing THEN Replans(o) \cup goOn ELSE goOn

\* A climb and a descent take a tick.
Climb(o) == {[o EXCEPT !.g.phase = "following"]}
Land(o) == {[o EXCEPT !.step = "succeeded"], Fails(o, "collision")}

StepGoTo(v, o) ==
  CASE o.g.phase = "planning" -> StepPlanning(v, o)
    [] o.g.phase = "climbing" -> UNION {IF GoesOn(x) THEN Climb(x) ELSE {x} : x \in Polled(v, o)}
    [] o.g.phase = "landing" -> Land(o)
    [] OTHER -> UNION {IF GoesOn(x) THEN Follow(v, x) ELSE {x} : x \in Polled(v, o)}
=============================================================================
