------------------------------- MODULE Explore -------------------------------
(***************************************************************************)
(* The explore behavior (packages/core/src/actions/runtime.ts): iterations *)
(* around a centre, travels to the next one, what failed and what is       *)
(* marked, with its goTo, its planner and the agent's frontier groups      *)
(* (packages/scenarios/src/assemble/topology.ts) through the ticks of a    *)
(* run. Plain goTo actions run beside it, one action at a time.            *)
(*                                                                         *)
(* Cells are hidden, frontier or resolved; a group is a run of adjacent    *)
(* frontier cells of one region. What the sensors show near the vehicle is *)
(* arbitrary, but it never leaves the cell the vehicle stands on a         *)
(* frontier.                                                               *)
(***************************************************************************)
EXTENDS GoTo

CONSTANTS
  Settings,      \* of a run: its vehicle, its map at the start, the actions started in it, and
                 \* bounds: how often one is started, how often the planning view changes
  RegionCells,   \* cells of a region
  ChunkCells,    \* cells of a chunk of the planning view
  Radius, Margin,
  PerceptionWait

Actions ==
  [name : {"explore"}, scope : Int, strategy : {"nearest", "largest"}]
  \cup [name : {"goTo"}, goal : Cells, returning : BOOLEAN]

ASSUME ExploreAssumption ==
  /\ RegionCells \in Nat \ {0} /\ ChunkCells \in Nat \ {0}
  /\ Radius \in Nat /\ Margin \in Nat \ {0} /\ PerceptionWait \in Nat
  /\ Settings \subseteq [vehicle : Vehicles, pos : Cells, frontier : SUBSET Cells, hidden : SUBSET Cells,
                         blocked : SUBSET Cells, actions : SUBSET Actions, starts : Nat, changes : Nat]

VARIABLES
  setting, pos,
  action,             \* "none", "goTo", "explore"
  g, p,               \* the goTo of the action, the planner
  ex,                 \* the explore behavior
  frontier, hidden,   \* known cells beside unknown space, unknown cells
  blocked,            \* cells the planning view bars
  marks, temporary,   \* cells marked for good, and for the iteration
  phase,              \* of the tick: "plan", "act", "sense"
  result,             \* how the last action ended
  thrown,             \* the world has failed
  tried,              \* history: the searches of this action that failed, and the group of
                      \* each, forgotten when the map changes around it
  actions, changes

vars == <<setting, pos, action, g, p, ex, frontier, hidden, blocked, marks, temporary, phase,
          result, thrown, tried, actions, changes>>

Centres == 3       \* EXPLORE_CENTRES
MaxTravels == 3    \* EXPLORE_TRAVELS
Growth == 4        \* EXPLORE_WINDOW_GROWTH
AnyRegion == -1

Lowest(S) == CHOOSE c \in S : \A d \in S : c <= d
Highest(S) == CHOOSE c \in S : \A d \in S : c >= d

(***************************************************************************)
(* Frontier groups and marks                                               *)
(***************************************************************************)
RegionOf(c) == c \div RegionCells
GroupAt(c) ==
  {d \in frontier : \A e \in Cells : Distance(c, e) + Distance(e, d) = Distance(c, d)
                                      => e \in frontier /\ RegionOf(e) = RegionOf(c)}
Groups == {GroupAt(c) : c \in frontier}
Point(grp) == (Lowest(grp) + Highest(grp)) \div 2
GroupWith(c) == IF c \in frontier THEN GroupAt(c) ELSE {}

Candidates(s) == {grp \in Groups : ~(grp \subseteq s.marks)}
IsTemporary(s, grp) == grp \subseteq s.temporary
InScope(s) == {grp \in Candidates(s) : s.ex.scope \in {AnyRegion, RegionOf(Lowest(grp))}}

\* Unknown cells beside a candidate (its own lie beside the line), or with no known
\* cell beside them (a region is taken for connected with the agent's).
RegionHasReachableUnknown(s, r) ==
  \/ \E grp \in Candidates(s) : RegionOf(Lowest(grp)) = r
  \/ \E grp \in Candidates(s), c \in hidden : RegionOf(c) = r /\ Near(c) \cap grp # {}
  \/ \E c \in hidden : RegionOf(c) = r /\ Near(c) \subseteq hidden

Marked(s, c) == [s EXCEPT !.marks = @ \cup GroupWith(c), !.temporary = @ \ GroupWith(c)]
MarkedForNow(s, c) == [s EXCEPT !.temporary = @ \cup GroupWith(c)]
Cleared(s) == [s EXCEPT !.temporary = {}]

(***************************************************************************)
(* The behavior: s is what explore changes by itself                       *)
(***************************************************************************)
NoIteration == [on |-> FALSE]
NoTarget == [cells |-> {}]
NewExplore(scope, strategy) ==
  [scope |-> scope, strategy |-> strategy, iteration |-> NoIteration, target |-> NoTarget, mode |-> "iterate",
   origin |-> 0, window |-> <<0, 0>>, waited |-> 0,
   failures |-> [c \in Cells |-> [centres |-> {}, travels |-> 0]]]
NoExplore == [scope |-> AnyRegion]

\* What is remembered of a group: the records of its cells, merged.
CentresOf(x, grp) == UNION {x.failures[c].centres : c \in grp}
TravelsOf(x, grp) == LET t == {x.failures[c].travels : c \in grp} IN Highest(t)

D2(grp) == Distance(Point(grp), pos)
ById(grps) == CHOOSE grp \in grps : \A h \in grps : Lowest(grp) <= Lowest(h)
Nearest(grps, d) == ById({grp \in grps : \A h \in grps : d[grp] <= d[h]})
Choose(s, grps) ==
  LET from == IF s.ex.strategy = "nearest" THEN grps
              ELSE {grp \in grps : \A h \in grps : Cardinality(grp) >= Cardinality(h)}
  IN  Nearest(from, [grp \in from |-> D2(grp)])
DistanceToRegion(r, grp) == Lowest({Distance(Point(grp), c) : c \in {d \in Cells : RegionOf(d) = r}})

Around(c, m) == <<c - m, c + m>>
\* The window of a travel grows with those that failed. (SameWindow: it does not.)
SameWindow(s, grp) == Around(pos, Margin + D2(grp))
Grown[n \in Nat] == IF n = 0 THEN Margin ELSE Growth * Grown[n - 1]
TravelWindow(s, grp) ==
  LET m    == Grown[TravelsOf(s.ex, grp)]
      ends == {pos, Point(grp)}
  IN  <<Lowest(ends) - m, Highest(ends) + m>>

\* Starts navigating to the group, or to the cell of it nearest to its point that
\* is not blocked, in the window; with none it is marked without a search.
Begin(s, grp, mode, window) ==
  LET q     == Point(grp)
      free  == {c \in grp \ blocked : window[1] <= c /\ c <= window[2]}
      goals == IF q \notin blocked THEN {q}
               ELSE {c \in free : \A d \in free : Distance(c, q) <= Distance(d, q)}
  IN  IF goals = {} THEN Marked([s EXCEPT !.ex.mode = mode], q)
      ELSE [s EXCEPT !.g = NewGoTo(Lowest(goals), FALSE),
                     !.ex = [@ EXCEPT !.target = [cells |-> grp, point |-> q], !.mode = mode, !.window = window,
                                      !.origin = IF mode = "iterate" THEN s.ex.iteration.centre ELSE pos]]

\* Groups of the iteration that did not already fail from its centre.
Within(s, centre) == {grp \in InScope(s) : Distance(Point(grp), centre) <= Radius}
OfIteration(s) ==
  LET c == s.ex.iteration.centre
  IN  {grp \in Within(s, c) : ~IsTemporary(s, grp) /\ c \notin CentresOf(s.ex, grp)}
InIteration(s) == Begin(s, Choose(s, OfIteration(s)), "iterate", Around(s.ex.iteration.centre, Radius + Margin))

EndIteration(s) == IF s.ex.iteration.on THEN [Cleared(s) EXCEPT !.ex.iteration = NoIteration] ELSE s
BeginIteration(s) == [Cleared(s) EXCEPT !.ex.iteration = [on |-> TRUE, centre |-> pos]]

\* The groups left, or all again when every one failed its travel in this round.
\* (NoOtherRound: what failed a travel is left.)
Left(s) == {grp \in InScope(s) : ~IsTemporary(s, grp)}
NoOtherRound(s) == s
NextRound(s) == IF Left(s) = {} /\ InScope(s) # {} THEN Cleared(s) ELSE s

\* A region not seen yet is approached through the group nearest to it.
Approaches(s) ==
  IF /\ s.ex.scope # AnyRegion /\ InScope(s) = {}
     /\ RegionHasReachableUnknown(s, s.ex.scope)
  THEN {grp \in Candidates(s) : ~IsTemporary(s, grp)} ELSE {}

Ends(s, how) == [s EXCEPT !.ended = how]
EndReason(s) ==
  IF s.ex.scope # AnyRegion /\ (Candidates(s) # {} \/ ~RegionHasReachableUnknown(s, s.ex.scope))
  THEN "region_explored" ELSE "frontier_exhausted"
Exhausted(s) ==
  IF pos \notin hidden THEN Ends(s, EndReason(s))
  ELSE IF s.ex.waited < PerceptionWait THEN [s EXCEPT !.ex.waited = @ + 1]
  ELSE Ends(s, "no_map_data")

\* A group near enough that has not failed from here starts an iteration here; to
\* another one the agent travels.
Travel(s, grp) == Begin(s, grp, "travel", TravelWindow(s, grp))
ToNext(s, grp) ==
  IF D2(grp) <= Radius /\ pos \notin CentresOf(s.ex, grp) THEN InIteration(BeginIteration(s)) ELSE Travel(s, grp)
NextCentre(s) ==
  IF Left(s) # {} THEN ToNext(s, Nearest(Left(s), [grp \in Left(s) |-> D2(grp)]))
  ELSE IF Approaches(s) # {}
  THEN Travel(s, Nearest(Approaches(s), [grp \in Approaches(s) |-> DistanceToRegion(s.ex.scope, grp)]))
  ELSE Exhausted(s)
Select(s) ==
  IF s.ex.iteration.on /\ OfIteration(s) # {} THEN InIteration(s) ELSE NextCentre(NextRound(EndIteration(s)))

\* A failure inside the window is remembered of the group's cells, against the centre
\* it came from; the group is marked for now or for good. (Forgetful: travels are not counted.)
Record(x, more) ==
  LET grp == x.target.cells
      r   == [centres |-> CentresOf(x, grp) \cup {x.origin}, travels |-> TravelsOf(x, grp) + more]
  IN  [x EXCEPT !.failures = [c \in Cells |-> IF c \in grp THEN r ELSE x.failures[c]]]
Forgetful(x)  == Record(x, 0)
Remembered(x) == Record(x, IF x.mode = "travel" THEN 1 ELSE 0)
Failed(s) ==
  LET t == [s EXCEPT !.ex = Remembered(@)]
      r == t.ex.failures[t.ex.target.point]
  IN  IF Cardinality(r.centres) >= Centres \/ (t.ex.mode = "travel" /\ r.travels >= MaxTravels)
      THEN Marked(t, t.ex.target.point) ELSE MarkedForNow(t, t.ex.target.point)

(***************************************************************************)
(* A step: s is what explore changes, with the planner and the vehicle     *)
(***************************************************************************)
Stepped(s, q, at) == [s |-> s, p |-> q, pos |-> at, thrown |-> FALSE]
Picking(s) == [s EXCEPT !.g = NoGoTo]

\* What explore does with the outcome of its goTo's step.
AfterGoTo(s, o) ==
  LET t    == [s EXCEPT !.g = o.g]
      over == Stepped(Picking(s), Stopped(o.g, o.p), o.pos)
  IN  IF o.thrown THEN [Stepped(t, o.p, o.pos) EXCEPT !.thrown = TRUE]
      ELSE CASE o.step = "running" -> Stepped(t, o.p, o.pos)
             [] o.step = "reflex" -> Stepped(Ends(t, "reflex"), o.p, o.pos)
             [] o.step = "succeeded" -> over
             [] o.step \in {"unreachable", "planning_budget"} -> [over EXCEPT !.s = Failed(@)]
             [] o.step = "kinematically_infeasible" -> [over EXCEPT !.s = Marked(@, s.ex.target.point)]
             [] OTHER -> [over EXCEPT !.s = Ends(@, o.step)]

\* A target that sensing resolved on the way is left for the next one.
Resolved(s) == s.g.phase # "planning" /\ s.ex.target.point \notin frontier

Now == [ex |-> ex, g |-> g, marks |-> marks, temporary |-> temporary, ended |-> "no"]
StepExplore ==
  LET s == IF g = NoGoTo THEN Select(Now) ELSE Now
  IN  IF s.ended # "no" \/ s.g = NoGoTo THEN {Stepped(s, p, pos)}
      ELSE IF Resolved(s) THEN {Stepped(Picking(s), Stopped(s.g, p), pos)}
      ELSE {AfterGoTo(s, o) : o \in StepGoTo(setting.vehicle, Outcome(s.g, p, pos))}

\* A goTo action; onUnreachable marks the group at its goal.
StepPlainGoTo ==
  {LET t == [Now EXCEPT !.g = o.g, !.ended = IF o.step = "running" THEN "no" ELSE o.step]
   IN  [Stepped(IF o.told THEN Marked(t, g.goal) ELSE t, o.p, o.pos) EXCEPT !.thrown = o.thrown]
     : o \in StepGoTo(setting.vehicle, Outcome(g, p, pos))}

(***************************************************************************)
(* Ticks                                                                   *)
(***************************************************************************)
\* How an action stops: its search is cancelled, and the temporary marks end.
Ended(s, q, how) ==
  /\ action' = "none" /\ g' = NoGoTo /\ ex' = NoExplore /\ result' = how /\ tried' = {}
  /\ p' = Stopped(s.g, q)
  /\ temporary' = IF action = "explore" THEN {} ELSE s.temporary

Plan ==
  /\ phase = "plan" /\ ~thrown /\ phase' = "act"
  /\ p' \in Advanced(p)
  /\ UNCHANGED <<setting, pos, action, g, ex, frontier, hidden, blocked, marks, temporary, result, thrown, tried,
                 actions, changes>>

\* A search that failed, as `tried` keeps it with its group.
Search(x) == [point |-> x.target.point, origin |-> x.origin, mode |-> x.mode, window |-> x.window]
FailedSearches == {t.search : t \in tried}

Act ==
  /\ phase = "act" /\ phase' = "sense"
  /\ \E r \in CASE action = "explore" -> StepExplore [] action = "goTo" -> StepPlainGoTo
               [] OTHER -> {Stepped(Now, p, pos)} :
       /\ pos' = r.pos /\ marks' = r.s.marks /\ thrown' = r.thrown
       /\ IF r.s.ended # "no" THEN Ended(r.s, r.p, r.s.ended)
          ELSE /\ g' = r.s.g /\ p' = r.p /\ ex' = r.s.ex /\ temporary' = r.s.temporary
               /\ tried' = IF action = "explore" /\ r.s.ex.failures # ex.failures
                         THEN tried \cup {[group |-> r.s.ex.target.cells, search |-> Search(r.s.ex)]} ELSE tried
               /\ UNCHANGED <<action, result>>
  /\ UNCHANGED <<setting, frontier, hidden, blocked, actions, changes>>

\* Sensing shows cells around the vehicle; a change of the planning view clears the
\* marks in its chunk and the chunks around it.
ChunkOf(c) == c \div ChunkCells
Unaffected(S, c) == {d \in S : Distance(ChunkOf(d), ChunkOf(c)) > 1}

Sense ==
  /\ phase = "sense" /\ ~thrown /\ phase' = "plan"
  /\ \E seen \in SUBSET (hidden \cap Near(pos)) :
       /\ hidden' = hidden \ seen
       /\ \E new \in SUBSET (seen \ {pos}), resolved \in SUBSET (frontier \cap Near(pos)) :
            frontier' = (frontier \ (resolved \cup {pos})) \cup new
  /\ \/ UNCHANGED <<blocked, marks, temporary, g, p, tried, changes>>
     \/ /\ changes < setting.changes /\ changes' = changes + 1
        /\ \E c \in Near(pos) :
             /\ blocked' \in {blocked, blocked \cup {c}, blocked \ {c}}
             /\ marks' = Unaffected(marks, c) /\ temporary' = Unaffected(temporary, c)
             /\ tried' = {t \in tried : t.group = Unaffected(t.group, c)}
        /\ p' = MapChanged(p)
        /\ g' = IF g.end = NoPath THEN g ELSE [g EXCEPT !.stale = TRUE]
  /\ UNCHANGED <<setting, pos, action, ex, result, thrown, actions>>

\* Inputs and brains come before the planner; a running action is preempted.
Start(act) ==
  /\ phase = "plan" /\ ~thrown /\ actions < setting.starts /\ actions' = actions + 1
  /\ action' = act.name /\ p' = Stopped(g, p) /\ tried' = {} /\ result' = "none"
  /\ temporary' = IF action = "explore" THEN {} ELSE temporary
  /\ IF act.name = "explore" THEN g' = NoGoTo /\ ex' = NewExplore(act.scope, act.strategy)
     ELSE g' = NewGoTo(act.goal, act.returning) /\ ex' = NoExplore
  /\ UNCHANGED <<setting, pos, frontier, hidden, blocked, marks, phase, thrown, changes>>

\* A cancel, the battery or a reflex ends the action, before or after its step.
Interrupt ==
  /\ action # "none" /\ phase \in {"plan", "sense"} /\ ~thrown
  /\ Ended(Now, p, "interrupted")
  /\ UNCHANGED <<setting, pos, frontier, hidden, blocked, marks, phase, thrown, actions, changes>>

Init ==
  /\ setting \in Settings
  /\ pos = setting.pos /\ frontier = setting.frontier /\ hidden = setting.hidden /\ blocked = setting.blocked
  /\ action = "none" /\ g = NoGoTo /\ p = NoPlanner /\ ex = NoExplore
  /\ marks = {} /\ temporary = {} /\ phase = "plan" /\ result = "none" /\ thrown = FALSE
  /\ tried = {} /\ actions = 0 /\ changes = 0

Next == Plan \/ Act \/ Sense \/ Interrupt \/ \E act \in setting.actions : Start(act)

Spec == Init /\ [][Next]_vars

\* The scheduler runs tick after tick, and every part of a tick follows the one before.
Ticking == ~thrown /\ phase' = [plan |-> "act", act |-> "sense", sense |-> "plan"][phase]
FairSpec == Spec /\ WF_phase(Ticking)
=============================================================================
