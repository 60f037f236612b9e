---------------------------- MODULE ExploreProofs ----------------------------
(***************************************************************************)
(* Proofs about goTo and explore: an action leaves nothing behind, an      *)
(* exploration ends with nothing left, no failed search is made again, and *)
(* a path grows only forward where no vehicle backs off on a lazy plan,    *)
(* for any line of cells, any regions and chunks, vehicles, planners,      *)
(* sensors and changes of the view.                                        *)
(***************************************************************************)
EXTENDS ExploreProperties, SequenceFolds

(***************************************************************************)
(* What a goTo, its planner and the outcome of a step are                  *)
(***************************************************************************)
Answers == {"found"} \cup Failures
Codes   == {"running", "succeeded", "reflex", "unreachable", "planning_budget", "collision", "geofence",
            "kinematically_infeasible", "landing_blocked"}

GoToState ==
  [phase : {"planning", "climbing", "following", "backing-off", "landing"}, goal : Int, returning : BOOLEAN,
   asked : BOOLEAN, end : Int, pending : BOOLEAN, backing : BOOLEAN, reverse : BOOLEAN, recoveries : Nat,
   stale : BOOLEAN]
Leg == [first : BOOLEAN, end : Int, last : BOOLEAN]
LegsState ==
  [on : {TRUE}, reach : Int, ready : Seq(Leg), produced : BOOLEAN, done : BOOLEAN,
   status : Answers \cup {"none", "interrupted"}]
PlannerState ==
  [searching : BOOLEAN, changed : BOOLEAN, to : Int, age : Nat, legs : {NoLegs} \cup LegsState,
   outcome : Answers \cup {"none"}, left : BOOLEAN]
OutcomeState ==
  [g : GoToState, p : PlannerState, pos : Int, step : Codes, told : BOOLEAN, thrown : BOOLEAN]

\* A path in reverse is that of a recovery, and a recovery has no query.
GoToOK(G) ==
  /\ G.reverse /\ G.end # NoPath => G.backing
  /\ G.backing => ~G.asked /\ G.phase # "planning"

\* A search has no outcome yet; legs end with it.
PlannerOK(P) ==
  /\ P.searching => P.outcome = "none"
  /\ P.legs.on => (P.searching <=> ~P.legs.done) /\ (P.legs.done <=> P.legs.status # "none")

Quiet(P) == ~P.searching /\ P.legs = NoLegs /\ P.outcome = "none"

\* Who waits has something to wait for, and nothing waits for nobody.
Agrees(G, P) == G.asked <=> P.searching \/ P.legs.on \/ P.outcome # "none"

Good(o) == o \in OutcomeState /\ GoToOK(o.g) /\ PlannerOK(o.p) /\ Agrees(o.g, o.p)

\* Between the legs of one answer: when it is the last, its record is gone already.
Accepting(over, o) ==
  /\ o \in OutcomeState /\ GoToOK(o.g) /\ PlannerOK(o.p)
  /\ IF over THEN Quiet(o.p) /\ (~Running(o) => ~o.g.asked) ELSE Agrees(o.g, o.p)

(***************************************************************************)
(* The planner                                                             *)
(***************************************************************************)
LEMMA LegsOff == NoLegs.on = FALSE /\ (\A l \in LegsState : l.on = TRUE /\ l # NoLegs)
<1>1. NoLegs.on = FALSE
  BY DEF NoLegs
<1>2. \A l \in LegsState : l.on = TRUE
  BY DEF LegsState
<1> QED BY <1>1, <1>2

\* A quiet planner, in its three fields.
LEMMA QuietAgrees ==
  ASSUME NEW P \in PlannerState
  PROVE  /\ Quiet(P) => PlannerOK(P)
         /\ Quiet(P) <=> ~P.searching /\ ~P.legs.on /\ P.outcome = "none"
<1>1. P.legs = NoLegs \/ P.legs \in LegsState
  BY DEF PlannerState
<1>2. P.legs = NoLegs <=> ~P.legs.on
  BY <1>1, LegsOff
<1> QED BY <1>2 DEF Quiet, PlannerOK

\* Stopping a goTo leaves nothing with its planner.
LEMMA StopQuiets ==
  ASSUME NEW G, NEW P \in PlannerState, G.asked \in BOOLEAN, Agrees(G, P)
  PROVE  Stopped(G, P) \in PlannerState /\ Quiet(Stopped(G, P)) /\ PlannerOK(Stopped(G, P))
<1>1. Stopped(G, P) \in PlannerState
  BY DEF Stopped, Disowned, Cancelled, PlannerState
<1>2. Quiet(Stopped(G, P))
  <2>1. CASE G.asked
    BY <2>1 DEF Stopped, Disowned, Cancelled, PlannerState, Quiet
  <2>2. CASE ~G.asked
    BY <2>2, QuietAgrees DEF Stopped, Agrees
  <2> QED BY <2>1, <2>2
<1> QED BY <1>1, <1>2, QuietAgrees

\* Stopping twice is stopping once.
LEMMA QuietStays ==
  ASSUME NEW G, NEW P \in PlannerState, G.asked \in BOOLEAN, Quiet(P)
  PROVE  Stopped(G, P) \in PlannerState /\ Quiet(Stopped(G, P)) /\ PlannerOK(Stopped(G, P))
<1>1. Stopped(G, P) \in PlannerState
  BY DEF Stopped, Disowned, Cancelled, PlannerState
<1>2. Quiet(Stopped(G, P))
  BY DEF Stopped, Disowned, Cancelled, PlannerState, Quiet
<1> QED BY <1>1, <1>2, QuietAgrees

(***************************************************************************)
(* The steps of a goTo                                                     *)
(***************************************************************************)
\* A query dropped.
LEMMA DropQueryGood ==
  ASSUME NEW o \in OutcomeState, GoToOK(o.g), Agrees(o.g, o.p) \/ Quiet(o.p)
  PROVE  /\ Good(DropQuery(o)) /\ Quiet(DropQuery(o).p) /\ ~DropQuery(o).g.asked
         /\ DropQuery(o).step = o.step /\ DropQuery(o).thrown = o.thrown /\ DropQuery(o).pos = o.pos
<1> DEFINE q == Stopped(o.g, o.p)
           h == Forgotten(o.g)
<1>1. o.g \in GoToState /\ o.p \in PlannerState /\ o.g.asked \in BOOLEAN
  BY DEF OutcomeState, GoToState
<1>2. q \in PlannerState /\ Quiet(q) /\ PlannerOK(q)
  BY <1>1, StopQuiets, QuietStays
<1>3. h \in GoToState /\ ~h.asked /\ h.reverse = o.g.reverse /\ h.end = o.g.end /\ h.backing = o.g.backing
      /\ h.phase = o.g.phase
  BY <1>1 DEF Forgotten, GoToState
<1>4. DropQuery(o) = [o EXCEPT !.p = q, !.g = h]
  BY DEF DropQuery, OutcomeState
<1> HIDE DEF q, h
<1>5. /\ DropQuery(o) \in OutcomeState /\ DropQuery(o).p = q /\ DropQuery(o).g = h /\ DropQuery(o).step = o.step
      /\ DropQuery(o).thrown = o.thrown /\ DropQuery(o).pos = o.pos
  BY <1>2, <1>3, <1>4 DEF OutcomeState
<1>6. GoToOK(h)
  BY <1>3 DEF GoToOK
<1>7. Agrees(h, q)
  BY <1>2, <1>3, QuietAgrees DEF Agrees
<1> QED BY <1>2, <1>3, <1>5, <1>6, <1>7 DEF Good

\* Planning again, with nothing to wait for.
LEMMA PlanAgainGood ==
  ASSUME NEW o \in OutcomeState, Quiet(o.p)
  PROVE  Good(PlanAgain(o)) /\ PlanAgain(o).p = o.p /\ PlanAgain(o).step = o.step
         /\ PlanAgain(o).thrown = o.thrown /\ PlanAgain(o).pos = o.pos
<1> DEFINE f == Forgotten(o.g)
           h == [f EXCEPT !.end = NoPath, !.backing = FALSE, !.phase = "planning"]
<1>0. f \in GoToState /\ ~f.asked
  BY DEF OutcomeState, GoToState, Forgotten
<1>1. h \in GoToState /\ ~h.asked /\ h.end = NoPath /\ ~h.backing
  <2> HIDE DEF f
  <2>1. NoPath \in Int
    BY DEF NoPath
  <2>2. h \in GoToState
    BY <1>0, <2>1 DEF GoToState
  <2>3. h.asked = f.asked /\ h.end = NoPath /\ h.backing = FALSE
    BY <1>0 DEF GoToState
  <2> QED BY <1>0, <2>2, <2>3
<1>2. PlanAgain(o) = [o EXCEPT !.g = h]
  BY DEF PlanAgain, OutcomeState
<1> HIDE DEF h
<1>3. /\ PlanAgain(o) \in OutcomeState /\ PlanAgain(o).g = h /\ PlanAgain(o).p = o.p
      /\ PlanAgain(o).step = o.step /\ PlanAgain(o).thrown = o.thrown /\ PlanAgain(o).pos = o.pos
  BY <1>1, <1>2 DEF OutcomeState
<1>4. GoToOK(h)
  BY <1>1 DEF GoToOK
<1>5. o.p \in PlannerState
  BY DEF OutcomeState
<1>6. PlannerOK(o.p) /\ Agrees(h, o.p)
  BY <1>1, <1>5, QuietAgrees DEF Agrees
<1> QED BY <1>3, <1>4, <1>6 DEF Good

\* The fields of an outcome are set one by one.
LEMMA OutcomeFields ==
  ASSUME NEW o \in OutcomeState
  PROVE  /\ o.g \in GoToState /\ o.p \in PlannerState /\ o.pos \in Int /\ o.step \in Codes
         /\ o.told \in BOOLEAN /\ o.thrown \in BOOLEAN
         /\ \A h \in GoToState : LET x == [o EXCEPT !.g = h] IN
              /\ x \in OutcomeState /\ x.g = h /\ x.p = o.p /\ x.pos = o.pos /\ x.step = o.step
              /\ x.thrown = o.thrown
         /\ \A q \in PlannerState : LET x == [o EXCEPT !.p = q] IN
              /\ x \in OutcomeState /\ x.g = o.g /\ x.p = q /\ x.pos = o.pos /\ x.step = o.step
              /\ x.thrown = o.thrown
         /\ \A c \in Codes : LET x == Fails(o, c) IN
              /\ x \in OutcomeState /\ x.g = o.g /\ x.p = o.p /\ x.pos = o.pos /\ x.step = c
              /\ x.thrown = o.thrown
         /\ \A c \in Codes : LET x == Unreachable(o, c) IN
              /\ x \in OutcomeState /\ x.g = o.g /\ x.p = o.p /\ x.pos = o.pos /\ x.step = c
              /\ x.thrown = o.thrown
<1>1. /\ o.g \in GoToState /\ o.p \in PlannerState /\ o.pos \in Int /\ o.step \in Codes
      /\ o.told \in BOOLEAN /\ o.thrown \in BOOLEAN
  BY DEF OutcomeState
<1>2. ASSUME NEW h \in GoToState PROVE LET x == [o EXCEPT !.g = h] IN
        /\ x \in OutcomeState /\ x.g = h /\ x.p = o.p /\ x.pos = o.pos /\ x.step = o.step /\ x.thrown = o.thrown
  BY DEF OutcomeState
<1>3. ASSUME NEW q \in PlannerState PROVE LET x == [o EXCEPT !.p = q] IN
        /\ x \in OutcomeState /\ x.g = o.g /\ x.p = q /\ x.pos = o.pos /\ x.step = o.step /\ x.thrown = o.thrown
  BY DEF OutcomeState
<1>4. ASSUME NEW c \in Codes PROVE LET x == Fails(o, c) IN
        /\ x \in OutcomeState /\ x.g = o.g /\ x.p = o.p /\ x.pos = o.pos /\ x.step = c /\ x.thrown = o.thrown
  BY DEF OutcomeState, Fails
<1>5. ASSUME NEW c \in Codes PROVE LET x == Unreachable(o, c) IN
        /\ x \in OutcomeState /\ x.g = o.g /\ x.p = o.p /\ x.pos = o.pos /\ x.step = c /\ x.thrown = o.thrown
  <2> DEFINE y == Fails(o, c)
  <2>1. y \in OutcomeState /\ y.g = o.g /\ y.p = o.p /\ y.pos = o.pos /\ y.step = c /\ y.thrown = o.thrown
    BY <1>4
  <2>2. Unreachable(o, c) = [y EXCEPT !.told = TRUE]
    BY DEF Unreachable
  <2> HIDE DEF y
  <2> QED BY <2>1, <2>2 DEF OutcomeState
<1> QED BY <1>1, <1>2, <1>3, <1>4, <1>5

\* The goTo changed, its query and outcome did not.
Same(x, o) ==
  x.p = o.p /\ x.g.asked = o.g.asked /\ x.step = o.step /\ x.thrown = o.thrown /\ x.pos = o.pos

\* What a step leaves alone stays accepted.
LEMMA SameAccepts ==
  ASSUME NEW over, NEW o, Accepting(over, o), NEW x \in OutcomeState, Same(x, o), GoToOK(x.g)
  PROVE  Accepting(over, x)
BY DEF Accepting, Same, Running, Agrees

\* An outcome that agrees with its planner can take a leg; a quiet one, any.
LEMMA GoodAccepts ==
  ASSUME NEW o
  PROVE  /\ Good(o) <=> Accepting(FALSE, o)
         /\ \A over \in BOOLEAN : Good(o) /\ Quiet(o.p) => Accepting(over, o)
<1>1. Good(o) <=> Accepting(FALSE, o)
  BY DEF Good, Accepting
<1>2. ASSUME Good(o), Quiet(o.p) PROVE Accepting(TRUE, o)
  <2>1. o.p \in PlannerState
    BY <1>2 DEF Good, OutcomeState
  <2>2. ~o.g.asked
    BY <1>2, <2>1, QuietAgrees DEF Good, Agrees, OutcomeState, GoToState
  <2> QED BY <1>2, <2>2 DEF Good, Accepting
<1> QED BY <1>1, <1>2

\* A path to follow.
LEMMA FollowsGood ==
  ASSUME NEW over, NEW o, Accepting(over, o), NEW end \in Int, NEW v, NEW x \in Follows(v, o, end)
  PROVE  Accepting(over, x) /\ Same(x, o)
<1>0. o \in OutcomeState /\ o.g \in GoToState
  BY OutcomeFields DEF Accepting
<1>1. PICK f \in {"climbing", "following"} :
        x = [o EXCEPT !.g = [[o.g EXCEPT !.end = end, !.backing = FALSE, !.reverse = FALSE, !.stale = FALSE]
                               EXCEPT !.phase = f]]
  BY DEF Follows
<1> DEFINE h == [o.g EXCEPT !.end = end, !.backing = FALSE, !.reverse = FALSE, !.stale = FALSE]
           k == [h EXCEPT !.phase = f]
<1>2. h \in GoToState /\ h.asked = o.g.asked /\ ~h.backing /\ ~h.reverse
  BY <1>0 DEF GoToState
<1>3. x = [o EXCEPT !.g = k]
  BY <1>1
<1> HIDE DEF h
<1>4. k \in GoToState /\ k.asked = o.g.asked /\ k.backing = h.backing /\ k.reverse = h.reverse
  BY <1>2 DEF GoToState
<1> HIDE DEF k
<1>5. x \in OutcomeState /\ Same(x, o) /\ x.g = k
  BY <1>0, <1>3, <1>4, OutcomeFields DEF Same
<1>6. GoToOK(k)
  BY <1>2, <1>4 DEF GoToOK
<1> QED BY <1>5, <1>6, SameAccepts

\* A line of cells is a set of numbers.
LEMMA CellsAreNumbers == Cells \subseteq Int
BY GoToAssumption, FS_CardinalityType

\* A recovery, of a goTo without a query.
LEMMA RecoversGood ==
  ASSUME NEW over, NEW o, Accepting(over, o), ~o.g.asked, NEW reverse \in BOOLEAN, NEW x \in Recovers(o, reverse)
  PROVE  Accepting(over, x) /\ Same(x, o)
<1>0. o \in OutcomeState /\ o.g \in GoToState
  BY OutcomeFields DEF Accepting
<1>1. PICK c \in Near(o.pos) :
        x = [o EXCEPT !.g = [o.g EXCEPT !.recoveries = @ + 1, !.end = c, !.backing = TRUE, !.reverse = reverse,
                                        !.stale = FALSE, !.phase = "backing-off"]]
  BY DEF Recovers
<1> DEFINE h == [o.g EXCEPT !.recoveries = @ + 1, !.end = c, !.backing = TRUE, !.reverse = reverse,
                            !.stale = FALSE, !.phase = "backing-off"]
<1>2. c \in Int
  BY <1>1, CellsAreNumbers DEF Near
<1>3. h \in GoToState /\ h.asked = o.g.asked /\ h.backing /\ h.phase = "backing-off"
  <2> DEFINE n == o.g.recoveries + 1
  <2>0. n \in Nat /\ h = [o.g EXCEPT !.recoveries = n, !.end = c, !.backing = TRUE, !.reverse = reverse,
                                     !.stale = FALSE, !.phase = "backing-off"]
    BY <1>0 DEF GoToState
  <2> HIDE DEF n, h
  <2>1. h \in GoToState
    BY <1>0, <1>2, <2>0 DEF GoToState
  <2> USE DEF h
  <2>2. h.asked = o.g.asked /\ h.backing = TRUE /\ h.phase = "backing-off"
    BY <1>0 DEF GoToState
  <2> QED BY <2>1, <2>2
<1>4. x = [o EXCEPT !.g = h]
  BY <1>1
<1> HIDE DEF h
<1>5. x \in OutcomeState /\ Same(x, o) /\ x.g = h
  BY <1>0, <1>3, <1>4, OutcomeFields DEF Same
<1>6. GoToOK(h)
  BY <1>3 DEF GoToOK
<1> QED BY <1>5, <1>6, SameAccepts

\* A goTo without a query fails.
LEMMA FailsGood ==
  ASSUME NEW over, NEW o, Accepting(over, o), ~over \/ ~o.g.asked, NEW c \in Codes
  PROVE  Accepting(over, Fails(o, c)) /\ Accepting(over, Unreachable(o, c))
<1> DEFINE x == Fails(o, c)
           y == Unreachable(o, c)
<1>1. /\ x \in OutcomeState /\ x.g = o.g /\ x.p = o.p
      /\ y \in OutcomeState /\ y.g = o.g /\ y.p = o.p
  BY OutcomeFields DEF Accepting
<1> HIDE DEF x, y
<1>2. Accepting(over, x) /\ Accepting(over, y)
  BY <1>1 DEF Accepting
<1> QED BY <1>2 DEF x, y

\* A path fails the pre-drive check.
LEMMA CheckFailsGood ==
  ASSUME NEW over, NEW o, Accepting(over, o), ~o.g.asked, NEW v, NEW first, NEW x \in CheckFails(v, o, first)
  PROVE  Accepting(over, x)
<1>1. CASE x \in Recovers(o, TRUE)
  BY <1>1, RecoversGood
<1>2. CASE x = Unreachable(o, "kinematically_infeasible")
  BY <1>2, FailsGood DEF Codes
<1> QED BY <1>1, <1>2 DEF CheckFails

\* A whole path was found.
LEMMA BeginFollowingGood ==
  ASSUME NEW o, Good(o), ~o.g.asked, NEW v, NEW x \in BeginFollowing(v, o)
  PROVE  Good(x)
<1>1. Accepting(FALSE, o) /\ o.g.goal \in Int
  BY GoodAccepts DEF Good, OutcomeState, GoToState
<1>2. CASE x \in Follows(v, o, o.g.goal)
  BY <1>1, <1>2, FollowsGood, GoodAccepts
<1>3. CASE x \in CheckFails(v, o, TRUE)
  BY <1>1, <1>3, CheckFailsGood, GoodAccepts
<1> QED BY <1>2, <1>3 DEF BeginFollowing

\* A leg is accepted.
LEMMA AppendedGood ==
  ASSUME NEW over, NEW o, Accepting(over, o), NEW leg \in Leg
  PROVE  Accepting(over, Appended(o, leg))
<1>0. o \in OutcomeState /\ o.g \in GoToState /\ GoToOK(o.g) /\ leg.end \in Int /\ (~leg.last) \in BOOLEAN
  <2>1. o \in OutcomeState /\ o.g \in GoToState /\ GoToOK(o.g)
    BY OutcomeFields DEF Accepting
  <2>2. leg.end \in Int
    BY DEF Leg
  <2>3. (~leg.last) \in BOOLEAN
    BY Zenon
  <2> QED BY <2>1, <2>2, <2>3
<1>1. CASE o.g.reverse /\ o.g.end # NoPath
  <2> DEFINE x == [o EXCEPT !.thrown = TRUE]
  <2>1. x \in OutcomeState /\ x.g = o.g /\ x.p = o.p /\ x.step = o.step
    BY <1>0 DEF OutcomeState
  <2>2. ~o.g.asked /\ Appended(o, leg) = x
    BY <1>0, <1>1 DEF GoToOK, Appended
  <2> HIDE DEF x
  <2>3. Accepting(over, x)
    BY <2>1, <2>2 DEF Accepting
  <2> QED BY <2>2, <2>3
<1>2. CASE ~(o.g.reverse /\ o.g.end # NoPath)
  <2> DEFINE e == IF o.g.end = NoPath THEN o.g.end ELSE leg.end
             f == [o.g EXCEPT !.end = e]
             h == [f EXCEPT !.pending = ~leg.last]
             y == [o EXCEPT !.g = f]
             x == [y EXCEPT !.g = h]
  <2>1. e \in Int /\ (o.g.end = NoPath => e = NoPath)
    BY <1>0 DEF GoToState
  <2>2. Appended(o, leg) = x
    <3>1. y.g = f
      BY <1>0 DEF OutcomeState
    <3>2. Appended(o, leg) = [y EXCEPT !.g.pending = ~leg.last]
      BY <1>2 DEF Appended
    <3> QED BY <3>1, <3>2
  <2> HIDE DEF e
  <2>3. f \in GoToState /\ f.asked = o.g.asked /\ f.reverse = o.g.reverse /\ f.backing = o.g.backing
        /\ f.end = e /\ f.phase = o.g.phase
    BY <1>0, <2>1 DEF GoToState
  <2> HIDE DEF f
  <2>4. h \in GoToState /\ h.asked = f.asked /\ h.reverse = f.reverse /\ h.backing = f.backing
        /\ h.end = f.end /\ h.phase = f.phase
    BY <1>0, <2>3 DEF GoToState
  <2> HIDE DEF h
  <2>5. y \in OutcomeState /\ y.p = o.p /\ y.pos = o.pos /\ y.step = o.step /\ y.thrown = o.thrown
    BY <1>0, <2>3, OutcomeFields
  <2> HIDE DEF y
  <2>6. x \in OutcomeState /\ x.g = h /\ x.p = y.p /\ x.pos = y.pos /\ x.step = y.step /\ x.thrown = y.thrown
    BY <2>4, <2>5, OutcomeFields
  <2> HIDE DEF x
  <2>7. Same(x, o) /\ GoToOK(x.g)
    BY <1>0, <1>2, <2>1, <2>3, <2>4, <2>5, <2>6 DEF Same, GoToOK
  <2> QED BY <2>2, <2>6, <2>7, SameAccepts
<1> QED BY <1>1, <1>2

\* A leg begins the path, goes on with it, or fails the check.
LEMMA AcceptLegGood ==
  ASSUME NEW over \in BOOLEAN, NEW o, Accepting(over, o), NEW leg \in Leg, NEW v, NEW x \in AcceptLeg(v, o, leg)
  PROVE  Accepting(over, x)
<1>0. o \in OutcomeState /\ o.g \in GoToState /\ GoToOK(o.g) /\ leg.end \in Int /\ (~leg.last) \in BOOLEAN
  <2>1. o \in OutcomeState /\ o.g \in GoToState /\ GoToOK(o.g)
    BY OutcomeFields DEF Accepting
  <2>2. leg.end \in Int
    BY DEF Leg
  <2>3. (~leg.last) \in BOOLEAN
    BY Zenon
  <2> QED BY <2>1, <2>2, <2>3
<1>1. CASE leg.first /\ x \in Follows(v, [o EXCEPT !.g.pending = ~leg.last], leg.end)
  <2> DEFINE h == [o.g EXCEPT !.pending = ~leg.last]
             y == [o EXCEPT !.g = h]
  <2>1. h \in GoToState /\ h.asked = o.g.asked /\ h.reverse = o.g.reverse /\ h.backing = o.g.backing
        /\ h.end = o.g.end /\ h.phase = o.g.phase
    BY <1>0 DEF GoToState
  <2>2. x \in Follows(v, y, leg.end)
    BY <1>1
  <2> HIDE DEF h
  <2>3. y \in OutcomeState /\ y.g = h /\ y.p = o.p /\ y.pos = o.pos /\ y.step = o.step /\ y.thrown = o.thrown
    BY <1>0, <2>1, OutcomeFields
  <2> HIDE DEF y
  <2>4. Same(y, o) /\ GoToOK(y.g)
    BY <1>0, <2>1, <2>3 DEF Same, GoToOK
  <2>5. Accepting(over, y)
    BY <2>3, <2>4, SameAccepts
  <2> QED BY <1>0, <2>2, <2>5, FollowsGood
<1>2. CASE ~leg.first /\ x = Appended(o, leg)
  BY <1>2, AppendedGood
<1>3. CASE x \in CheckFails(v, DropQuery(o), leg.first)
  <2>1. Agrees(o.g, o.p) \/ Quiet(o.p)
    BY DEF Accepting
  <2>2. Good(DropQuery(o)) /\ Quiet(DropQuery(o).p) /\ ~DropQuery(o).g.asked
    BY <1>0, <2>1, DropQueryGood
  <2>3. Accepting(over, DropQuery(o))
    BY <2>2, GoodAccepts
  <2> QED BY <1>3, <2>2, <2>3, CheckFailsGood
<1> QED BY <1>1, <1>2, <1>3 DEF AcceptLeg

\* One leg after the other.
AllAccepting(over) == {x \in OutcomeState : Accepting(over, x)}
NextLeg(v, S, leg) == UNION {IF Running(x) THEN AcceptLeg(v, x, leg) ELSE {x} : x \in S}

\* All legs that are ready, by the steps of the fold: what every leg keeps, they keep.
LEMMA LegByLeg ==
  ASSUME NEW W, NEW o \in W, NEW legs \in Seq(Leg), NEW v,
         \A x \in W, leg \in Leg : Running(x) => AcceptLeg(v, x, leg) \subseteq W
  PROVE  AcceptLegs(v, o, legs) \subseteq W
<1> DEFINE n == Len(legs)
           V == SUBSET W
           F == [i \in 1..n |-> [S \in V |-> NextLeg(v, S, legs[i])]]
           Rec(it) == it = [t \in SUBSET DOMAIN legs |->
                              IF t = {} THEN {o} ELSE NextLeg(v, it[t \ {Max(t)}], legs[Max(t)])]
           it0 == CHOOSE it : Rec(it)
<1>1. n \in Nat /\ DOMAIN legs = 1..n /\ {o} \in V
  OBVIOUS
<1>2. /\ F \in [1..n -> [V -> V]]
      /\ \A i \in 1..n, S \in V : F[i][S] = NextLeg(v, S, legs[i])
  <2>1. ASSUME NEW i \in 1..n, NEW S \in V PROVE NextLeg(v, S, legs[i]) \in V
    <3>1. legs[i] \in Leg
      OBVIOUS
    <3>2. ASSUME NEW x \in S PROVE (IF Running(x) THEN AcceptLeg(v, x, legs[i]) ELSE {x}) \subseteq W
      BY <3>1
    <3> QED BY <3>2 DEF NextLeg
  <2> HIDE DEF V
  <2> QED BY <2>1
<1> HIDE DEF F, n, V
<1>3. ASSUME NEW t \in SUBSET (1..n), t # {}
      PROVE  Max(t) \in 1..n /\ t \ {Max(t)} \in SUBSET (1..n)
  BY <1>1, <1>3, GreatestIndex
<1>4. PICK it \in [SUBSET (1..n) -> V] : SolvesFold(it, n, V, {o}, F)
  BY <1>1, <1>2, FoldExists
<1>5. Rec(it)
  <2>1. ASSUME NEW t \in SUBSET (1..n), t # {}
        PROVE  it[t] = NextLeg(v, it[t \ {Max(t)}], legs[Max(t)])
    BY <1>2, <1>3, <1>4, <2>1 DEF SolvesFold
  <2>2. it[{}] = {o}
    BY <1>4 DEF SolvesFold
  <2> QED BY <1>1, <2>1, <2>2
<1>6. Rec(it0)
  BY <1>5
<1>7. SolvesFold(it0, n, V, {o}, F)
  <2> HIDE DEF it0
  <2>1. ASSUME NEW t \in SUBSET (1..n), t # {}, it0[t \ {Max(t)}] \in V
        PROVE  it0[t] = F[Max(t)][it0[t \ {Max(t)}]]
    <3>1. Max(t) \in 1..n
      BY <1>3, <2>1
    <3>2. it0[t] = NextLeg(v, it0[t \ {Max(t)}], legs[Max(t)])
      BY <1>1, <1>6, <2>1
    <3> QED BY <1>2, <2>1, <3>1, <3>2
  <2>2. it0[{}] = {o}
    BY <1>1, <1>6
  <2> QED BY <2>1, <2>2 DEF SolvesFold
<1>8. AcceptLegs(v, o, legs) = FoldValue(it0, n)
  BY <1>1 DEF FoldValue, AcceptLegs, FoldLeft, MapThenFoldSet, NextLeg
<1> HIDE DEF it0
<1>9. PICK H : StepsOf(H, n, V, {o}, F) /\ H[n] = FoldValue(it0, n)
  BY <1>1, <1>2, <1>7, FoldSteps
<1>10. AcceptLegs(v, o, legs) \in V
  BY <1>1, <1>8, <1>9 DEF StepsOf
<1> QED BY <1>10 DEF V

\* They stay accepted.
LEMMA AcceptLegsGood ==
  ASSUME NEW over \in BOOLEAN, NEW o, Accepting(over, o), NEW legs \in Seq(Leg), NEW v
  PROVE  \A x \in AcceptLegs(v, o, legs) : Accepting(over, x)
<1>1. \A x : x \in AllAccepting(over) <=> Accepting(over, x)
  BY DEF AllAccepting, Accepting
<1>2. \A x \in AllAccepting(over), leg \in Leg : AcceptLeg(v, x, leg) \subseteq AllAccepting(over)
  BY <1>1, AcceptLegGood
<1> QED BY <1>1, <1>2, LegByLeg

\* A query that is over.
LEMMA QueryEndsGood ==
  ASSUME NEW o, o \in OutcomeState, GoToOK(o.g), Quiet(o.p), ~Running(o) => ~o.g.asked, NEW status
  PROVE  Good(QueryEnds(o, status))
<1> DEFINE h == Forgotten(o.g)
           y == [o EXCEPT !.g = h]
<1>1. h \in GoToState /\ ~h.asked /\ h.reverse = o.g.reverse /\ h.end = o.g.end /\ h.backing = o.g.backing
      /\ h.phase = o.g.phase
  <2>1. o.g \in GoToState
    BY OutcomeFields
  <2> QED BY <2>1 DEF Forgotten, GoToState
<1>2. [o EXCEPT !.g = Forgotten(@)] = y
  OBVIOUS
<1> HIDE DEF h
<1>3. y \in OutcomeState /\ y.g = h /\ y.p = o.p
  BY <1>1, OutcomeFields
<1> HIDE DEF y
<1>4. o.p \in PlannerState
  BY OutcomeFields
<1>5. Accepting(TRUE, y) /\ Good(y)
  <2>1. GoToOK(y.g) /\ ~y.g.asked /\ Quiet(y.p) /\ y.p \in PlannerState
    BY <1>1, <1>3, <1>4 DEF GoToOK
  <2>2. PlannerOK(y.p) /\ Agrees(y.g, y.p)
    BY <2>1, QuietAgrees DEF Agrees
  <2> QED BY <1>3, <2>1, <2>2 DEF Good, Accepting
<1>6. ~y.g.asked
  BY <1>1, <1>3
<1>7. CASE ~Running(o)
  <2>1. PlannerOK(o.p) /\ Agrees(o.g, o.p)
    BY <1>4, <1>7, QuietAgrees DEF Agrees
  <2> QED BY <1>7, <2>1 DEF Good, QueryEnds
<1>8. CASE Running(o)
  <2>1. QueryEnds(o, status) \in {y, Unreachable(y, "unreachable"), Fails(y, "planning_budget")}
    BY <1>2, <1>8 DEF QueryEnds
  <2>2. Good(Unreachable(y, "unreachable")) /\ Good(Fails(y, "planning_budget"))
    <3>1. "unreachable" \in Codes /\ "planning_budget" \in Codes /\ Accepting(FALSE, y)
      BY <1>5, GoodAccepts DEF Codes
    <3> QED BY <1>6, <3>1, FailsGood, GoodAccepts
  <2> QED BY <1>5, <2>1, <2>2
<1> QED BY <1>7, <1>8

\* What has become ready is taken.
LEMMA TakenState ==
  ASSUME NEW P \in PlannerState, PlannerOK(P), P.legs.on
  PROVE  /\ P.legs \in LegsState /\ Taken(P) \in PlannerState /\ PlannerOK(Taken(P))
         /\ IF P.legs.done THEN Quiet(Taken(P))
            ELSE Taken(P).legs.on /\ Taken(P).searching = P.searching /\ Taken(P).outcome = P.outcome
<1>1. P.legs \in LegsState
  BY LegsOff DEF PlannerState
<1>2. CASE P.legs.done
  <2> DEFINE q == [P EXCEPT !.legs = NoLegs, !.outcome = "none"]
  <2>1. Taken(P) = q
    BY <1>2 DEF Taken
  <2>2. q \in PlannerState /\ q.legs = NoLegs /\ q.outcome = "none" /\ q.searching = P.searching
    BY DEF PlannerState
  <2>3. ~P.searching
    BY <1>2 DEF PlannerOK
  <2> HIDE DEF q
  <2>4. Quiet(q)
    BY <2>2, <2>3 DEF Quiet
  <2> QED BY <1>1, <1>2, <2>1, <2>2, <2>4, QuietAgrees
<1>3. CASE ~P.legs.done
  <2> DEFINE l == [P.legs EXCEPT !.ready = <<>>]
             q == [P EXCEPT !.legs = l]
  <2>1. Taken(P) = q
    BY <1>3 DEF Taken
  <2>2. l \in LegsState /\ l.on = P.legs.on /\ l.done = P.legs.done /\ l.status = P.legs.status
    <3>1. <<>> \in Seq(Leg)
      OBVIOUS
    <3>2. l \in LegsState
      BY <1>1, <3>1 DEF LegsState
    <3>3. l.on = P.legs.on /\ l.done = P.legs.done /\ l.status = P.legs.status
      BY <1>1 DEF LegsState
    <3> QED BY <3>2, <3>3
  <2> HIDE DEF l
  <2>3. q \in PlannerState /\ q.legs = l /\ q.outcome = P.outcome /\ q.searching = P.searching
    BY <2>2 DEF PlannerState
  <2> HIDE DEF q
  <2>4. PlannerOK(q)
    BY <2>2, <2>3 DEF PlannerOK
  <2> QED BY <1>1, <1>3, <2>1, <2>2, <2>3, <2>4
<1> QED BY <1>2, <1>3

\* A lazy query got further.
LEMMA OnProgressGood ==
  ASSUME NEW o, Good(o), Running(o), HasProgress(o), NEW v, NEW x \in OnProgress(v, o)
  PROVE  Good(x)
<1> DEFINE l == o.p.legs
           q == Taken(o.p)
           t == [o EXCEPT !.p = q]
<1>1. o \in OutcomeState /\ o.g \in GoToState /\ o.p \in PlannerState /\ o.p.legs.on /\ o.g.asked
      /\ GoToOK(o.g) /\ PlannerOK(o.p) /\ Agrees(o.g, o.p)
  BY OutcomeFields DEF Good, HasProgress
<1>2. /\ l \in LegsState /\ q \in PlannerState /\ PlannerOK(q)
      /\ IF l.done THEN Quiet(q) ELSE q.legs.on
  BY <1>1, TakenState
<1>3. l.ready \in Seq(Leg) /\ l.done \in BOOLEAN
  BY <1>2 DEF LegsState
<1>10. l.done <=> l.status # "none"
  BY <1>1 DEF PlannerOK
<1>4. [o EXCEPT !.p = Taken(@)] = t
  OBVIOUS
<1> HIDE DEF q
<1>5. t \in OutcomeState /\ t.g = o.g /\ t.p = q /\ t.step = o.step /\ t.thrown = o.thrown
  BY <1>1, <1>2, OutcomeFields
<1>6. x \in IF l.status = "interrupted" THEN {PlanAgain(t)}
            ELSE {IF l.done THEN QueryEnds(y, l.status) ELSE y : y \in AcceptLegs(v, t, l.ready)}
  BY <1>4 DEF OnProgress
<1> HIDE DEF t, l
<1>7. CASE l.status = "interrupted"
  <2>1. Quiet(t.p)
    BY <1>2, <1>10, <1>5, <1>7
  <2>2. Good(PlanAgain(t))
    BY <1>5, <2>1, PlanAgainGood
  <2> QED BY <1>6, <1>7, <2>2
<1>8. CASE l.status # "interrupted" /\ l.done
  <2>1. PICK y \in AcceptLegs(v, t, l.ready) : x = QueryEnds(y, l.status)
    BY <1>6, <1>8
  <2>2. Running(t)
    BY <1>5 DEF Running
  <2>3. Accepting(TRUE, t)
    BY <1>1, <1>2, <1>5, <1>8, <2>2 DEF Accepting
  <2>4. Accepting(TRUE, y)
    BY <1>3, <2>1, <2>3, AcceptLegsGood
  <2> QED BY <2>1, <2>4, QueryEndsGood DEF Accepting
<1>9. CASE l.status # "interrupted" /\ ~l.done
  <2>1. x \in AcceptLegs(v, t, l.ready)
    BY <1>6, <1>9
  <2>2. Agrees(t.g, t.p)
    BY <1>1, <1>2, <1>5, <1>9 DEF Agrees
  <2>3. Accepting(FALSE, t)
    BY <1>1, <1>2, <1>5, <2>2 DEF Accepting
  <2>4. Accepting(FALSE, x)
    BY <1>3, <2>1, <2>3, AcceptLegsGood
  <2> QED BY <2>4, GoodAccepts
<1> QED BY <1>3, <1>7, <1>8, <1>9

\* A search begins.
LEMMA SubmittedState ==
  ASSUME NEW P \in PlannerState, Quiet(P), NEW from \in Int, NEW to \in Int, NEW lazy \in BOOLEAN
  PROVE  LET q == Submitted(P, from, to, lazy) IN q \in PlannerState /\ PlannerOK(q) /\ q.searching
<1> DEFINE l == IF lazy THEN LegsFrom(from) ELSE NoLegs
           q == [P EXCEPT !.searching = TRUE, !.changed = FALSE, !.to = to, !.age = 0, !.legs = l]
<1>1. LegsFrom(from) \in LegsState
  <2>1. <<>> \in Seq(Leg)
    OBVIOUS
  <2> QED BY <2>1 DEF LegsFrom, LegsState
<1>2. LegsFrom(from).done = FALSE /\ LegsFrom(from).status = "none"
  BY DEF LegsFrom
<1>3. l \in {NoLegs} \cup LegsState
  BY <1>1
<1>4. l.on => ~l.done /\ l.status = "none"
  BY <1>2, LegsOff
<1>5. Submitted(P, from, to, lazy) = q
  BY DEF Submitted
<1> HIDE DEF l
<1>6. q \in PlannerState
  BY <1>3 DEF PlannerState
<1>7. q.searching = TRUE /\ q.legs = l /\ q.outcome = P.outcome
  BY DEF PlannerState
<1> HIDE DEF q
<1>8. PlannerOK(q)
  BY <1>4, <1>7 DEF PlannerOK, Quiet
<1> QED BY <1>5, <1>6, <1>7, <1>8

\* With no query.
LEMMA AskGood ==
  ASSUME NEW o, Good(o), ~o.g.asked, o.g.phase = "planning", NEW v \in Vehicles, NEW x \in Ask(v, o)
  PROVE  Good(x)
<1>1. /\ o \in OutcomeState /\ o.g \in GoToState /\ o.p \in PlannerState /\ o.pos \in Int /\ GoToOK(o.g)
      /\ PlannerOK(o.p) /\ Agrees(o.g, o.p) /\ Accepting(FALSE, o)
  BY OutcomeFields, GoodAccepts DEF Good
<1>2. CASE x \in Recovers(o, FALSE) \cup Recovers(o, TRUE)
  <2>1. Accepting(FALSE, x)
    BY <1>1, <1>2, RecoversGood
  <2> QED BY <2>1, GoodAccepts
<1>3. CASE x \in {Fails(o, "kinematically_infeasible"), Fails(o, "unreachable")}
  <2>1. "unreachable" \in Codes /\ "kinematically_infeasible" \in Codes
    BY DEF Codes
  <2> QED BY <1>1, <1>3, <2>1, FailsGood, GoodAccepts
<1>4. CASE x = [o EXCEPT !.g.asked = TRUE, !.g.stale = FALSE, !.p = Submitted(@, o.pos, o.g.goal, v.lazy)]
  <2> DEFINE h == [o.g EXCEPT !.asked = TRUE, !.stale = FALSE]
             q == Submitted(o.p, o.pos, o.g.goal, v.lazy)
             y == [o EXCEPT !.g = h]
  <2>1. h \in GoToState
    BY <1>1 DEF GoToState
  <2>2. h.asked = TRUE /\ h.reverse = o.g.reverse /\ h.end = o.g.end /\ h.backing = o.g.backing
    BY <1>1 DEF GoToState
  <2>3. Quiet(o.p)
    BY <1>1, QuietAgrees DEF Agrees
  <2>4. q \in PlannerState /\ PlannerOK(q) /\ q.searching
    <3>1. v.lazy \in BOOLEAN /\ o.g.goal \in Int
      BY <1>1 DEF Vehicles, GoToState
    <3> QED BY <1>1, <2>3, <3>1, SubmittedState
  <2>5. x = [o EXCEPT !.g = h, !.p = q]
    BY <1>1, <1>4 DEF OutcomeState
  <2> HIDE DEF h, q
  <2>6. x = [y EXCEPT !.p = q]
    BY <1>1, <2>5 DEF OutcomeState
  <2>7. y \in OutcomeState /\ y.g = h
    BY <1>1, <2>1, OutcomeFields
  <2> HIDE DEF y
  <2>8. x \in OutcomeState /\ x.g = h /\ x.p = q
    BY <2>4, <2>6, <2>7, OutcomeFields
  <2>9. GoToOK(h) /\ Agrees(h, q)
    BY <1>1, <2>2, <2>4 DEF GoToOK, Agrees
  <2> QED BY <2>4, <2>8, <2>9 DEF Good
<1> QED BY <1>2, <1>3, <1>4 DEF Ask

\* The outcome of a query, complete.
LEMMA TakeGood ==
  ASSUME NEW o, Good(o), Running(o), o.g.asked, ~HasProgress(o), NEW v, NEW x \in Take(v, o)
  PROVE  Good(x)
<1>1. /\ o \in OutcomeState /\ o.g \in GoToState /\ o.p \in PlannerState /\ GoToOK(o.g) /\ PlannerOK(o.p)
      /\ Agrees(o.g, o.p)
  BY OutcomeFields DEF Good
<1>2. CASE o.p.outcome = "none"
  BY <1>2 DEF Take
<1>3. CASE o.p.outcome # "none"
  <2> DEFINE h == [o.g EXCEPT !.asked = FALSE]
             q == [o.p EXCEPT !.outcome = "none"]
             y == [o EXCEPT !.g = h]
             t == [y EXCEPT !.p = q]
  <2>1. ~o.p.searching /\ (o.p.legs.on => o.p.legs.done)
    BY <1>1, <1>3 DEF PlannerOK
  <2>2. ~o.p.legs.on
    BY <2>1 DEF HasProgress
  <2>3. h \in GoToState
    BY <1>1 DEF GoToState
  <2>4. h.asked = FALSE /\ h.reverse = o.g.reverse /\ h.end = o.g.end /\ h.backing = o.g.backing
        /\ h.phase = o.g.phase
    BY <1>1 DEF GoToState
  <2>5. q \in PlannerState
    BY <1>1 DEF PlannerState
  <2>6. q.searching = o.p.searching /\ q.legs = o.p.legs /\ q.outcome = "none"
    BY <1>1 DEF PlannerState
  <2>7. [o EXCEPT !.g.asked = FALSE, !.p.outcome = "none"] = t
    <3>1. [o EXCEPT !.g.asked = FALSE] = y /\ y.p = o.p
      BY <1>1 DEF OutcomeState
    <3>2. [o EXCEPT !.g.asked = FALSE, !.p.outcome = "none"] = [y EXCEPT !.p.outcome = "none"]
      BY <1>1, <3>1 DEF OutcomeState
    <3> QED BY <3>1, <3>2
  <2> HIDE DEF h, q
  <2>8. y \in OutcomeState /\ y.g = h /\ y.step = o.step /\ y.thrown = o.thrown
    BY <1>1, <2>3, OutcomeFields
  <2> HIDE DEF y
  <2>9. t \in OutcomeState /\ t.g = h /\ t.p = q /\ t.step = o.step /\ t.thrown = o.thrown
    BY <2>5, <2>8, OutcomeFields
  <2>10. x \in IF o.p.outcome = "found" THEN BeginFollowing(v, t) ELSE {QueryEnds(t, o.p.outcome)}
    BY <1>3, <2>7 DEF Take
  <2> HIDE DEF t
  <2>11. Quiet(t.p) /\ PlannerOK(t.p) /\ GoToOK(t.g) /\ ~t.g.asked
    BY <1>1, <2>1, <2>2, <2>4, <2>5, <2>6, <2>9, QuietAgrees DEF GoToOK
  <2>12. Agrees(t.g, t.p)
    BY <2>5, <2>9, <2>11, QuietAgrees DEF Agrees
  <2>13. Good(t)
    BY <2>9, <2>11, <2>12 DEF Good
  <2> QED BY <2>9, <2>10, <2>11, <2>13, BeginFollowingGood, QueryEndsGood
<1> QED BY <1>2, <1>3

\* A step of a goTo that plans.
LEMMA StepPlanningGood ==
  ASSUME NEW o, Good(o), Running(o), o.g.phase = "planning", NEW v \in Vehicles, NEW x \in StepPlanning(v, o)
  PROVE  Good(x)
<1>1. CASE ~o.g.asked
  BY <1>1, AskGood DEF StepPlanning
<1>2. CASE o.g.asked /\ HasProgress(o)
  BY <1>2, OnProgressGood DEF StepPlanning
<1>3. CASE o.g.asked /\ ~HasProgress(o)
  BY <1>3, TakeGood DEF StepPlanning
<1> QED BY <1>1, <1>2, <1>3

\* A goTo that moves takes what is ready.
LEMMA PolledGood ==
  ASSUME NEW o, Good(o), Running(o), NEW v, NEW x \in Polled(v, o)
  PROVE  Good(x)
<1>1. CASE HasProgress(o)
  BY <1>1, OnProgressGood DEF Polled
<1>2. CASE ~HasProgress(o)
  BY <1>2 DEF Polled
<1> QED BY <1>1, <1>2

\* Only the phase of a goTo changes, or whether its path is stale.
LEMMA PhaseGood ==
  ASSUME NEW o, Good(o), NEW f \in {"following", "landing"}
  PROVE  Good([o EXCEPT !.g.phase = f]) /\ Good([o EXCEPT !.g.stale = FALSE])
<1> DEFINE h == [o.g EXCEPT !.phase = f]
           k == [o.g EXCEPT !.stale = FALSE]
           x == [o EXCEPT !.g = h]
           y == [o EXCEPT !.g = k]
<1>1. o \in OutcomeState /\ o.g \in GoToState /\ GoToOK(o.g) /\ Accepting(FALSE, o)
  BY OutcomeFields, GoodAccepts DEF Good
<1>2. [o EXCEPT !.g.phase = f] = x /\ [o EXCEPT !.g.stale = FALSE] = y
  OBVIOUS
<1>3. h \in GoToState /\ k \in GoToState
  BY <1>1 DEF GoToState
<1>4. /\ h.asked = o.g.asked /\ h.reverse = o.g.reverse /\ h.end = o.g.end /\ h.backing = o.g.backing
      /\ h.phase = f
      /\ k.asked = o.g.asked /\ k.reverse = o.g.reverse /\ k.end = o.g.end /\ k.backing = o.g.backing
      /\ k.phase = o.g.phase
  BY <1>1 DEF GoToState
<1> HIDE DEF h, k
<1>5. x \in OutcomeState /\ Same(x, o) /\ x.g = h /\ y \in OutcomeState /\ Same(y, o) /\ y.g = k
  BY <1>1, <1>3, <1>4, OutcomeFields DEF Same
<1>6. GoToOK(h) /\ GoToOK(k)
  BY <1>1, <1>4 DEF GoToOK
<1> HIDE DEF x, y
<1> QED BY <1>1, <1>2, <1>5, <1>6, SameAccepts, GoodAccepts

\* The end of the path.
LEMMA ArrivesGood ==
  ASSUME NEW o, Good(o), NEW v, NEW x \in Arrives(v, o)
  PROVE  Good(x)
<1>1. o \in OutcomeState /\ o.g \in GoToState /\ o.p \in PlannerState /\ GoToOK(o.g) /\ Agrees(o.g, o.p)
      /\ Accepting(FALSE, o)
  BY OutcomeFields, GoodAccepts DEF Good
<1>2. CASE x = PlanAgain(o) /\ o.g.backing
  <2>1. Quiet(o.p)
    BY <1>1, <1>2, QuietAgrees DEF GoToOK, Agrees
  <2> QED BY <1>1, <1>2, <2>1, PlanAgainGood
<1>3. CASE x = o
  BY <1>3
<1>4. CASE x = [o EXCEPT !.g.phase = "landing"]
  BY <1>4, PhaseGood
<1>5. CASE x \in {Fails(o, "landing_blocked"), [o EXCEPT !.step = "succeeded"]}
  <2>1. "landing_blocked" \in Codes /\ "succeeded" \in Codes
    BY DEF Codes
  <2>2. [o EXCEPT !.step = "succeeded"] = Fails(o, "succeeded")
    BY DEF Fails
  <2> QED BY <1>1, <1>5, <2>1, <2>2, FailsGood, GoodAccepts
<1> QED BY <1>2, <1>3, <1>4, <1>5 DEF Arrives

\* A metre of the way.
LEMMA MovesGood ==
  ASSUME NEW o, Good(o), NEW v, NEW x \in Moves(v, o)
  PROVE  Good(x)
<1>1. o \in OutcomeState /\ o.g \in GoToState /\ o.pos \in Int /\ o.g.end \in Int /\ Accepting(FALSE, o)
  BY OutcomeFields, GoodAccepts DEF Good, GoToState
<1>2. CASE x = [o EXCEPT !.pos = OneCloser(@, o.g.end)]
  <2> DEFINE n == OneCloser(o.pos, o.g.end)
             y == [o EXCEPT !.pos = n]
  <2>1. n \in Int
    BY <1>1 DEF OneCloser
  <2> HIDE DEF n
  <2>2. y \in OutcomeState
    BY <1>1, <2>1 DEF OutcomeState
  <2>3. y.g = o.g /\ y.p = o.p /\ y.step = o.step /\ y.thrown = o.thrown
    BY <1>1 DEF OutcomeState
  <2>4. x = y
    BY <1>2 DEF n
  <2> HIDE DEF y
  <2> QED BY <2>2, <2>3, <2>4 DEF Good
<1>3. CASE \E c \in {"reflex", "collision", "geofence", "kinematically_infeasible"} : x = Fails(o, c)
  <2>1. PICK c \in Codes : x = Fails(o, c)
    BY <1>3 DEF Codes
  <2> QED BY <1>1, <2>1, FailsGood, GoodAccepts
<1> QED BY <1>2, <1>3 DEF Moves

\* The path is not clear any more.
LEMMA ReplansGood ==
  ASSUME NEW o, Good(o), NEW x \in Replans(o)
  PROVE  Good(x)
<1>1. o \in OutcomeState /\ GoToOK(o.g) /\ Agrees(o.g, o.p)
  BY DEF Good
<1>2. Good(DropQuery(o)) /\ Quiet(DropQuery(o).p)
  BY <1>1, DropQueryGood
<1>3. DropQuery(o) \in OutcomeState
  BY <1>2 DEF Good
<1>4. Good(PlanAgain(DropQuery(o)))
  BY <1>2, <1>3, PlanAgainGood
<1> QED BY <1>4 DEF Replans

\* A step along the path.
LEMMA FollowGood ==
  ASSUME NEW o, Good(o), NEW v, NEW x \in Follow(v, o)
  PROVE  Good(x)
<1> DEFINE fresh == [o EXCEPT !.g.stale = FALSE]
<1>1. Good(fresh)
  BY PhaseGood
<1>2. x \in {o} \cup Arrives(v, o) \cup Replans(o) \cup Arrives(v, fresh) \cup Moves(v, fresh)
  BY DEF Follow
<1> HIDE DEF fresh
<1>3. CASE x = o
  BY <1>3
<1>4. CASE x \in Arrives(v, o)
  BY <1>4, ArrivesGood
<1>5. CASE x \in Replans(o)
  BY <1>5, ReplansGood
<1>6. CASE x \in Arrives(v, fresh)
  BY <1>1, <1>6, ArrivesGood
<1>7. CASE x \in Moves(v, fresh)
  BY <1>1, <1>7, MovesGood
<1> QED BY <1>2, <1>3, <1>4, <1>5, <1>6, <1>7

\* Whatever a goTo's step does, who waits has something to wait for after it.
LEMMA StepGoToGood ==
  ASSUME NEW o, Good(o), Running(o), NEW v \in Vehicles, NEW x \in StepGoTo(v, o)
  PROVE  Good(x)
<1>1. CASE o.g.phase = "planning"
  BY <1>1, StepPlanningGood DEF StepGoTo
<1>2. CASE o.g.phase = "climbing"
  <2>1. PICK y \in Polled(v, o) : x \in IF GoesOn(y) THEN Climb(y) ELSE {y}
    BY <1>2 DEF StepGoTo
  <2>2. Good(y)
    BY <2>1, PolledGood
  <2>3. x = y \/ x = [y EXCEPT !.g.phase = "following"]
    BY <2>1 DEF Climb
  <2> QED BY <2>2, <2>3, PhaseGood
<1>3. CASE o.g.phase = "landing"
  <2>1. x \in {[o EXCEPT !.step = "succeeded"], Fails(o, "collision")}
    BY <1>3 DEF StepGoTo, Land
  <2>2. "collision" \in Codes /\ "succeeded" \in Codes
    BY DEF Codes
  <2>3. [o EXCEPT !.step = "succeeded"] = Fails(o, "succeeded")
    BY DEF Fails
  <2>4. Accepting(FALSE, o)
    BY GoodAccepts
  <2> QED BY <2>1, <2>2, <2>3, <2>4, FailsGood, GoodAccepts
<1>4. CASE o.g.phase \notin {"planning", "climbing", "landing"}
  <2>1. PICK y \in Polled(v, o) : x \in IF GoesOn(y) THEN Follow(v, y) ELSE {y}
    BY <1>4 DEF StepGoTo
  <2>2. Good(y)
    BY <2>1, PolledGood
  <2> QED BY <2>1, <2>2, FollowGood
<1> QED BY <1>1, <1>2, <1>3, <1>4

(***************************************************************************)
(* Paths in reverse                                                        *)
(***************************************************************************)
\* A vehicle that never backs off with a lazy plan: it flies, or it only drives forward, or it
\* takes a plan as a whole.
Apt(v) == v \in Vehicles /\ ~(v.kind = "ugv" /\ v.reverse /\ v.lazy)

\* Such a vehicle has no path in reverse, or no legs to append to it.
Straight(v, o) == ~o.thrown /\ (v.lazy => ~o.g.reverse) /\ (~v.lazy => ~o.p.legs.on)

\* What a step leaves alone stays straight.
LEMMA StaysStraight ==
  ASSUME NEW v, NEW o, Straight(v, o), NEW x, x.thrown = o.thrown, x.g.reverse = o.g.reverse, x.p.legs = o.p.legs
  PROVE  Straight(v, x)
BY DEF Straight

\* A field of an outcome set, the others stay.
LEMMA OutcomeSet ==
  ASSUME NEW o \in OutcomeState, NEW y
  PROVE  /\ LET x == [o EXCEPT !.g = y] IN x.g = y /\ x.p = o.p /\ x.thrown = o.thrown
         /\ LET x == [o EXCEPT !.p = y] IN x.g = o.g /\ x.p = y /\ x.thrown = o.thrown
         /\ LET x == [o EXCEPT !.pos = y] IN x.g = o.g /\ x.p = o.p /\ x.thrown = o.thrown
         /\ LET x == [o EXCEPT !.step = y] IN x.g = o.g /\ x.p = o.p /\ x.thrown = o.thrown
         /\ LET x == Fails(o, y) IN x.g = o.g /\ x.p = o.p /\ x.thrown = o.thrown
         /\ LET x == Unreachable(o, y) IN x.g = o.g /\ x.p = o.p /\ x.thrown = o.thrown
<1>1. LET x == [o EXCEPT !.g = y] IN x.g = y /\ x.p = o.p /\ x.thrown = o.thrown
  BY DEF OutcomeState
<1>2. LET x == [o EXCEPT !.p = y] IN x.g = o.g /\ x.p = y /\ x.thrown = o.thrown
  BY DEF OutcomeState
<1>3. LET x == [o EXCEPT !.pos = y] IN x.g = o.g /\ x.p = o.p /\ x.thrown = o.thrown
  BY DEF OutcomeState
<1>4. LET x == [o EXCEPT !.step = y] IN x.g = o.g /\ x.p = o.p /\ x.thrown = o.thrown
  BY DEF OutcomeState
<1>5. LET x == Fails(o, y) IN x.g = o.g /\ x.p = o.p /\ x.thrown = o.thrown
  BY DEF OutcomeState, Fails
<1>6. LET x == Unreachable(o, y) IN x.g = o.g /\ x.p = o.p /\ x.thrown = o.thrown
  BY DEF OutcomeState, Fails, Unreachable
<1> QED BY <1>1, <1>2, <1>3, <1>4, <1>5, <1>6

\* A step that sets one field keeps it straight.
LEMMA FieldsStraight ==
  ASSUME NEW v, NEW o \in OutcomeState, Straight(v, o)
  PROVE  /\ \A c : Straight(v, Fails(o, c)) /\ Straight(v, Unreachable(o, c))
         /\ \A c : Straight(v, [o EXCEPT !.pos = c]) /\ Straight(v, [o EXCEPT !.step = c])
         /\ \A h : h.reverse = o.g.reverse => Straight(v, [o EXCEPT !.g = h])
<1>1. ASSUME NEW c PROVE Straight(v, Fails(o, c))
  <2> DEFINE x == Fails(o, c)
  <2>1. x.g = o.g /\ x.p = o.p /\ x.thrown = o.thrown
    BY OutcomeSet
  <2> HIDE DEF x
  <2>2. Straight(v, x)
    BY <2>1, StaysStraight
  <2> QED BY <2>2 DEF x
<1>2. ASSUME NEW c PROVE Straight(v, Unreachable(o, c))
  <2> DEFINE x == Unreachable(o, c)
  <2>1. x.g = o.g /\ x.p = o.p /\ x.thrown = o.thrown
    BY OutcomeSet
  <2> HIDE DEF x
  <2>2. Straight(v, x)
    BY <2>1, StaysStraight
  <2> QED BY <2>2 DEF x
<1>3. ASSUME NEW c PROVE Straight(v, [o EXCEPT !.pos = c])
  <2> DEFINE x == [o EXCEPT !.pos = c]
  <2>1. x.g = o.g /\ x.p = o.p /\ x.thrown = o.thrown
    BY OutcomeSet
  <2> HIDE DEF x
  <2>2. Straight(v, x)
    BY <2>1, StaysStraight
  <2> QED BY <2>2 DEF x
<1>4. ASSUME NEW c PROVE Straight(v, [o EXCEPT !.step = c])
  <2> DEFINE x == [o EXCEPT !.step = c]
  <2>1. x.g = o.g /\ x.p = o.p /\ x.thrown = o.thrown
    BY OutcomeSet
  <2> HIDE DEF x
  <2>2. Straight(v, x)
    BY <2>1, StaysStraight
  <2> QED BY <2>2 DEF x
<1>5. ASSUME NEW h, h.reverse = o.g.reverse PROVE Straight(v, [o EXCEPT !.g = h])
  <2> DEFINE x == [o EXCEPT !.g = h]
  <2>1. x.g = h /\ x.p = o.p /\ x.thrown = o.thrown
    BY OutcomeSet
  <2> HIDE DEF x
  <2>2. Straight(v, x)
    BY <1>5, <2>1, StaysStraight
  <2> QED BY <2>2 DEF x
<1> QED BY <1>1, <1>2, <1>3, <1>4, <1>5

\* A path to follow is a forward one.
LEMMA FollowsStraight ==
  ASSUME NEW v, NEW o \in OutcomeState, Straight(v, o), NEW end, NEW x \in Follows(v, o, end)
  PROVE  Straight(v, x)
<1>1. PICK f \in {"climbing", "following"} :
        x = [o EXCEPT !.g = [[o.g EXCEPT !.end = end, !.backing = FALSE, !.reverse = FALSE, !.stale = FALSE]
                               EXCEPT !.phase = f]]
  BY DEF Follows
<1> DEFINE h == [o.g EXCEPT !.end = end, !.backing = FALSE, !.reverse = FALSE, !.stale = FALSE]
           k == [h EXCEPT !.phase = f]
<1>2. k.reverse = FALSE
  BY OutcomeFields DEF GoToState
<1>3. x = [o EXCEPT !.g = k]
  BY <1>1
<1> HIDE DEF k
<1>4. x.g = k /\ x.p = o.p /\ x.thrown = o.thrown
  BY <1>3, OutcomeSet
<1> QED BY <1>2, <1>4 DEF Straight

\* A vehicle that can recover takes plans as a whole.
LEMMA RecoversStraight ==
  ASSUME NEW v, Apt(v), NEW o \in OutcomeState, Straight(v, o), CanRecover(v, o.g), NEW reverse, NEW x \in Recovers(o, reverse)
  PROVE  Straight(v, x)
<1>1. ~v.lazy
  BY DEF Apt, Vehicles, CanRecover
<1>2. PICK h : x = [o EXCEPT !.g = h]
  BY DEF Recovers
<1>3. x.p = o.p /\ x.thrown = o.thrown
  BY <1>2, OutcomeSet
<1> QED BY <1>1, <1>3 DEF Straight

\* A path fails the pre-drive check.
LEMMA CheckFailsStraight ==
  ASSUME NEW v, Apt(v), NEW o \in OutcomeState, Straight(v, o), NEW first, NEW x \in CheckFails(v, o, first)
  PROVE  Straight(v, x)
<1>1. CASE CanRecover(v, o.g) /\ x \in Recovers(o, TRUE)
  BY <1>1, RecoversStraight
<1>2. CASE x = Unreachable(o, "kinematically_infeasible")
  BY <1>2, OutcomeSet, StaysStraight
<1> QED BY <1>1, <1>2 DEF CheckFails

\* A query dropped, and planning again.
LEMMA DropQueryStraight ==
  ASSUME NEW v, NEW o \in OutcomeState, Straight(v, o)
  PROVE  Straight(v, DropQuery(o)) /\ Straight(v, PlanAgain(o))
<1> DEFINE q == Stopped(o.g, o.p)
           f == Forgotten(o.g)
           k == [f EXCEPT !.end = NoPath, !.backing = FALSE, !.phase = "planning"]
           y == [o EXCEPT !.p = q]
<1>1. o.g \in GoToState /\ o.p \in PlannerState
  BY OutcomeFields
<1>2. f.reverse = o.g.reverse /\ k.reverse = o.g.reverse
  <2>1. f \in GoToState /\ f.reverse = o.g.reverse
    BY <1>1 DEF Forgotten, GoToState
  <2> HIDE DEF f
  <2> QED BY <2>1 DEF GoToState
<1>3. q.legs.on => o.p.legs.on
  BY <1>1, LegsOff DEF Stopped, Disowned, Cancelled, PlannerState
<1>4. DropQuery(o) = [y EXCEPT !.g = f] /\ PlanAgain(o) = [o EXCEPT !.g = k]
  BY DEF DropQuery, PlanAgain, OutcomeState
<1>5. q \in PlannerState
  BY <1>1 DEF Stopped, Disowned, Cancelled, PlannerState
<1> HIDE DEF q, f, k
<1>6. y \in OutcomeState /\ y.g = o.g /\ y.p = q /\ y.thrown = o.thrown
  BY <1>5, OutcomeFields
<1> HIDE DEF y
<1>7. /\ DropQuery(o).g = f /\ DropQuery(o).p = q /\ DropQuery(o).thrown = o.thrown
      /\ PlanAgain(o).g = k /\ PlanAgain(o).p = o.p /\ PlanAgain(o).thrown = o.thrown
  BY <1>4, <1>6, OutcomeSet
<1> QED BY <1>2, <1>3, <1>7 DEF Straight

\* A whole path was found.
LEMMA BeginFollowingStraight ==
  ASSUME NEW v, Apt(v), NEW o \in OutcomeState, Straight(v, o), NEW x \in BeginFollowing(v, o)
  PROVE  Straight(v, x)
BY FollowsStraight, CheckFailsStraight DEF BeginFollowing

\* A leg is appended to a forward path.
LEMMA AppendedStraight ==
  ASSUME NEW v, v.lazy, NEW o \in OutcomeState, Straight(v, o), NEW leg
  PROVE  Straight(v, Appended(o, leg))
<1> DEFINE f == [o.g EXCEPT !.end = IF @ = NoPath THEN @ ELSE leg.end]
           h == [f EXCEPT !.pending = ~leg.last]
           y == [o EXCEPT !.g = f]
<1>1. h.reverse = o.g.reverse
  BY OutcomeFields DEF GoToState
<1>2. y.g = f
  BY OutcomeSet
<1>3. Appended(o, leg) = [y EXCEPT !.g = h]
  <2>1. Appended(o, leg) = [y EXCEPT !.g.pending = ~leg.last]
    BY DEF Appended, Straight
  <2> QED BY <1>2, <2>1
<1>4. Appended(o, leg) = [o EXCEPT !.g = h]
  BY <1>3 DEF OutcomeState
<1> HIDE DEF h
<1>5. Appended(o, leg).g = h /\ Appended(o, leg).p = o.p /\ Appended(o, leg).thrown = o.thrown
  BY <1>4, OutcomeSet
<1> QED BY <1>1, <1>5, StaysStraight

\* A leg begins the path, goes on with it, or fails the check.
LEMMA AcceptLegStraight ==
  ASSUME NEW v, Apt(v), v.lazy, NEW over \in BOOLEAN, NEW o, Accepting(over, o), Straight(v, o), NEW leg \in Leg,
         NEW x \in AcceptLeg(v, o, leg)
  PROVE  Straight(v, x)
<1>1. o \in OutcomeState /\ GoToOK(o.g)
  BY DEF Accepting
<1>2. CASE leg.first /\ x \in Follows(v, [o EXCEPT !.g.pending = ~leg.last], leg.end)
  <2> DEFINE h == [o.g EXCEPT !.pending = ~leg.last]
             y == [o EXCEPT !.g = h]
  <2>1. h \in GoToState /\ h.reverse = o.g.reverse
    <3>1. (~leg.last) \in BOOLEAN
      BY Zenon
    <3>2. o.g \in GoToState
      BY <1>1, OutcomeFields
    <3> QED BY <3>1, <3>2 DEF GoToState
  <2>2. x \in Follows(v, y, leg.end)
    BY <1>2
  <2> HIDE DEF h
  <2>3. y \in OutcomeState /\ y.g = h /\ y.p = o.p /\ y.thrown = o.thrown
    BY <1>1, <2>1, OutcomeFields
  <2> HIDE DEF y
  <2>4. Straight(v, y)
    BY <2>1, <2>3, StaysStraight
  <2> QED BY <2>2, <2>3, <2>4, FollowsStraight
<1>3. CASE ~leg.first /\ x = Appended(o, leg)
  BY <1>1, <1>3, AppendedStraight
<1>4. CASE x \in CheckFails(v, DropQuery(o), leg.first)
  <2>1. DropQuery(o) \in OutcomeState
    BY <1>1, DropQueryGood DEF Accepting, Good
  <2>2. Straight(v, DropQuery(o))
    BY <1>1, DropQueryStraight
  <2> QED BY <1>4, <2>1, <2>2, CheckFailsStraight
<1> QED BY <1>2, <1>3, <1>4 DEF AcceptLeg

\* ... and so do all of an answer.
LEMMA AcceptLegsStraight ==
  ASSUME NEW v, Apt(v), v.lazy, NEW over \in BOOLEAN, NEW o, Accepting(over, o), Straight(v, o), NEW legs \in Seq(Leg),
         NEW x \in AcceptLegs(v, o, legs)
  PROVE  Straight(v, x) /\ x \in OutcomeState
<1> DEFINE W == {y \in AllAccepting(over) : Straight(v, y)}
<1>1. \A y : y \in W <=> Accepting(over, y) /\ Straight(v, y)
  BY DEF AllAccepting, Accepting
<1>2. ASSUME NEW y \in W, NEW leg \in Leg PROVE AcceptLeg(v, y, leg) \subseteq W
  <2>1. Accepting(over, y) /\ Straight(v, y)
    BY <1>1
  <2> HIDE DEF W
  <2> QED BY <1>1, <2>1, AcceptLegGood, AcceptLegStraight
<1>3. o \in W
  BY <1>1
<1> HIDE DEF W
<1>4. AcceptLegs(v, o, legs) \subseteq W
  BY <1>2, <1>3, LegByLeg
<1> QED BY <1>1, <1>4 DEF Accepting

\* A query that is over.
LEMMA QueryEndsStraight ==
  ASSUME NEW v, NEW o \in OutcomeState, Straight(v, o), NEW status
  PROVE  Straight(v, QueryEnds(o, status))
<1> DEFINE h == Forgotten(o.g)
           y == [o EXCEPT !.g = h]
<1>1. h \in GoToState /\ h.reverse = o.g.reverse
  <2>1. o.g \in GoToState
    BY OutcomeFields
  <2> QED BY <2>1 DEF Forgotten, GoToState
<1>2. [o EXCEPT !.g = Forgotten(@)] = y
  OBVIOUS
<1> HIDE DEF h
<1>3. y \in OutcomeState /\ y.g = h /\ y.p = o.p /\ y.thrown = o.thrown
  BY <1>1, OutcomeFields
<1> HIDE DEF y
<1>4. QueryEnds(o, status) \in {o, y, Unreachable(y, "unreachable"), Fails(y, "planning_budget")}
  BY <1>2 DEF QueryEnds
<1>5. Straight(v, y)
  BY <1>1, <1>3, StaysStraight
<1>6. Straight(v, Unreachable(y, "unreachable")) /\ Straight(v, Fails(y, "planning_budget"))
  BY <1>3, <1>5, OutcomeSet, StaysStraight
<1> QED BY <1>4, <1>5, <1>6

\* A lazy query got further.
LEMMA OnProgressStraight ==
  ASSUME NEW v, Apt(v), NEW o, Good(o), Running(o), Straight(v, o), HasProgress(o), NEW x \in OnProgress(v, o)
  PROVE  Straight(v, x)
<1> DEFINE l == o.p.legs
           q == Taken(o.p)
           t == [o EXCEPT !.p = q]
<1>1. o \in OutcomeState /\ o.g \in GoToState /\ o.p \in PlannerState /\ l.on /\ v.lazy
      /\ GoToOK(o.g) /\ PlannerOK(o.p) /\ Agrees(o.g, o.p)
  BY OutcomeFields DEF Good, HasProgress, Straight, Apt, Vehicles
<1>2. /\ l \in LegsState /\ q \in PlannerState /\ PlannerOK(q)
      /\ IF l.done THEN Quiet(q) ELSE q.legs.on
  BY <1>1, TakenState
<1>3. l.ready \in Seq(Leg) /\ l.done \in BOOLEAN
  BY <1>2 DEF LegsState
<1>4. [o EXCEPT !.p = Taken(@)] = t
  OBVIOUS
<1>5. x \in IF l.status = "interrupted" THEN {PlanAgain(t)}
            ELSE {IF l.done THEN QueryEnds(y, l.status) ELSE y : y \in AcceptLegs(v, t, l.ready)}
  BY <1>4 DEF OnProgress
<1>6. o.g.asked
  BY DEF HasProgress
<1> HIDE DEF q
<1>7. t \in OutcomeState /\ t.g = o.g /\ t.p = q /\ t.step = o.step /\ t.thrown = o.thrown
  BY <1>1, <1>2, OutcomeFields
<1> HIDE DEF t, l
<1>8. Straight(v, t)
  BY <1>1, <1>7 DEF Straight
<1>9. Accepting(l.done, t)
  <2>1. Running(t)
    BY <1>7 DEF Running
  <2>2. ~l.done => Agrees(t.g, t.p)
    BY <1>2, <1>6, <1>7 DEF Agrees
  <2> QED BY <1>1, <1>2, <1>7, <2>1, <2>2 DEF Accepting
<1>10. ASSUME NEW y \in AcceptLegs(v, t, l.ready) PROVE Straight(v, y) /\ y \in OutcomeState
  BY <1>1, <1>3, <1>8, <1>9, AcceptLegsStraight
<1> QED BY <1>5, <1>7, <1>8, <1>10, DropQueryStraight, QueryEndsStraight

\* With no query.
LEMMA AskStraight ==
  ASSUME NEW v, Apt(v), NEW o \in OutcomeState, Straight(v, o), NEW x \in Ask(v, o)
  PROVE  Straight(v, x)
<1>1. CASE CanRecover(v, o.g) /\ x \in Recovers(o, FALSE) \cup Recovers(o, TRUE)
  BY <1>1, RecoversStraight
<1>2. CASE x \in {Fails(o, "kinematically_infeasible"), Fails(o, "unreachable")}
  BY <1>2, OutcomeSet, StaysStraight
<1>3. CASE x = [o EXCEPT !.g.asked = TRUE, !.g.stale = FALSE, !.p = Submitted(@, o.pos, o.g.goal, v.lazy)]
  <2> DEFINE h == [o.g EXCEPT !.asked = TRUE, !.stale = FALSE]
             q == Submitted(o.p, o.pos, o.g.goal, v.lazy)
  <2>1. h.reverse = o.g.reverse
    BY OutcomeFields DEF GoToState
  <2>2. ~v.lazy => ~q.legs.on
    BY OutcomeFields, LegsOff DEF Submitted, PlannerState
  <2>3. x = [o EXCEPT !.g = h, !.p = q]
    BY <1>3, OutcomeFields DEF OutcomeState
  <2> HIDE DEF h, q
  <2>4. x.g = h /\ x.p = q /\ x.thrown = o.thrown
    BY <2>3 DEF OutcomeState
  <2> QED BY <2>1, <2>2, <2>4 DEF Straight
<1> QED BY <1>1, <1>2, <1>3 DEF Ask

\* The outcome of a query, complete.
LEMMA TakeStraight ==
  ASSUME NEW v, Apt(v), NEW o \in OutcomeState, Straight(v, o), NEW x \in Take(v, o)
  PROVE  Straight(v, x)
<1> DEFINE h == [o.g EXCEPT !.asked = FALSE]
           q == [o.p EXCEPT !.outcome = "none"]
           y == [o EXCEPT !.g = h]
           t == [y EXCEPT !.p = q]
<1>1. /\ h \in GoToState /\ h.reverse = o.g.reverse
      /\ q \in PlannerState /\ q.legs = o.p.legs
  <2>1. o.g \in GoToState /\ o.p \in PlannerState
    BY OutcomeFields
  <2>2. h \in GoToState /\ h.reverse = o.g.reverse
    BY <2>1 DEF GoToState
  <2>3. q \in PlannerState /\ q.legs = o.p.legs
    BY <2>1 DEF PlannerState
  <2> QED BY <2>2, <2>3
<1>2. [o EXCEPT !.g.asked = FALSE, !.p.outcome = "none"] = t
  <2>1. [o EXCEPT !.g.asked = FALSE] = y /\ y.p = o.p
    BY DEF OutcomeState
  <2>2. [o EXCEPT !.g.asked = FALSE, !.p.outcome = "none"] = [y EXCEPT !.p.outcome = "none"]
    BY <2>1 DEF OutcomeState
  <2> QED BY <2>1, <2>2
<1> HIDE DEF h, q
<1>3. y \in OutcomeState /\ y.g = h /\ y.thrown = o.thrown
  BY <1>1, OutcomeFields
<1> HIDE DEF y
<1>4. t \in OutcomeState /\ t.g = h /\ t.p = q /\ t.thrown = o.thrown
  BY <1>1, <1>3, OutcomeFields
<1> HIDE DEF t
<1>5. Straight(v, t)
  BY <1>1, <1>4, StaysStraight
<1>6. x \in {o} \cup BeginFollowing(v, t) \cup {QueryEnds(t, o.p.outcome)}
  BY <1>2 DEF Take
<1> QED BY <1>4, <1>5, <1>6, BeginFollowingStraight, QueryEndsStraight

\* A goTo that moves takes what is ready, and one that plans asks or takes.
LEMMA PolledStraight ==
  ASSUME NEW v, Apt(v), NEW o, Good(o), Running(o), Straight(v, o), NEW x \in Polled(v, o) \cup StepPlanning(v, o)
  PROVE  Straight(v, x)
<1>1. o \in OutcomeState
  BY DEF Good
<1>2. CASE HasProgress(o)
  <2>1. x \in OnProgress(v, o) \cup Ask(v, o)
    BY <1>2 DEF Polled, StepPlanning
  <2> QED BY <1>1, <1>2, <2>1, OnProgressStraight, AskStraight
<1>3. CASE ~HasProgress(o)
  <2>1. x \in {o} \cup Ask(v, o) \cup Take(v, o)
    BY <1>3 DEF Polled, StepPlanning
  <2> QED BY <1>1, <2>1, AskStraight, TakeStraight
<1> QED BY <1>2, <1>3

\* The phase of a goTo, and whether its path is stale.
LEMMA PhaseStraight ==
  ASSUME NEW v, NEW o \in OutcomeState, Straight(v, o), NEW f
  PROVE  Straight(v, [o EXCEPT !.g.phase = f]) /\ Straight(v, [o EXCEPT !.g.stale = FALSE])
<1> DEFINE h == [o.g EXCEPT !.phase = f]
           k == [o.g EXCEPT !.stale = FALSE]
<1>1. h.reverse = o.g.reverse /\ k.reverse = o.g.reverse
  BY OutcomeFields DEF GoToState
<1>2. [o EXCEPT !.g.phase = f] = [o EXCEPT !.g = h] /\ [o EXCEPT !.g.stale = FALSE] = [o EXCEPT !.g = k]
  OBVIOUS
<1> HIDE DEF h, k
<1>3. Straight(v, [o EXCEPT !.g = h]) /\ Straight(v, [o EXCEPT !.g = k])
  BY <1>1, FieldsStraight
<1> QED BY <1>2, <1>3

\* The end of the path.
LEMMA ArrivesStraight ==
  ASSUME NEW v, NEW o \in OutcomeState, Straight(v, o), NEW x \in Arrives(v, o)
  PROVE  Straight(v, x)
<1>1. Straight(v, [o EXCEPT !.g.phase = "landing"])
  BY PhaseStraight
<1>2. Straight(v, Fails(o, "landing_blocked")) /\ Straight(v, [o EXCEPT !.step = "succeeded"])
  BY FieldsStraight
<1>3. Straight(v, PlanAgain(o))
  BY DropQueryStraight
<1>4. x \in {PlanAgain(o), o, [o EXCEPT !.g.phase = "landing"], Fails(o, "landing_blocked"),
             [o EXCEPT !.step = "succeeded"]}
  BY DEF Arrives
<1> QED BY <1>1, <1>2, <1>3, <1>4

\* A metre of the way.
LEMMA MovesStraight ==
  ASSUME NEW v, NEW o \in OutcomeState, Straight(v, o), NEW x \in Moves(v, o)
  PROVE  Straight(v, x)
<1>1. CASE x = [o EXCEPT !.pos = OneCloser(@, o.g.end)]
  <2>1. PICK n : x = [o EXCEPT !.pos = n]
    BY <1>1
  <2> QED BY <2>1, FieldsStraight
<1>2. CASE \E c : x = Fails(o, c)
  BY <1>2, FieldsStraight
<1> QED BY <1>1, <1>2 DEF Moves

\* A step along the path.
LEMMA FollowStraight ==
  ASSUME NEW v, NEW o, Good(o), Straight(v, o), NEW x \in Follow(v, o)
  PROVE  Straight(v, x)
<1> DEFINE fresh == [o EXCEPT !.g.stale = FALSE]
<1>1. o \in OutcomeState /\ GoToOK(o.g) /\ Agrees(o.g, o.p)
  BY DEF Good
<1>2. fresh \in OutcomeState /\ Straight(v, fresh)
  BY <1>1, PhaseGood, PhaseStraight DEF Good
<1>3. x \in {o} \cup Arrives(v, o) \cup Replans(o) \cup Arrives(v, fresh) \cup Moves(v, fresh)
  BY DEF Follow
<1> HIDE DEF fresh
<1>4. Straight(v, PlanAgain(DropQuery(o)))
  <2>1. DropQuery(o) \in OutcomeState
    BY <1>1, DropQueryGood DEF Good
  <2> QED BY <1>1, <2>1, DropQueryStraight
<1> QED BY <1>1, <1>2, <1>3, <1>4, ArrivesStraight, MovesStraight DEF Replans

\* Whatever a goTo's step does, such a vehicle grows no path in reverse.
LEMMA StepGoToStraight ==
  ASSUME NEW v, Apt(v), NEW o, Good(o), Running(o), Straight(v, o), NEW x \in StepGoTo(v, o)
  PROVE  Straight(v, x)
<1>1. o \in OutcomeState
  BY DEF Good
<1>2. CASE o.g.phase = "planning"
  BY <1>2, PolledStraight DEF StepGoTo
<1>3. CASE o.g.phase = "landing"
  <2>1. x \in {[o EXCEPT !.step = "succeeded"], Fails(o, "collision")}
    BY <1>3 DEF StepGoTo, Land
  <2>2. Straight(v, Fails(o, "collision")) /\ Straight(v, [o EXCEPT !.step = "succeeded"])
    BY <1>1, FieldsStraight
  <2> QED BY <2>1, <2>2
<1>4. CASE o.g.phase \notin {"planning", "landing"}
  <2>1. PICK y \in Polled(v, o) : x \in {y} \cup Climb(y) \cup Follow(v, y)
    BY <1>4 DEF StepGoTo
  <2>2. Good(y) /\ Straight(v, y) /\ y \in OutcomeState
    BY <2>1, PolledGood, PolledStraight DEF Good
  <2>3. Straight(v, [y EXCEPT !.g.phase = "following"])
    BY <2>2, PhaseStraight
  <2> QED BY <2>1, <2>2, <2>3, FollowStraight DEF Climb
<1> QED BY <1>2, <1>3, <1>4

\* What a stopped query leaves has no legs that were not there.
LEMMA StoppedLegs ==
  ASSUME NEW G, NEW P \in PlannerState, ~P.legs.on
  PROVE  ~Stopped(G, P).legs.on
BY LegsOff DEF Stopped, Disowned, Cancelled, PlannerState

(***************************************************************************)
(* The planning phase                                                      *)
(***************************************************************************)
Awaited(P) == P.searching \/ P.legs.on \/ P.outcome # "none"
GoodPlanner(P) == P \in PlannerState /\ PlannerOK(P)

\* A query under way gets legs.
LEMMA LegRunsAreCells ==
  ASSUME NEW P \in PlannerState, P.legs.on, NEW s \in LegRuns(P)
  PROVE  s \in Seq(Int) /\ s # <<>>
<1> DEFINE ends == LegEnds(P.legs.reach, P.to)
<1>1. P.to \in Int
  BY DEF PlannerState
<1>2. ends \subseteq Int /\ \A e : LegEnds(e, P.to) \subseteq Int
  BY <1>1, CellsAreNumbers DEF LegEnds
<1>3. (\E e \in ends : s = <<e>>) \/ (\E e \in ends : \E h \in LegEnds(e, P.to) : s = <<e, h>>)
  <2>1. s \in {<<e>> : e \in ends} \cup UNION {{<<e, h>> : h \in LegEnds(e, P.to)} : e \in ends \ {P.to}}
    BY Zenon DEF LegRuns
  <2> HIDE DEF ends
  <2>2. CASE s \in {<<e>> : e \in ends}
    BY <2>2
  <2>3. CASE s \in UNION {{<<e, h>> : h \in LegEnds(e, P.to)} : e \in ends \ {P.to}}
    BY <2>3, Zenon
  <2> QED BY <2>1, <2>2, <2>3
<1> HIDE DEF ends
<1>4. ASSUME NEW e \in Int PROVE <<e>> \in Seq(Int) /\ <<e>> # <<>>
  BY <1>4
<1>5. ASSUME NEW e \in Int, NEW h \in Int PROVE <<e, h>> \in Seq(Int) /\ <<e, h>> # <<>>
  BY <1>5
<1>6. (\E e \in Int : s = <<e>>) \/ (\E e, h \in Int : s = <<e, h>>)
  BY <1>2, <1>3, Zenon
<1> QED BY <1>4, <1>5, <1>6, Zenon

\* Legs are added to those that wait.
LEMMA WithLegsGood ==
  ASSUME NEW P, GoodPlanner(P), P.searching, P.legs.on, NEW s \in LegRuns(P)
  PROVE  GoodPlanner(WithLegs(P, s)) /\ WithLegs(P, s).searching /\ WithLegs(P, s).legs.on
<1> DEFINE new == [i \in DOMAIN s |-> [first |-> i = 1 /\ ~P.legs.produced, end |-> s[i], last |-> s[i] = P.to]]
           r == P.legs.ready \o new
           l == [P.legs EXCEPT !.reach = Last(s), !.produced = TRUE, !.ready = r]
           q == [P EXCEPT !.age = 0, !.legs = l]
<1>1. P \in PlannerState /\ PlannerOK(P) /\ P.legs \in LegsState
  BY LegsOff DEF GoodPlanner, PlannerState
<1>2. s \in Seq(Int) /\ s # <<>>
  BY <1>1, LegRunsAreCells
<1>3. new \in Seq(Leg)
  <2>1. DOMAIN s = 1..Len(s) /\ Len(s) \in Nat /\ \A i \in 1..Len(s) : s[i] \in Int
    BY <1>2
  <2>2. ASSUME NEW i \in 1..Len(s)
        PROVE  [first |-> i = 1 /\ ~P.legs.produced, end |-> s[i], last |-> s[i] = P.to] \in Leg
    <3>1. (i = 1 /\ ~P.legs.produced) \in BOOLEAN
      BY Zenon
    <3>2. (s[i] = P.to) \in BOOLEAN
      BY Zenon
    <3>3. s[i] \in Int
      BY <2>1
    <3> QED BY <3>1, <3>2, <3>3 DEF Leg
  <2>3. new \in [1..Len(s) -> Leg]
    BY <2>1, <2>2
  <2> QED BY <2>1, <2>3
<1>4. P.legs.ready \in Seq(Leg)
  BY <1>1 DEF LegsState
<1> HIDE DEF new
<1>5. r \in Seq(Leg)
  BY <1>3, <1>4
<1>6. Last(s) \in Int
  BY <1>2 DEF Last
<1>7. WithLegs(P, s) = q
  <2>1. [P EXCEPT !.age = 0, !.legs.reach = Last(s), !.legs.produced = TRUE, !.legs.ready = @ \o new] = q
    BY <1>1 DEF PlannerState, LegsState
  <2> QED BY <2>1 DEF WithLegs, new
<1> HIDE DEF r
<1>8. l \in LegsState
  BY <1>1, <1>5, <1>6 DEF LegsState
<1>9. l.on = P.legs.on /\ l.done = P.legs.done /\ l.status = P.legs.status
  BY <1>1 DEF LegsState
<1> HIDE DEF l
<1>10. q \in PlannerState
  BY <1>1, <1>8 DEF PlannerState
<1>11. q.searching = P.searching /\ q.legs = l /\ q.outcome = P.outcome
  BY <1>1 DEF PlannerState
<1> HIDE DEF q
<1>12. PlannerOK(q)
  BY <1>1, <1>9, <1>11 DEF PlannerOK
<1> QED BY <1>7, <1>9, <1>10, <1>11, <1>12 DEF GoodPlanner

\* It ends.
LEMMA AnsweredGood ==
  ASSUME NEW P, GoodPlanner(P), NEW status \in Answers
  PROVE  GoodPlanner(Answered(P, status)) /\ Awaited(Answered(P, status))
<1> DEFINE l == IF P.legs.on THEN [P.legs EXCEPT !.done = TRUE, !.status = status] ELSE P.legs
           q == [P EXCEPT !.searching = FALSE, !.outcome = status, !.legs = l]
<1>1. P \in PlannerState /\ P.legs \in {NoLegs} \cup LegsState /\ (P.legs.on => P.legs \in LegsState)
  BY LegsOff DEF GoodPlanner, PlannerState
<1>2. status # "none" /\ status \in Answers \cup {"none"} /\ status \in Answers \cup {"none", "interrupted"}
  BY DEF Answers, Failures
<1>3. l \in {NoLegs} \cup LegsState
  BY <1>1, <1>2 DEF LegsState
<1>4. l.on => l.done = TRUE /\ l.status = status
  BY <1>1 DEF LegsState
<1>5. Answered(P, status) = q
  BY DEF Answered
<1> HIDE DEF l
<1>6. q \in PlannerState
  BY <1>1, <1>2, <1>3 DEF PlannerState
<1>7. q.searching = FALSE /\ q.legs = l /\ q.outcome = status
  BY <1>1 DEF PlannerState
<1> HIDE DEF q
<1>8. PlannerOK(q) /\ Awaited(q)
  BY <1>2, <1>4, <1>7 DEF PlannerOK, Awaited
<1> QED BY <1>5, <1>6, <1>8 DEF GoodPlanner

\* A change of the map makes it start again, or ends it.
LEMMA RestartedGood ==
  ASSUME NEW P, GoodPlanner(P), P.searching
  PROVE  GoodPlanner(Restarted(P)) /\ Awaited(Restarted(P))
<1>1. P \in PlannerState /\ PlannerOK(P) /\ P.legs \in {NoLegs} \cup LegsState
  BY DEF GoodPlanner, PlannerState
<1>2. CASE ~P.legs.on \/ ~P.legs.produced
  <2> DEFINE q == [P EXCEPT !.age = 0]
  <2>1. Restarted(P) = q
    BY <1>2 DEF Restarted
  <2>2. q \in PlannerState
    BY <1>1 DEF PlannerState
  <2>3. q.searching = P.searching /\ q.legs = P.legs /\ q.outcome = P.outcome
    BY <1>1 DEF PlannerState
  <2> HIDE DEF q
  <2> QED BY <1>1, <2>1, <2>2, <2>3 DEF GoodPlanner, PlannerOK, Awaited
<1>3. CASE P.legs.on /\ P.legs.produced
  <2> DEFINE l == [P.legs EXCEPT !.ready = <<>>, !.done = TRUE, !.status = "interrupted"]
             q == [P EXCEPT !.searching = FALSE, !.legs = l]
  <2>1. Restarted(P) = q
    BY <1>3 DEF Restarted
  <2>2. P.legs \in LegsState /\ <<>> \in Seq(Leg)
    BY <1>1, <1>3, LegsOff
  <2>3. l \in LegsState
    BY <2>2 DEF LegsState
  <2>4. l.on = P.legs.on /\ l.done = TRUE /\ l.status = "interrupted"
    BY <2>2 DEF LegsState
  <2> HIDE DEF l
  <2>5. q \in PlannerState
    BY <1>1, <2>3 DEF PlannerState
  <2>6. q.searching = FALSE /\ q.legs = l /\ q.outcome = P.outcome
    BY <1>1 DEF PlannerState
  <2> HIDE DEF q
  <2>7. PlannerOK(q) /\ Awaited(q)
    BY <1>1, <1>3, <2>4, <2>6 DEF PlannerOK, Awaited
  <2> QED BY <2>1, <2>5, <2>7 DEF GoodPlanner
<1> QED BY <1>2, <1>3

\* It waits, or the map changes under it.
LEMMA WaitsGood ==
  ASSUME NEW P, GoodPlanner(P)
  PROVE  /\ \A q \in Waits(P) : GoodPlanner(q) /\ q.searching = P.searching
         /\ \A c \in BOOLEAN : LET q == [P EXCEPT !.changed = c] IN
              GoodPlanner(q) /\ q.searching = P.searching /\ q.legs = P.legs /\ q.outcome = P.outcome
<1>1. P \in PlannerState /\ PlannerOK(P)
  BY DEF GoodPlanner
<1>2. ASSUME NEW q \in Waits(P) PROVE GoodPlanner(q) /\ q.searching = P.searching
  <2> DEFINE n == P.age + 1
  <2>1. n \in Nat /\ q = [P EXCEPT !.age = n]
    BY <1>1 DEF Waits, PlannerState
  <2> HIDE DEF n
  <2>2. q \in PlannerState
    BY <1>1, <2>1 DEF PlannerState
  <2>3. q.searching = P.searching /\ q.legs = P.legs /\ q.outcome = P.outcome
    BY <1>1, <2>1 DEF PlannerState
  <2> QED BY <1>1, <2>2, <2>3 DEF GoodPlanner, PlannerOK
<1>3. ASSUME NEW c \in BOOLEAN, NEW q, q = [P EXCEPT !.changed = c]
      PROVE  GoodPlanner(q) /\ q.searching = P.searching /\ q.legs = P.legs /\ q.outcome = P.outcome
  <2>2. q \in PlannerState
    BY <1>1, <1>3 DEF PlannerState
  <2>3. q.searching = P.searching /\ q.legs = P.legs /\ q.outcome = P.outcome
    BY <1>1, <1>3 DEF PlannerState
  <2> QED BY <1>1, <2>2, <2>3 DEF GoodPlanner, PlannerOK
<1> HIDE DEF GoodPlanner
<1>4. ASSUME NEW c \in BOOLEAN PROVE LET q == [P EXCEPT !.changed = c] IN
        GoodPlanner(q) /\ q.searching = P.searching /\ q.legs = P.legs /\ q.outcome = P.outcome
  BY <1>3
<1> QED BY <1>2, <1>4

\* The search itself, in a tick.
LEMMA SearchedGood ==
  ASSUME NEW P, GoodPlanner(P), P.searching, NEW q \in Searched(P)
  PROVE  GoodPlanner(q) /\ Awaited(q)
<1> DEFINE runs == IF P.legs.on THEN {WithLegs(P, s) : s \in LegRuns(P)} ELSE {}
           some == {P} \cup runs
<1>1. ASSUME NEW r \in some PROVE GoodPlanner(r) /\ r.searching
  BY WithLegsGood
<1>2. \/ q \in Waits(P) \/ q \in runs
      \/ \E r \in some : q \in {Answered(r, status) : status \in Answers}
  BY DEF Searched, Answers, Failures
<1> HIDE DEF runs, some
<1>3. CASE q \in Waits(P)
  BY <1>3, WaitsGood DEF Awaited
<1>4. CASE q \in runs
  BY <1>1, <1>4 DEF some, Awaited
<1>5. CASE \E r \in some : q \in {Answered(r, status) : status \in Answers}
  BY <1>1, <1>5, AnsweredGood
<1> QED BY <1>2, <1>3, <1>4, <1>5

\* The planning phase keeps the planner, and who is awaited.
LEMMA AdvancedGood ==
  ASSUME NEW P, GoodPlanner(P), NEW q \in Advanced(P)
  PROVE  GoodPlanner(q) /\ (Awaited(q) <=> Awaited(P))
<1> DEFINE c == [P EXCEPT !.changed = FALSE]
<1>1. GoodPlanner(c) /\ c.searching = P.searching
  BY WaitsGood
<1>2. CASE ~P.searching
  BY <1>2 DEF Advanced
<1>3. CASE P.searching
  <2>1. q \in Searched(c) \/ q = Restarted(c)
    BY <1>3 DEF Advanced
  <2> HIDE DEF c
  <2>2. GoodPlanner(q) /\ Awaited(q)
    BY <1>1, <1>3, <2>1, SearchedGood, RestartedGood
  <2> QED BY <1>3, <2>2 DEF Awaited
<1> QED BY <1>2, <1>3

\* A query that is answered as a whole gets no legs.
LEMMA AdvancedLegs ==
  ASSUME NEW P \in PlannerState, ~P.legs.on, NEW q \in Advanced(P)
  PROVE  ~q.legs.on
<1> DEFINE c == [P EXCEPT !.changed = FALSE]
<1>1. c \in PlannerState /\ c.legs = P.legs
  BY DEF PlannerState
<1>2. q \in {P, Restarted(c)} \cup Searched(c)
  BY DEF Advanced
<1> HIDE DEF c
<1>3. ~c.legs.on
  BY <1>1
<1>4. Restarted(c).legs = c.legs /\ \A n : [c EXCEPT !.age = n].legs = c.legs
  BY <1>1, <1>3 DEF Restarted, PlannerState
<1>5. \A s : Answered(c, s).legs = c.legs
  BY <1>1, <1>3 DEF Answered, PlannerState
<1>6. ASSUME NEW x \in Searched(c) PROVE x.legs = c.legs
  <2>1. x \in Waits(c) \cup {Answered(c, s) : s \in Failures \cup {"found"}}
    BY <1>3 DEF Searched
  <2>2. ASSUME x \in Waits(c) PROVE \E n : x = [c EXCEPT !.age = n]
    BY <2>2 DEF Waits
  <2> QED BY <1>4, <1>5, <2>1, <2>2
<1> QED BY <1>2, <1>3, <1>4, <1>6

(***************************************************************************)
(* What explore and its tick are                                           *)
(***************************************************************************)
Modes == {"iterate", "travel"}
ExState ==
  [scope : Int, strategy : {"nearest", "largest"}, iteration : {NoIteration} \cup [on : {TRUE}, centre : Int],
   target : {NoTarget} \cup [cells : SUBSET Cells, point : Int], mode : Modes, origin : Int,
   window : Int \X Int, waited : Nat, failures : [Cells -> [centres : SUBSET Int, travels : Nat]]]
Endings == {"no", "no_map_data", "reflex"} \cup Successes \cup (Codes \ {"running"})
Behaviors ==
  [ex : {NoExplore} \cup ExState, g : {NoGoTo} \cup GoToState, marks : SUBSET Cells, temporary : SUBSET Cells,
   ended : Endings]

Reaching(o, q, m) == <<Lowest({o, q}) - m, Highest({o, q}) + m>>

\* The search for a target: it did not fail from its centre, or its window has grown with
\* the travels that failed.
Pending(x) ==
  /\ x \in ExState /\ x.target.point \in x.target.cells
  /\ x.mode = "iterate" => x.origin \notin CentresOf(x, x.target.cells)
  /\ x.mode = "travel" => x.window = Reaching(x.origin, x.target.point, Grown[TravelsOf(x, x.target.cells)])

\* What failed is remembered of its group.
Remembers(x, searches) ==
  \A t \in searches :
    /\ t.point \in Cells /\ t.origin \in Int /\ t.mode \in Modes
    /\ t.mode = "iterate" => t.origin \in x.failures[t.point].centres
    /\ t.mode = "travel" => \E k \in Nat : k < x.failures[t.point].travels
                                            /\ t.window = Reaching(t.origin, t.point, Grown[k])

GoToIs(G, P) == /\ G = NoGoTo \/ (G \in GoToState /\ GoToOK(G))
                /\ GoodPlanner(P) /\ Agrees(G, P)

\* Not in reverse with a plan that comes leg by leg.
Tame(G, P) ==
  IF setting.vehicle.lazy THEN G = NoGoTo \/ ~G.reverse ELSE ~P.legs.on

TypeOK ==
  /\ setting \in Settings /\ pos \in Int /\ phase \in {"plan", "act", "sense"}
  /\ frontier \subseteq Cells /\ hidden \subseteq Cells /\ blocked \subseteq Cells
  /\ marks \subseteq Cells /\ temporary \subseteq Cells
  /\ action \in {"none", "goTo", "explore"} /\ result \in {"none", "interrupted"} \cup Endings
  /\ thrown \in BOOLEAN /\ actions \in Nat /\ changes \in Nat

\* Which action runs says what there is of it.
OfAction ==
  /\ action # "explore" => temporary = {} /\ ex = NoExplore
  /\ action = "none" => g = NoGoTo
  /\ action = "goTo" => g \in GoToState
  /\ action = "explore" => ex \in ExState /\ Remembers(ex, FailedSearches) /\ (g # NoGoTo => Pending(ex))

ExploreInv == TypeOK /\ GoToIs(g, p) /\ OfAction

(***************************************************************************)
(* Cells, groups and windows                                               *)
(***************************************************************************)
LEMMA LowestCell ==
  ASSUME NEW S, S \subseteq Nat, S # {}
  PROVE  Lowest(S) \in S /\ \A c \in S : Lowest(S) <= c
BY LeastNumber DEF Lowest

\* A set of numbers with a bound has a greatest one.
LEMMA HighestOf ==
  ASSUME NEW S, S \subseteq Nat, S # {}, NEW b \in Nat, \A c \in S : c <= b
  PROVE  Highest(S) \in S /\ \A c \in S : c <= Highest(S)
<1> DEFINE D == {b - c : c \in S}
<1>1. D \subseteq Nat /\ D # {}
  <2>1. \A c \in S : b - c \in Nat
    OBVIOUS
  <2> QED BY <2>1
<1>2. PICK d \in D : \A y \in D : d <= y
  BY <1>1, LeastNumber
<1>3. PICK c \in S : d = b - c
  BY <1>2
<1>4. \A y \in S : y <= c
  <2> TAKE y \in S
  <2>1. d <= b - y
    BY <1>2
  <2> QED BY <1>3, <2>1
<1>5. c \in S /\ \A y \in S : c >= y
  BY <1>3, <1>4
<1> HIDE DEF D
<1> QED BY <1>5 DEF Highest

\* Of two cells, wherever the vehicle has got to.
LEMMA OfTwo ==
  ASSUME NEW x \in Int, NEW y \in Int
  PROVE  Lowest({x, y}) \in Int /\ Highest({x, y}) \in Int
<1>1. \E c \in {x, y} : \A d \in {x, y} : c <= d
  OBVIOUS
<1>2. \E c \in {x, y} : \A d \in {x, y} : c >= d
  OBVIOUS
<1> QED BY <1>1, <1>2 DEF Lowest, Highest

\* The cells are the numbers up to the last.
LEMMA CellsAreNat ==
  /\ Cells \subseteq Nat /\ Cardinality(Cells) \in Nat \ {0}
  /\ \A c \in Cells : c <= Cardinality(Cells)
  /\ \A c, d \in Cells, n \in Nat : c <= n /\ n <= d => n \in Cells
BY GoToAssumption, FS_CardinalityType

\* A number for each cell has a bound.
LEMMA Bounded ==
  ASSUME NEW f \in [Cells -> Nat]
  PROVE  \E b \in Nat : \A c \in Cells : f[c] <= b
<1> DEFINE n == Cardinality(Cells)
           T == {i \in 0..n : \E b \in Nat : \A c \in Cells : c < i => f[c] <= b}
<1>1. n \in Nat /\ Cells = 0..(n - 1)
  BY CellsAreNat, GoToAssumption
<1>2. 0 \in T
  BY <1>1
<1>3. ASSUME NEW i \in 0..n, i \in T, i < n PROVE i + 1 \in T
  <2>1. PICK b \in Nat : \A c \in Cells : c < i => f[c] <= b
    BY <1>3
  <2>2. i \in Cells /\ f[i] \in Nat
    BY <1>1, <1>3
  <2>3. b + f[i] \in Nat /\ \A c \in Cells : c < i + 1 => f[c] <= b + f[i]
    <3>1. b + f[i] \in Nat
      BY <2>2
    <3>2. ASSUME NEW c \in Cells, c < i + 1 PROVE f[c] <= b + f[i]
      <4>1. c < i \/ c = i
        BY <1>1, <3>2
      <4>2. f[c] \in Nat
        OBVIOUS
      <4> QED BY <2>1, <2>2, <4>1, <4>2
    <3> QED BY <3>1, <3>2
  <2>4. i + 1 \in 0..n
    BY <1>1, <1>3
  <2> QED BY <2>3, <2>4
<1> HIDE DEF n
<1>4. 0..n \subseteq T
  <2> HIDE DEF T
  <2> QED BY <1>1, <1>2, <1>3, AllIndices
<1>5. n \in T
  <2>1. n \in 0..n
    BY <1>1
  <2> QED BY <1>4, <2>1, Zenon
<1>6. PICK b \in Nat : \A c \in Cells : c < n => f[c] <= b
  BY <1>5
<1> QED BY <1>1, <1>6

\* What is remembered of a group covers what is remembered of its cells.
LEMMA OfGroup ==
  ASSUME NEW x \in ExState, NEW grp \in SUBSET Cells, NEW c \in grp
  PROVE  /\ x.failures[c].centres \subseteq CentresOf(x, grp)
         /\ CentresOf(x, grp) \subseteq Int
         /\ TravelsOf(x, grp) \in Nat /\ x.failures[c].travels <= TravelsOf(x, grp)
<1>1. \A d \in grp : x.failures[d].centres \subseteq Int /\ x.failures[d].travels \in Nat
  BY DEF ExState
<1>2. x.failures[c].centres \subseteq CentresOf(x, grp) /\ CentresOf(x, grp) \subseteq Int
  BY <1>1 DEF CentresOf
<1> DEFINE f == [d \in Cells |-> x.failures[d].travels]
           S == {x.failures[d].travels : d \in grp}
<1>3. f \in [Cells -> Nat]
  BY DEF ExState
<1>4. PICK b \in Nat : \A d \in Cells : f[d] <= b
  <2> HIDE DEF f
  <2> QED BY <1>3, Bounded
<1>5. S \subseteq Nat /\ S # {} /\ \A y \in S : y <= b
  BY <1>1, <1>4
<1>6. Highest(S) \in S /\ \A y \in S : y <= Highest(S)
  <2> HIDE DEF S
  <2> QED BY <1>5, HighestOf
<1>7. TravelsOf(x, grp) = Highest(S)
  BY DEF TravelsOf
<1> QED BY <1>2, <1>5, <1>6, <1>7

\* A group is not empty, and its point is one of its cells.
LEMMA GroupPoint ==
  ASSUME frontier \subseteq Cells, NEW grp \in Groups
  PROVE  /\ grp \subseteq Cells /\ grp # {} /\ Point(grp) \in grp
<1>1. PICK c \in frontier : grp = GroupAt(c)
  BY DEF Groups
<1>2. Cells \subseteq Nat /\ c \in Cells
  BY <1>1, CellsAreNat
<1>3. grp \subseteq Cells
  BY <1>1 DEF GroupAt
<1>4. c \in grp
  <2>1. \A e \in Cells : Distance(c, e) + Distance(e, c) = Distance(c, c) => e = c
    BY <1>2 DEF Distance
  <2> QED BY <1>1, <2>1 DEF GroupAt
<1> DEFINE lo == Lowest(grp)
           hi == Highest(grp)
           m == (lo + hi) \div 2
<1>5. lo \in grp /\ hi \in grp /\ lo \in Nat /\ hi \in Nat /\ lo <= c /\ c <= hi
  <2>1. grp \subseteq Nat /\ grp # {} /\ \A d \in grp : d <= Cardinality(Cells)
    BY <1>2, <1>3, <1>4, CellsAreNat
  <2>2. lo \in grp /\ \A d \in grp : lo <= d
    BY <2>1, LowestCell
  <2>3. hi \in grp /\ \A d \in grp : d <= hi
    BY <2>1, HighestOf, CellsAreNat
  <2> QED BY <1>4, <2>1, <2>2, <2>3
<1> HIDE DEF lo, hi
<1>6. m \in Nat /\ lo <= m /\ m <= hi
  <2>1. lo <= hi /\ lo \in Nat /\ hi \in Nat
    BY <1>2, <1>5
  <2>2. \A a, d \in Nat : a <= d => (a + d) \div 2 \in Nat /\ a <= (a + d) \div 2 /\ (a + d) \div 2 <= d
    OBVIOUS
  <2> QED BY <2>1, <2>2
<1>7. m \in Cells
  BY <1>3, <1>5, <1>6, CellsAreNat
<1> HIDE DEF m
<1>8. m \in GroupAt(c)
  \* Between the point and c lie only cells between c and an end.
  <2> DEFINE between(d, e) == Distance(c, e) + Distance(e, d) = Distance(c, d)
  <2>1. /\ \A e \in Cells : between(lo, e) => e \in frontier /\ RegionOf(e) = RegionOf(c)
        /\ \A e \in Cells : between(hi, e) => e \in frontier /\ RegionOf(e) = RegionOf(c)
    BY <1>1, <1>5 DEF GroupAt
  <2>2. ASSUME NEW e \in Cells, between(m, e) PROVE between(lo, e) \/ between(hi, e)
    BY <1>2, <1>5, <1>6, <2>2 DEF Distance
  <2>3. between(m, m)
    BY <1>2, <1>6 DEF Distance
  <2>4. m \in frontier
    BY <1>7, <2>1, <2>2, <2>3
  <2> QED BY <2>1, <2>2, <2>4 DEF GroupAt
<1> QED BY <1>1, <1>3, <1>4, <1>8 DEF Point, m, lo, hi

\* The margin of the window grows with every travel that failed.
LEMMA GrownIsSolved == Grown = [n \in Nat |-> IF n = 0 THEN Margin ELSE Growth * Grown[n - 1]]
<1> DEFINE Step(v) == Growth * v
           Upto(f, m) == f \in [0..m -> Nat] /\ \A i \in 0..m : f[i] = IF i = 0 THEN Margin ELSE Growth * f[i - 1]
           T == {m \in Nat : \E f : Upto(f, m)}
<1>0. Margin \in Nat /\ Growth \in Nat /\ \A v \in Nat : Growth * v \in Nat
  BY ExploreAssumption DEF Growth
<1>1. 0 \in T
  <2> DEFINE f == [i \in 0..0 |-> Margin]
  <2>1. Upto(f, 0)
    BY <1>0
  <2> QED BY <2>1
<1>2. ASSUME NEW m \in Nat, m \in T PROVE m + 1 \in T
  <2>1. PICK f : Upto(f, m)
    BY <1>2
  <2> DEFINE h == [i \in 0..(m + 1) |-> IF i = m + 1 THEN Growth * f[m] ELSE f[i]]
  <2>2. f[m] \in Nat /\ Growth * f[m] \in Nat
    BY <1>0, <2>1
  <2>3. h \in [0..(m + 1) -> Nat]
    BY <2>1, <2>2
  <2>4. ASSUME NEW i \in 0..(m + 1) PROVE h[i] = IF i = 0 THEN Margin ELSE Growth * h[i - 1]
    <3>1. CASE i = m + 1
      BY <3>1
    <3>2. CASE i \in 0..m
      BY <2>1, <3>2
    <3> QED BY <3>1, <3>2
  <2>5. Upto(h, m + 1)
    BY <2>3, <2>4
  <2> HIDE DEF Upto, h
  <2> QED BY <2>5
<1>3. \A m \in Nat : \E f : Upto(f, m)
  <2>1. Nat \subseteq T
    <3> HIDE DEF T
    <3> QED BY <1>1, <1>2, AllNumbers
  <2> QED BY <2>1
<1> DEFINE F(m) == CHOOSE f : Upto(f, m)
<1>4. \A m \in Nat : Upto(F(m), m)
  <2> HIDE DEF Upto
  <2> QED BY <1>3
<1> HIDE DEF F
\* They agree where both are defined.
<1>5. ASSUME NEW m \in Nat PROVE \A i \in 0..m : F(m)[i] = F(m + 1)[i]
  <2> DEFINE S == {i \in 0..m : F(m)[i] = F(m + 1)[i]}
  <2>1. Upto(F(m), m) /\ Upto(F(m + 1), m + 1)
    <3> HIDE DEF Upto
    <3>1. m + 1 \in Nat
      OBVIOUS
    <3> QED BY <1>4, <3>1
  <2>2. 0 \in S
    BY <2>1
  <2>3. ASSUME NEW i \in 0..m, i \in S, i < m PROVE i + 1 \in S
    <3>1. i + 1 \in 0..m /\ i + 1 \in 0..(m + 1) /\ i + 1 # 0 /\ (i + 1) - 1 = i
      BY <2>3
    <3>2. F(m)[i + 1] = Growth * F(m)[i] /\ F(m + 1)[i + 1] = Growth * F(m + 1)[i]
      BY <2>1, <3>1
    <3> QED BY <2>3, <3>1, <3>2
  <2>4. 0..m \subseteq S
    <3> HIDE DEF S
    <3> QED BY <2>2, <2>3, AllIndices
  <2> QED BY <2>4
<1> DEFINE W == [n \in Nat |-> F(n)[n]]
           Rec(f) == f = [n \in Nat |-> IF n = 0 THEN Margin ELSE Growth * f[n - 1]]
<1>6. ASSUME NEW n \in Nat PROVE W[n] = IF n = 0 THEN Margin ELSE Growth * W[n - 1]
  <2>1. Upto(F(n), n)
    BY <1>4
  <2>2. CASE n = 0
    BY <2>1, <2>2
  <2>3. CASE n # 0
    <3>1. n - 1 \in Nat /\ (n - 1) + 1 = n /\ n - 1 \in 0..(n - 1) /\ n \in 0..n
      BY <2>3
    <3>2. F(n - 1)[n - 1] = F(n)[n - 1]
      BY <1>5, <3>1
    <3>3. F(n)[n] = Growth * F(n)[n - 1]
      BY <2>1, <2>3, <3>1
    <3> QED BY <2>3, <3>1, <3>2, <3>3
  <2> QED BY <2>2, <2>3
<1>7. Rec(W)
  <2> HIDE DEF F
  <2>1. W = [n \in Nat |-> IF n = 0 THEN Margin ELSE Growth * W[n - 1]]
    BY <1>6
  <2> QED BY <2>1
<1>8. Grown = CHOOSE f : Rec(f)
  BY DEF Grown
<1>9. Rec(Grown)
  <2> HIDE DEF W, Rec
  <2> QED BY <1>7, <1>8
<1> QED BY <1>9

\* So it is a number, and larger after every failure.
LEMMA GrownGrows ==
  /\ \A n \in Nat : Grown[n] \in Nat \ {0}
  /\ \A k, n \in Nat : k < n => Grown[k] < Grown[n]
<1>0. Margin \in Nat \ {0} /\ Growth = 4
  BY ExploreAssumption DEF Growth
<1>1. Grown[0] = Margin /\ \A n \in Nat : Grown[n + 1] = 4 * Grown[n]
  <2> DEFINE W == Grown
  <2>1. W = [n \in Nat |-> IF n = 0 THEN Margin ELSE 4 * W[n - 1]]
    BY <1>0, GrownIsSolved
  <2> HIDE DEF W
  <2>2. W[0] = Margin
    BY <2>1
  <2>3. ASSUME NEW n \in Nat PROVE W[n + 1] = 4 * W[n]
    <3>1. n + 1 \in Nat /\ n + 1 # 0 /\ (n + 1) - 1 = n
      OBVIOUS
    <3>2. W[n + 1] = IF n + 1 = 0 THEN Margin ELSE 4 * W[(n + 1) - 1]
      BY <2>1, <3>1
    <3> QED BY <3>1, <3>2
  <2> QED BY <2>2, <2>3 DEF W
<1> DEFINE S == {n \in Nat : Grown[n] \in Nat \ {0}}
<1>2. Nat \subseteq S
  <2>1. 0 \in S
    BY <1>0, <1>1
  <2>2. ASSUME NEW n \in Nat, n \in S PROVE n + 1 \in S
    <3>1. Grown[n] \in Nat \ {0} /\ Grown[n + 1] = 4 * Grown[n]
      BY <1>1, <2>2
    <3> QED BY <3>1
  <2> HIDE DEF S
  <2> QED BY <2>1, <2>2, AllNumbers
<1>3. \A n \in Nat : Grown[n] \in Nat \ {0} /\ Grown[n] < Grown[n + 1]
  <2> TAKE n \in Nat
  <2>1. Grown[n] \in Nat \ {0} /\ Grown[n + 1] = 4 * Grown[n]
    BY <1>1, <1>2
  <2> QED BY <2>1
<1>4. ASSUME NEW k \in Nat PROVE \A n \in Nat : k < n => Grown[k] < Grown[n]
  <2> DEFINE M == {n \in Nat : k < n => Grown[k] < Grown[n]}
  <2>1. 0 \in M
    OBVIOUS
  <2>2. ASSUME NEW n \in Nat, n \in M PROVE n + 1 \in M
    <3>1. Grown[k] \in Nat /\ Grown[n] \in Nat /\ Grown[n + 1] \in Nat /\ Grown[n] < Grown[n + 1]
      BY <1>3
    <3>2. CASE k < n
      BY <2>2, <3>1, <3>2
    <3>3. CASE k = n
      BY <3>1, <3>3
    <3>4. CASE ~(k < n + 1)
      BY <3>4
    <3> QED BY <3>2, <3>3, <3>4
  <2>3. Nat \subseteq M
    <3> HIDE DEF M
    <3> QED BY <2>1, <2>2, AllNumbers
  <2> QED BY <2>3
<1> QED BY <1>3, <1>4

(***************************************************************************)
(* The behavior's own steps                                                *)
(***************************************************************************)
\* The fields of a behavior are set one by one.
LEMMA BehaviorFields ==
  ASSUME NEW s \in Behaviors
  PROVE  /\ s.ex \in {NoExplore} \cup ExState /\ s.g \in {NoGoTo} \cup GoToState /\ s.marks \subseteq Cells
         /\ s.temporary \subseteq Cells /\ s.ended \in Endings
         /\ \A h \in {NoGoTo} \cup GoToState : LET r == [s EXCEPT !.g = h] IN
              r \in Behaviors /\ r.ex = s.ex /\ r.g = h /\ r.marks = s.marks /\ r.temporary = s.temporary
              /\ r.ended = s.ended
         /\ \A x \in {NoExplore} \cup ExState : LET r == [s EXCEPT !.ex = x] IN
              r \in Behaviors /\ r.ex = x /\ r.g = s.g /\ r.marks = s.marks /\ r.temporary = s.temporary
              /\ r.ended = s.ended
         /\ \A t \in SUBSET Cells : LET r == [s EXCEPT !.temporary = t] IN
              r \in Behaviors /\ r.ex = s.ex /\ r.g = s.g /\ r.marks = s.marks /\ r.temporary = t
              /\ r.ended = s.ended
         /\ \A e \in Endings : LET r == Ends(s, e) IN
              r \in Behaviors /\ r.ex = s.ex /\ r.g = s.g /\ r.marks = s.marks /\ r.temporary = s.temporary
              /\ r.ended = e
<1>1. /\ s.ex \in {NoExplore} \cup ExState /\ s.g \in {NoGoTo} \cup GoToState /\ s.marks \subseteq Cells
      /\ s.temporary \subseteq Cells /\ s.ended \in Endings
  BY DEF Behaviors
<1>2. ASSUME NEW h \in {NoGoTo} \cup GoToState PROVE LET r == [s EXCEPT !.g = h] IN
        r \in Behaviors /\ r.ex = s.ex /\ r.g = h /\ r.marks = s.marks /\ r.temporary = s.temporary /\ r.ended = s.ended
  BY DEF Behaviors
<1>3. ASSUME NEW x \in {NoExplore} \cup ExState PROVE LET r == [s EXCEPT !.ex = x] IN
        r \in Behaviors /\ r.ex = x /\ r.g = s.g /\ r.marks = s.marks /\ r.temporary = s.temporary /\ r.ended = s.ended
  BY DEF Behaviors
<1>4. ASSUME NEW t \in SUBSET Cells PROVE LET r == [s EXCEPT !.temporary = t] IN
        r \in Behaviors /\ r.ex = s.ex /\ r.g = s.g /\ r.marks = s.marks /\ r.temporary = t /\ r.ended = s.ended
  BY DEF Behaviors
<1>5. ASSUME NEW e \in Endings PROVE LET r == Ends(s, e) IN
        r \in Behaviors /\ r.ex = s.ex /\ r.g = s.g /\ r.marks = s.marks /\ r.temporary = s.temporary /\ r.ended = e
  BY DEF Behaviors, Ends
<1> HIDE DEF Behaviors
<1> QED BY <1>1, <1>2, <1>3, <1>4, <1>5

\* Marks are all that marking changes.
LEMMA MarkingKeeps ==
  ASSUME frontier \subseteq Cells, NEW s \in Behaviors, NEW c
  PROVE  /\ LET r == Marked(s, c) IN r \in Behaviors /\ r.ex = s.ex /\ r.g = s.g /\ r.ended = s.ended
                                     /\ r.temporary \subseteq s.temporary
         /\ LET r == MarkedForNow(s, c) IN r \in Behaviors /\ r.ex = s.ex /\ r.g = s.g /\ r.ended = s.ended
         /\ LET r == Cleared(s) IN r \in Behaviors /\ r.ex = s.ex /\ r.g = s.g /\ r.ended = s.ended
                                   /\ r.marks = s.marks /\ r.temporary = {}
<1> DEFINE grp == GroupWith(c)
           m == s.marks \cup grp
           t == s.temporary \ grp
           u == s.temporary \cup grp
<1>1. grp \subseteq Cells
  BY DEF GroupWith, GroupAt
<1>2. s.marks \subseteq Cells /\ s.temporary \subseteq Cells
  BY BehaviorFields
<1>3. m \in SUBSET Cells /\ t \in SUBSET Cells /\ u \in SUBSET Cells /\ {} \in SUBSET Cells /\ t \subseteq s.temporary
  BY <1>1, <1>2
<1>4. /\ Marked(s, c) = [s EXCEPT !.marks = m, !.temporary = t]
      /\ MarkedForNow(s, c) = [s EXCEPT !.temporary = u]
      /\ Cleared(s) = [s EXCEPT !.temporary = {}]
  BY DEF Marked, MarkedForNow, Cleared
<1> HIDE DEF m, t, u
<1>5. LET r == [s EXCEPT !.marks = m, !.temporary = t] IN
        r \in Behaviors /\ r.ex = s.ex /\ r.g = s.g /\ r.marks = m /\ r.temporary = t /\ r.ended = s.ended
  BY <1>3 DEF Behaviors
<1>6. LET r == [s EXCEPT !.temporary = u] IN
        r \in Behaviors /\ r.ex = s.ex /\ r.g = s.g /\ r.marks = s.marks /\ r.temporary = u /\ r.ended = s.ended
  BY <1>3, BehaviorFields
<1>7. LET r == [s EXCEPT !.temporary = {}] IN
        r \in Behaviors /\ r.ex = s.ex /\ r.g = s.g /\ r.marks = s.marks /\ r.temporary = {} /\ r.ended = s.ended
  BY <1>3, BehaviorFields
<1> HIDE DEF Behaviors
<1> QED BY <1>3, <1>4, <1>5, <1>6, <1>7

(***************************************************************************)
(* What explore selects                                                    *)
(***************************************************************************)
\* Groups are told apart by their lowest cell, and one is the nearest.
LEMMA NearestGroup ==
  ASSUME frontier \subseteq Cells, NEW grps, grps \subseteq Groups, grps # {}, NEW d, \A grp \in grps : d[grp] \in Nat
  PROVE  Nearest(grps, d) \in grps
<1> DEFINE near == {grp \in grps : \A h \in grps : d[grp] <= d[h]}
           D == {d[grp] : grp \in grps}
           L == {Lowest(grp) : grp \in near}
<1>1. D \subseteq Nat /\ D # {}
  OBVIOUS
<1>2. PICK y \in D : \A z \in D : y <= z
  BY <1>1, LeastNumber
<1>3. PICK grp \in grps : y = d[grp]
  BY <1>2
<1>4. grp \in near
  BY <1>2, <1>3
<1>5. \A h \in near : Lowest(h) \in Nat
  <2> TAKE h \in near
  <2>1. h \subseteq Cells /\ h # {}
    BY GroupPoint
  <2>2. h \subseteq Nat
    BY <2>1, CellsAreNat
  <2> QED BY <2>1, <2>2, LowestCell
<1>6. L \subseteq Nat /\ L # {}
  BY <1>4, <1>5
<1> HIDE DEF near
<1>7. PICK l \in L : \A k \in L : l <= k
  BY <1>6, LeastNumber
<1>8. \E h \in near : \A k \in near : Lowest(h) <= Lowest(k)
  BY <1>7
<1>9. ById(near) \in near
  BY <1>8 DEF ById
<1> QED BY <1>9 DEF Nearest, near

\* How far a group is.
LEMMA PointDistance ==
  ASSUME frontier \subseteq Cells, pos \in Int, NEW grp \in Groups
  PROVE  Point(grp) \in Nat /\ Point(grp) \in Cells /\ D2(grp) \in Nat
<1>1. Point(grp) \in Cells /\ Point(grp) \in Nat
  BY GroupPoint, CellsAreNat
<1> QED BY <1>1 DEF D2, Distance

\* Choose takes one of the groups.
LEMMA ChosenGroup ==
  ASSUME frontier \subseteq Cells, pos \in Int, NEW s, NEW grps, grps \subseteq Groups, grps # {}
  PROVE  Choose(s, grps) \in grps
<1> DEFINE big == {grp \in grps : \A h \in grps : Cardinality(grp) >= Cardinality(h)}
           from == IF s.ex.strategy = "nearest" THEN grps ELSE big
           S == {Cardinality(grp) : grp \in grps}
<1>1. \A grp \in grps : Cardinality(grp) \in Nat /\ Cardinality(grp) <= Cardinality(Cells)
  <2> TAKE grp \in grps
  <2>1. grp \subseteq Cells /\ IsFiniteSet(Cells)
    BY GroupPoint, GoToAssumption
  <2>2. IsFiniteSet(grp) /\ Cardinality(grp) <= Cardinality(Cells)
    BY <2>1, FS_Subset
  <2> QED BY <2>2, FS_CardinalityType
<1>2. S \subseteq Nat /\ S # {} /\ (\A c \in S : c <= Cardinality(Cells)) /\ Cardinality(Cells) \in Nat
  BY <1>1, CellsAreNat
<1>3. Highest(S) \in S /\ \A c \in S : c <= Highest(S)
  <2> HIDE DEF S
  <2> QED BY <1>2, HighestOf
<1>4. PICK grp \in grps : Highest(S) = Cardinality(grp)
  BY <1>3
<1>5. grp \in big
  BY <1>1, <1>3, <1>4
<1>6. from \subseteq Groups /\ from # {} /\ from \subseteq grps
  BY <1>5
<1> HIDE DEF from
<1>7. \A h \in from : [k \in from |-> D2(k)][h] \in Nat
  BY <1>6, PointDistance
<1>8. Nearest(from, [k \in from |-> D2(k)]) \in from
  BY <1>6, <1>7, NearestGroup
<1>9. Choose(s, grps) = Nearest(from, [k \in from |-> D2(k)])
  BY DEF Choose, from
<1> QED BY <1>6, <1>8, <1>9

\* A selection: nothing failed by it, and a goTo it starts is one that may be tried.
Ready(r) == r.g \in GoToState /\ GoToOK(r.g) /\ ~r.g.asked /\ ~r.g.reverse /\ Pending(r.ex)
Exploring(s) == s \in Behaviors /\ s.ex \in ExState
Picked(s, r) ==
  /\ Exploring(r) /\ r.ex.failures = s.ex.failures
  /\ r.g = NoGoTo \/ (Ready(r) /\ r.ended = "no")

\* A goTo that begins asks for nothing yet.
LEMMA NewGoToState ==
  ASSUME NEW c \in Int, NEW returning \in BOOLEAN
  PROVE  LET h == NewGoTo(c, returning) IN h \in GoToState /\ GoToOK(h) /\ ~h.asked /\ ~h.reverse /\ h.end = NoPath
<1>1. NoPath \in Int
  BY DEF NoPath
<1>2. NewGoTo(c, returning) \in GoToState
  BY <1>1 DEF NewGoTo, GoToState
<1>3. /\ NewGoTo(c, returning).asked = FALSE /\ NewGoTo(c, returning).backing = FALSE
      /\ NewGoTo(c, returning).reverse = FALSE /\ NewGoTo(c, returning).end = NoPath
  BY DEF NewGoTo
<1> QED BY <1>2, <1>3 DEF GoToOK

\* The fields of an exploration are set one by one.
LEMMA ExFields ==
  ASSUME NEW x \in ExState
  PROVE  /\ \A m \in Modes : LET y == [x EXCEPT !.mode = m] IN y \in ExState /\ y.failures = x.failures /\ y.scope = x.scope
         /\ \A i \in {NoIteration} \cup [on : {TRUE}, centre : Int] : LET y == [x EXCEPT !.iteration = i] IN
              y \in ExState /\ y.failures = x.failures /\ y.scope = x.scope /\ y.iteration = i
         /\ \A n \in Nat : LET y == [x EXCEPT !.waited = n] IN y \in ExState /\ y.failures = x.failures /\ y.scope = x.scope
<1>1. ASSUME NEW m \in Modes PROVE LET y == [x EXCEPT !.mode = m] IN
        y \in ExState /\ y.failures = x.failures /\ y.scope = x.scope
  BY DEF ExState
<1>2. ASSUME NEW i \in {NoIteration} \cup [on : {TRUE}, centre : Int] PROVE LET y == [x EXCEPT !.iteration = i] IN
        y \in ExState /\ y.failures = x.failures /\ y.scope = x.scope /\ y.iteration = i
  BY DEF ExState
<1>3. ASSUME NEW n \in Nat PROVE LET y == [x EXCEPT !.waited = n] IN
        y \in ExState /\ y.failures = x.failures /\ y.scope = x.scope
  BY DEF ExState
<1> QED BY <1>1, <1>2, <1>3

\* There is no centre without an iteration.
LEMMA NoIterationOff == NoIteration.on = FALSE
BY DEF NoIteration

\* A goTo begins, or the group is marked.
LEMMA BeginPicks ==
  ASSUME frontier \subseteq Cells, pos \in Int, NEW s, Exploring(s), s.g = NoGoTo, s.ended = "no", NEW grp \in Groups,
         NEW mode \in Modes, NEW window \in Int \X Int,
         mode = "iterate" => s.ex.iteration.on /\ s.ex.iteration.centre \notin CentresOf(s.ex, grp),
         mode = "travel" => window = Reaching(pos, Point(grp), Grown[TravelsOf(s.ex, grp)])
  PROVE  Picked(s, Begin(s, grp, mode, window)) /\ Begin(s, grp, mode, window).ended = "no"
<1> DEFINE q == Point(grp)
           free == {c \in grp \ blocked : window[1] <= c /\ c <= window[2]}
           goals == IF q \notin blocked THEN {q} ELSE {c \in free : \A d \in free : Distance(c, q) <= Distance(d, q)}
           r == Begin(s, grp, mode, window)
<1>1. grp \subseteq Cells /\ q \in grp /\ q \in Int /\ s \in Behaviors /\ s.ex \in ExState
  <2>1. grp \subseteq Cells /\ q \in grp
    BY GroupPoint
  <2> QED BY <2>1, CellsAreNumbers DEF Exploring
<1>2. goals \subseteq Nat
  <2>1. goals \subseteq grp
    BY <1>1
  <2> QED BY <1>1, <2>1, CellsAreNat
<1>3. CASE goals = {}
  <2> DEFINE y == [s.ex EXCEPT !.mode = mode]
             t == [s EXCEPT !.ex = y]
  <2>1. r = Marked(t, q)
    BY <1>3 DEF Begin
  <2>2. y \in ExState /\ y.failures = s.ex.failures
    BY <1>1, ExFields
  <2> HIDE DEF y
  <2>3. t \in Behaviors /\ t.ex = y /\ t.g = s.g /\ t.ended = s.ended
    BY <1>1, <2>2, BehaviorFields
  <2> HIDE DEF t
  <2>4. r \in Behaviors /\ r.ex = y /\ r.g = NoGoTo /\ r.ended = "no"
    BY <2>1, <2>3, MarkingKeeps
  <2> QED BY <2>2, <2>4 DEF Picked, Exploring
<1>4. CASE goals # {}
  <2> DEFINE h == NewGoTo(Lowest(goals), FALSE)
             target == [cells |-> grp, point |-> q]
             origin == IF mode = "iterate" THEN s.ex.iteration.centre ELSE pos
             y == [s.ex EXCEPT !.target = target, !.mode = mode, !.window = window, !.origin = origin]
             t == [s EXCEPT !.g = h]
  <2>1. Lowest(goals) \in Int
    <3> HIDE DEF goals
    <3>1. Lowest(goals) \in goals
      BY <1>2, <1>4, LowestCell
    <3>2. Lowest(goals) \in Nat
      BY <1>2, <3>1, Zenon
    <3> QED BY <3>2
  <2>2. r = [s EXCEPT !.g = h, !.ex = y]
    BY <1>4 DEF Begin
  <2> HIDE DEF goals
  <2>3. h \in GoToState /\ GoToOK(h) /\ ~h.asked /\ ~h.reverse
    BY <2>1, NewGoToState
  <2>4. target \in [cells : SUBSET Cells, point : Int] /\ target.cells = grp /\ target.point = q
    BY <1>1
  <2>5. origin \in Int
    <3>1. CASE mode = "iterate"
      <4>1. s.ex.iteration \in {NoIteration} \cup [on : {TRUE}, centre : Int] /\ s.ex.iteration.on
        BY <1>1, <3>1 DEF ExState
      <4>2. s.ex.iteration \in [on : {TRUE}, centre : Int]
        BY <4>1, NoIterationOff
      <4> QED BY <3>1, <4>2
    <3> QED BY <3>1
  <2> HIDE DEF h, target
  <2>6. y \in ExState
    <3> HIDE DEF origin
    <3> QED BY <1>1, <2>4, <2>5 DEF ExState
  <2>7. y.failures = s.ex.failures /\ y.target = target /\ y.mode = mode /\ y.window = window /\ y.origin = origin
    BY <1>1 DEF ExState
  <2>8. CentresOf(y, grp) = CentresOf(s.ex, grp) /\ TravelsOf(y, grp) = TravelsOf(s.ex, grp)
    BY <2>7 DEF CentresOf, TravelsOf
  <2>9. r = [t EXCEPT !.ex = y]
    BY <1>1, <2>2 DEF Behaviors
  <2> HIDE DEF y
  <2>10. t \in Behaviors /\ t.g = h /\ t.ended = s.ended /\ t.ex = s.ex
    BY <1>1, <2>3, BehaviorFields
  <2> HIDE DEF t
  <2>11. r \in Behaviors /\ r.ex = y /\ r.g = h /\ r.ended = "no"
    BY <2>6, <2>9, <2>10, BehaviorFields
  <2>12. Pending(y)
    <3>1. y.mode = "iterate" => y.origin \notin CentresOf(y, y.target.cells)
      BY <2>4, <2>7, <2>8
    <3>2. y.mode = "travel" => y.window = Reaching(y.origin, y.target.point, Grown[TravelsOf(y, y.target.cells)])
      BY <2>4, <2>7, <2>8
    <3> QED BY <1>1, <2>4, <2>6, <2>7, <3>1, <3>2 DEF Pending
  <2> QED BY <2>3, <2>6, <2>7, <2>11, <2>12 DEF Picked, Exploring, Ready
<1> QED BY <1>3, <1>4

\* A travel.
LEMMA TravelPicks ==
  ASSUME frontier \subseteq Cells, pos \in Int, NEW s, Exploring(s), s.g = NoGoTo, s.ended = "no", NEW grp \in Groups
  PROVE  Picked(s, Travel(s, grp)) /\ Travel(s, grp).ended = "no"
<1> DEFINE w == TravelWindow(s, grp)
           k == TravelsOf(s.ex, grp)
<1>1. w = Reaching(pos, Point(grp), Grown[k])
  BY DEF TravelWindow, Reaching
<1>2. Point(grp) \in Int /\ Grown[k] \in Int
  <2>1. Point(grp) \in grp /\ grp \in SUBSET Cells
    BY GroupPoint
  <2>2. k \in Nat
    BY <2>1, OfGroup DEF Exploring
  <2>3. Point(grp) \in Int
    BY <2>1, CellsAreNumbers
  <2> HIDE DEF k
  <2>4. Grown[k] \in Nat \ {0}
    BY <2>2, GrownGrows
  <2> QED BY <2>3, <2>4
<1> HIDE DEF k
<1>3. w \in Int \X Int
  BY <1>1, <1>2, OfTwo DEF Reaching
<1> HIDE DEF w
<1>4. "travel" \in Modes /\ "travel" # "iterate"
  BY DEF Modes
<1>5. Picked(s, Begin(s, grp, "travel", w)) /\ Begin(s, grp, "travel", w).ended = "no"
  BY <1>1, <1>3, <1>4, BeginPicks DEF k
<1> QED BY <1>5 DEF Travel, w

\* Scope and marks say which groups an exploration is after.
LEMMA ScopeKeeps ==
  ASSUME NEW s, NEW r, r.marks = s.marks, r.ex.scope = s.ex.scope
  PROVE  Candidates(r) = Candidates(s) /\ InScope(r) = InScope(s)
<1>1. Candidates(r) = Candidates(s)
  BY DEF Candidates
<1> QED BY <1>1 DEF InScope

\* A target of the iteration.
LEMMA InIterationPicks ==
  ASSUME frontier \subseteq Cells, pos \in Int, NEW s, Exploring(s), s.g = NoGoTo, s.ended = "no",
         s.ex.iteration.on, OfIteration(s) # {}
  PROVE  Picked(s, InIteration(s)) /\ InIteration(s).ended = "no"
<1> DEFINE c == s.ex.iteration.centre
           grp == Choose(s, OfIteration(s))
           w == Around(c, Radius + Margin)
<1>1. OfIteration(s) \subseteq Groups
  BY DEF OfIteration, Within, InScope, Candidates
<1>2. grp \in OfIteration(s)
  BY <1>1, ChosenGroup
<1>3. grp \in Groups /\ c \notin CentresOf(s.ex, grp)
  <2> HIDE DEF grp
  <2> QED BY <1>1, <1>2 DEF OfIteration
<1>4. c \in Int
  <2>1. s.ex.iteration \in {NoIteration} \cup [on : {TRUE}, centre : Int]
    BY DEF Exploring, ExState
  <2>2. s.ex.iteration \in [on : {TRUE}, centre : Int]
    BY <2>1, NoIterationOff
  <2> QED BY <2>2
<1>5. w \in Int \X Int
  BY <1>4, ExploreAssumption DEF Around
<1>6. "iterate" \in Modes /\ "iterate" # "travel"
  BY DEF Modes
<1> HIDE DEF grp, w
<1>7. Picked(s, Begin(s, grp, "iterate", w)) /\ Begin(s, grp, "iterate", w).ended = "no"
  BY <1>3, <1>5, <1>6, BeginPicks
<1> QED BY <1>7 DEF InIteration, grp, w

\* An iteration begins or ends: the temporary marks are gone.
IterationSet(s, i, r) ==
  /\ Exploring(r) /\ r.ex.iteration = i /\ r.ex.failures = s.ex.failures /\ r.ex.scope = s.ex.scope
  /\ r.g = s.g /\ r.marks = s.marks /\ r.temporary = {} /\ r.ended = s.ended
WithIteration(s, i) == [Cleared(s) EXCEPT !.ex.iteration = i]

\* Failures and scope stay.
LEMMA IterationFields ==
  ASSUME frontier \subseteq Cells, NEW s, Exploring(s), NEW i, i \in {NoIteration} \cup [on : {TRUE}, centre : Int],
         NEW r, r = WithIteration(s, i)
  PROVE  IterationSet(s, i, r)
<1> DEFINE t == Cleared(s)
           y == [s.ex EXCEPT !.iteration = i]
<1>1. s \in Behaviors /\ s.ex \in ExState
  BY DEF Exploring
<1>2. t \in Behaviors /\ t.ex = s.ex /\ t.g = s.g /\ t.marks = s.marks /\ t.temporary = {} /\ t.ended = s.ended
  BY <1>1, MarkingKeeps
<1>3. r = [t EXCEPT !.ex = y]
  BY <1>2 DEF WithIteration
<1> HIDE DEF t
<1>4. y \in ExState /\ y.failures = s.ex.failures /\ y.scope = s.ex.scope /\ y.iteration = i
  BY <1>1, <1>2, ExFields
<1> HIDE DEF y
<1>5. r \in Behaviors /\ r.ex = y /\ r.g = t.g /\ r.marks = t.marks /\ r.temporary = t.temporary /\ r.ended = t.ended
  BY <1>2, <1>3, <1>4, BehaviorFields
<1> QED BY <1>2, <1>3, <1>4, <1>5 DEF Exploring, IterationSet

\* The next group: an iteration begins around the vehicle, or it travels.
LEMMA ToNextPicks ==
  ASSUME frontier \subseteq Cells, pos \in Int, NEW s, Exploring(s), s.g = NoGoTo, s.ended = "no", NEW grp \in Left(s)
  PROVE  Picked(s, ToNext(s, grp)) /\ ToNext(s, grp).ended = "no"
<1>0. grp \in Groups /\ grp \in InScope(s)
  BY DEF Left, InScope, Candidates
<1>1. CASE D2(grp) <= Radius /\ pos \notin CentresOf(s.ex, grp)
  <2> DEFINE i == [on |-> TRUE, centre |-> pos]
             b == BeginIteration(s)
  <2>1. i \in {NoIteration} \cup [on : {TRUE}, centre : Int] /\ i.on = TRUE /\ i.centre = pos
    OBVIOUS
  <2>2. b = WithIteration(s, i)
    BY DEF BeginIteration, WithIteration
  <2> HIDE DEF i, b
  <2>3. /\ Exploring(b) /\ b.ex.iteration = i /\ b.ex.failures = s.ex.failures /\ b.ex.scope = s.ex.scope
        /\ b.g = s.g /\ b.marks = s.marks /\ b.temporary = {} /\ b.ended = s.ended
    <3>1. IterationSet(s, i, b)
      BY <2>1, <2>2, IterationFields
    <3> QED BY <3>1 DEF IterationSet
  <2>4. grp \in OfIteration(b)
    <3>1. grp \in InScope(b)
      BY <1>0, <2>3, ScopeKeeps
    <3>2. Distance(Point(grp), pos) <= Radius
      BY <1>1 DEF D2
    <3>3. ~IsTemporary(b, grp)
      BY <1>0, <2>3, GroupPoint DEF IsTemporary
    <3>4. CentresOf(b.ex, grp) = CentresOf(s.ex, grp)
      BY <2>3 DEF CentresOf
    <3>5. b.ex.iteration.centre = pos
      BY <2>1, <2>3
    <3> QED BY <1>1, <3>1, <3>2, <3>3, <3>4, <3>5 DEF OfIteration, Within
  <2>5. Picked(b, InIteration(b)) /\ InIteration(b).ended = "no"
    BY <2>1, <2>3, <2>4, InIterationPicks
  <2>6. ToNext(s, grp) = InIteration(b)
    BY <1>1 DEF ToNext, b
  <2> QED BY <2>3, <2>5, <2>6 DEF Picked
<1>2. CASE ~(D2(grp) <= Radius /\ pos \notin CentresOf(s.ex, grp))
  BY <1>0, <1>2, TravelPicks DEF ToNext
<1> QED BY <1>1, <1>2

\* With nothing left, the exploration ends or waits for the map.
LEMMA ExhaustedPicks ==
  ASSUME frontier \subseteq Cells, NEW s, Exploring(s), s.g = NoGoTo, s.ended = "no"
  PROVE  Picked(s, Exhausted(s))
<1>1. s \in Behaviors /\ s.ex \in ExState
  BY DEF Exploring
<1>2. ASSUME NEW e \in Endings PROVE Picked(s, Ends(s, e))
  <2>1. LET r == Ends(s, e) IN r \in Behaviors /\ r.ex = s.ex /\ r.g = s.g
    BY <1>1, <1>2, BehaviorFields
  <2> QED BY <1>1, <2>1 DEF Picked, Exploring
<1>3. EndReason(s) \in Endings /\ "no_map_data" \in Endings
  BY DEF EndReason, Endings, Successes
<1>4. CASE Exhausted(s) \in {Ends(s, EndReason(s)), Ends(s, "no_map_data")}
  BY <1>2, <1>3, <1>4
<1>5. CASE Exhausted(s) = [s EXCEPT !.ex.waited = @ + 1]
  <2> DEFINE n == s.ex.waited + 1
             y == [s.ex EXCEPT !.waited = n]
             r == [s EXCEPT !.ex = y]
  <2>1. n \in Nat
    <3>1. s.ex.waited \in Nat
      BY <1>1 DEF ExState
    <3> QED BY <3>1
  <2>2. Exhausted(s) = r
    BY <1>5
  <2> HIDE DEF n
  <2>3. y \in ExState /\ y.failures = s.ex.failures
    BY <1>1, <2>1, ExFields
  <2> HIDE DEF y
  <2>4. r \in Behaviors /\ r.ex = y /\ r.g = s.g
    BY <1>1, <2>3, BehaviorFields
  <2> QED BY <2>2, <2>3, <2>4 DEF Picked, Exploring
<1> QED BY <1>4, <1>5 DEF Exhausted

\* The next centre; an exploration ends only when nothing is left.
LEMMA NextCentrePicks ==
  ASSUME frontier \subseteq Cells, hidden \subseteq Cells, pos \in Int, NEW s, Exploring(s), s.g = NoGoTo, s.ended = "no"
  PROVE  /\ Picked(s, NextCentre(s))
         /\ NextCentre(s).ended # "no" => Left(s) = {}
<1>1. CASE Left(s) # {}
  <2> DEFINE d == [grp \in Left(s) |-> D2(grp)]
             grp == Nearest(Left(s), d)
  <2>1. Left(s) \subseteq Groups
    BY DEF Left, InScope, Candidates
  <2>2. \A h \in Left(s) : d[h] \in Nat
    BY <2>1, PointDistance
  <2> HIDE DEF d
  <2>3. grp \in Left(s)
    BY <1>1, <2>1, <2>2, NearestGroup
  <2>4. NextCentre(s) = ToNext(s, grp)
    BY <1>1 DEF NextCentre, d
  <2> HIDE DEF grp
  <2> QED BY <2>3, <2>4, ToNextPicks
<1>2. CASE Left(s) = {} /\ Approaches(s) # {}
  <2> DEFINE d == [grp \in Approaches(s) |-> DistanceToRegion(s.ex.scope, grp)]
             grp == Nearest(Approaches(s), d)
  <2>1. Approaches(s) \subseteq Groups
    BY DEF Approaches, Candidates
  <2>2. PICK c \in Cells : RegionOf(c) = s.ex.scope
    <3>1. s.ex.scope # AnyRegion /\ InScope(s) = {} /\ RegionHasReachableUnknown(s, s.ex.scope)
      BY <1>2 DEF Approaches
    <3>2. \A h \in Candidates(s) : RegionOf(Lowest(h)) # s.ex.scope
      BY <3>1 DEF InScope
    <3>3. \E c \in hidden : RegionOf(c) = s.ex.scope
      BY <3>1, <3>2 DEF RegionHasReachableUnknown
    <3> QED BY <3>3
  <2>3. \A h \in Approaches(s) : d[h] \in Nat
    <3> TAKE h \in Approaches(s)
    <3> DEFINE S == {Distance(Point(h), x) : x \in {e \in Cells : RegionOf(e) = s.ex.scope}}
    <3>1. Point(h) \in Nat
      BY <2>1, PointDistance
    <3>2. S \subseteq Nat /\ S # {}
      <4>1. \A x \in Cells : Distance(Point(h), x) \in Nat
        BY <3>1, CellsAreNat DEF Distance
      <4> QED BY <2>2, <4>1
    <3>3. DistanceToRegion(s.ex.scope, h) = Lowest(S)
      BY DEF DistanceToRegion
    <3> HIDE DEF S
    <3>4. DistanceToRegion(s.ex.scope, h) \in Nat
      BY <3>2, <3>3, LowestCell
    <3> QED BY <3>4
  <2> HIDE DEF d
  <2>4. grp \in Approaches(s)
    BY <1>2, <2>1, <2>3, NearestGroup
  <2>5. NextCentre(s) = Travel(s, grp)
    BY <1>2 DEF NextCentre, d
  <2> HIDE DEF grp
  <2> QED BY <1>2, <2>1, <2>4, <2>5, TravelPicks
<1>3. CASE Left(s) = {} /\ Approaches(s) = {}
  <2>1. NextCentre(s) = Exhausted(s)
    BY <1>3 DEF NextCentre
  <2> QED BY <1>3, <2>1, ExhaustedPicks
<1> QED BY <1>1, <1>2, <1>3

\* The selection: it ends an exploration only when no group of its scope is left.
LEMMA SelectPicks ==
  ASSUME frontier \subseteq Cells, hidden \subseteq Cells, pos \in Int, NEW s, Exploring(s), s.g = NoGoTo, s.ended = "no"
  PROVE  /\ Picked(s, Select(s))
         /\ Select(s).ended # "no" => InScope(s) = {}
<1>1. CASE s.ex.iteration.on /\ OfIteration(s) # {}
  BY <1>1, InIterationPicks DEF Select
<1>2. CASE ~(s.ex.iteration.on /\ OfIteration(s) # {})
  <2> DEFINE e == EndIteration(s)
             n == NextRound(e)
             Alike(r) == /\ Exploring(r) /\ r.g = NoGoTo /\ r.ended = "no" /\ r.ex.failures = s.ex.failures
                         /\ r.ex.scope = s.ex.scope /\ r.marks = s.marks
  <2>1. Alike(e)
    <3>1. CASE s.ex.iteration.on
      <4>1. e = WithIteration(s, NoIteration)
        BY <3>1 DEF EndIteration, WithIteration
      <4> HIDE DEF e
      <4>2. IterationSet(s, NoIteration, e)
        BY <4>1, IterationFields
      <4> QED BY <4>2 DEF IterationSet
    <3>2. CASE ~s.ex.iteration.on
      BY <3>2 DEF EndIteration
    <3> QED BY <3>1, <3>2
  <2> HIDE DEF e
  <2>2. InScope(e) = InScope(s)
    BY <2>1, ScopeKeeps
  <2>3. Alike(n) /\ (Left(n) = {} => InScope(s) = {})
    <3>1. CASE Left(e) = {} /\ InScope(e) # {}
      <4>1. n = Cleared(e)
        BY <3>1 DEF NextRound
      <4>2. Alike(n) /\ n.temporary = {}
        BY <2>1, <4>1, MarkingKeeps DEF Exploring
      <4>3. InScope(n) = InScope(e)
        BY <2>1, <4>2, ScopeKeeps
      <4>4. PICK grp \in InScope(n) : TRUE
        BY <3>1, <4>3
      <4>5. grp \in Groups
        BY DEF InScope, Candidates
      <4>6. grp \in Left(n)
        BY <4>2, <4>5, GroupPoint DEF Left, IsTemporary
      <4> QED BY <4>2, <4>6
    <3>2. CASE ~(Left(e) = {} /\ InScope(e) # {})
      BY <2>1, <2>2, <3>2 DEF NextRound
    <3> QED BY <3>1, <3>2
  <2> HIDE DEF n
  <2>4. Picked(n, NextCentre(n)) /\ (NextCentre(n).ended # "no" => Left(n) = {})
    BY <2>3, NextCentrePicks
  <2>5. Select(s) = NextCentre(n)
    BY <1>2 DEF Select, n, e
  <2> QED BY <2>3, <2>4, <2>5 DEF Picked
<1> QED BY <1>1, <1>2

(***************************************************************************)
(* A failure, and the step                                                 *)
(***************************************************************************)
LEMMA PendingTarget ==
  ASSUME NEW x, Pending(x)
  PROVE  x \in ExState /\ x.target.cells \in SUBSET Cells /\ x.target.point \in x.target.cells
         /\ x.target.point \in Cells /\ x.origin \in Int /\ x.mode \in Modes
<1>1. x \in ExState /\ x.target.point \in x.target.cells
  BY DEF Pending
<1>2. x.target \in {NoTarget} \cup [cells : SUBSET Cells, point : Int] /\ x.origin \in Int /\ x.mode \in Modes
  BY <1>1 DEF ExState
<1>3. NoTarget.cells = {}
  BY DEF NoTarget
<1>4. x.target.cells \in SUBSET Cells
  BY <1>2, <1>3
<1> QED BY <1>1, <1>2, <1>4

\* What it remembers, cell by cell.
LEMMA RememberedFields ==
  ASSUME NEW x, Pending(x), NEW y, y = Remembered(x)
  PROVE  /\ y \in ExState /\ Search(y) = Search(x)
         /\ \A c \in x.target.cells :
              /\ y.failures[c].centres = CentresOf(x, x.target.cells) \cup {x.origin}
              /\ y.failures[c].travels = TravelsOf(x, x.target.cells) + (IF x.mode = "travel" THEN 1 ELSE 0)
         /\ \A c \in Cells \ x.target.cells : y.failures[c] = x.failures[c]
<1> DEFINE grp == x.target.cells
           more == IF x.mode = "travel" THEN 1 ELSE 0
           C == CentresOf(x, grp) \cup {x.origin}
           T == TravelsOf(x, grp) + more
           r == [centres |-> C, travels |-> T]
           f == [c \in Cells |-> IF c \in grp THEN r ELSE x.failures[c]]
<1>1. x \in ExState /\ grp \in SUBSET Cells /\ x.target.point \in grp /\ x.origin \in Int
  BY PendingTarget
<1>2. C \subseteq Int /\ T \in Nat
  <2>1. CentresOf(x, grp) \subseteq Int /\ TravelsOf(x, grp) \in Nat
    BY <1>1, OfGroup
  <2> QED BY <1>1, <2>1
<1>3. y = [x EXCEPT !.failures = f]
  BY DEF Remembered, Record
<1> HIDE DEF C, T
<1>4. r \in [centres : SUBSET Int, travels : Nat] /\ r.centres = C /\ r.travels = T
  BY <1>2
<1> HIDE DEF r
<1>5. f \in [Cells -> [centres : SUBSET Int, travels : Nat]]
  BY <1>1, <1>4 DEF ExState
<1>6. (\A c \in grp : f[c] = r) /\ (\A c \in Cells \ grp : f[c] = x.failures[c])
  BY <1>1
<1> HIDE DEF f
<1>7. y \in ExState
  BY <1>1, <1>3, <1>5 DEF ExState
<1>8. y.failures = f /\ y.target = x.target /\ y.origin = x.origin /\ y.mode = x.mode /\ y.window = x.window
  BY <1>1, <1>3 DEF ExState
<1>9. Search(y) = Search(x)
  BY <1>8 DEF Search
<1> QED BY <1>4, <1>6, <1>7, <1>8, <1>9 DEF C, T

\* Windows of different margins differ.
LEMMA WindowsDiffer ==
  ASSUME NEW o \in Int, NEW q \in Int, NEW k \in Nat, NEW n \in Nat, k < n
  PROVE  Reaching(o, q, Grown[k]) # Reaching(o, q, Grown[n])
<1>1. Lowest({o, q}) \in Int
  BY OfTwo
<1>2. Grown[k] \in Nat /\ Grown[n] \in Nat /\ Grown[k] < Grown[n]
  BY GrownGrows
<1> DEFINE l == Lowest({o, q})
<1>3. l - Grown[k] # l - Grown[n]
  BY <1>1, <1>2
<1> HIDE DEF l
<1> SUFFICES ASSUME Reaching(o, q, Grown[k]) = Reaching(o, q, Grown[n]) PROVE FALSE
  OBVIOUS
<1>4. Reaching(o, q, Grown[k])[1] = l - Grown[k] /\ Reaching(o, q, Grown[n])[1] = l - Grown[n]
  BY DEF Reaching, l
<1> QED BY <1>3, <1>4

\* A search that failed is remembered, and is none of those that failed before.
LEMMA FailureIsNew ==
  ASSUME NEW x, Pending(x), NEW searches, Remembers(x, searches)
  PROVE  /\ Search(x) \notin searches
         /\ Remembers(Remembered(x), searches \cup {Search(x)})
<1> DEFINE grp == x.target.cells
           q == x.target.point
           K == TravelsOf(x, grp)
           y == Remembered(x)
           s == Search(x)
<1>1. /\ x \in ExState /\ grp \in SUBSET Cells /\ q \in grp /\ q \in Cells /\ q \in Int /\ x.origin \in Int
      /\ x.mode \in Modes
  BY PendingTarget, CellsAreNumbers
<1>2. s.point = q /\ s.origin = x.origin /\ s.mode = x.mode /\ s.window = x.window
  BY DEF Search
<1>3. \A c \in grp : /\ x.failures[c].centres \subseteq CentresOf(x, grp)
                     /\ K \in Nat /\ x.failures[c].travels <= K /\ x.failures[c].travels \in Nat
  BY <1>1, OfGroup DEF ExState
<1>4. /\ x.mode = "iterate" => x.origin \notin CentresOf(x, grp)
      /\ x.mode = "travel" => x.window = Reaching(x.origin, q, Grown[K])
  BY DEF Pending
<1>5. y \in ExState
      /\ (\A c \in grp : /\ y.failures[c].centres = CentresOf(x, grp) \cup {x.origin}
                         /\ y.failures[c].travels = K + (IF x.mode = "travel" THEN 1 ELSE 0))
      /\ (\A c \in Cells \ grp : y.failures[c] = x.failures[c])
  BY RememberedFields
<1> HIDE DEF y, K
<1>6. s \notin searches
  <2> SUFFICES ASSUME s \in searches PROVE FALSE
    OBVIOUS
  <2>1. /\ s.mode = "iterate" => s.origin \in x.failures[s.point].centres
        /\ s.mode = "travel" => \E k \in Nat : k < x.failures[s.point].travels
                                                /\ s.window = Reaching(s.origin, s.point, Grown[k])
    BY DEF Remembers
  <2>2. CASE x.mode = "iterate"
    BY <1>1, <1>2, <1>3, <1>4, <2>1, <2>2
  <2>3. CASE x.mode = "travel"
    <3>1. PICK k \in Nat : k < x.failures[q].travels /\ x.window = Reaching(x.origin, q, Grown[k])
      BY <1>2, <2>1, <2>3
    <3>2. k < K /\ K \in Nat
      BY <1>1, <1>3, <3>1
    <3> QED BY <1>1, <1>4, <2>3, <3>1, <3>2, WindowsDiffer
  <2> QED BY <1>1, <2>2, <2>3 DEF Modes
<1> DEFINE Kept(t) ==
             /\ t.point \in Cells /\ t.origin \in Int /\ t.mode \in Modes
             /\ t.mode = "iterate" => t.origin \in y.failures[t.point].centres
             /\ t.mode = "travel" => \E k \in Nat : k < y.failures[t.point].travels
                                                     /\ t.window = Reaching(t.origin, t.point, Grown[k])
<1>7. Kept(s)
  <2>1. CASE x.mode = "iterate"
    BY <1>1, <1>2, <1>5, <2>1 DEF Modes
  <2>2. CASE x.mode = "travel"
    <3>1. K \in Nat /\ y.failures[q].travels = K + 1
      BY <1>1, <1>3, <1>5, <2>2
    <3>2. K < y.failures[q].travels
      BY <3>1
    <3> QED BY <1>1, <1>2, <1>4, <2>2, <3>1, <3>2
  <2> QED BY <1>1, <2>1, <2>2 DEF Modes
<1>8. ASSUME NEW t \in searches PROVE Kept(t)
  <2>1. /\ t.point \in Cells /\ t.origin \in Int /\ t.mode \in Modes
        /\ t.mode = "iterate" => t.origin \in x.failures[t.point].centres
        /\ t.mode = "travel" => \E k \in Nat : k < x.failures[t.point].travels
                                                /\ t.window = Reaching(t.origin, t.point, Grown[k])
    BY DEF Remembers
  <2>2. CASE t.point \notin grp
    <3>1. y.failures[t.point] = x.failures[t.point]
      BY <1>5, <2>1, <2>2
    <3> QED BY <2>1, <3>1
  <2>3. CASE t.point \in grp
    <3>1. x.failures[t.point].centres \subseteq y.failures[t.point].centres
      BY <1>3, <1>5, <2>3
    <3>2. /\ x.failures[t.point].travels \in Nat /\ y.failures[t.point].travels \in Nat
          /\ x.failures[t.point].travels <= y.failures[t.point].travels
      BY <1>3, <1>5, <2>3
    <3>3. \A k \in Nat : k < x.failures[t.point].travels => k < y.failures[t.point].travels
      BY <3>2
    <3> QED BY <2>1, <3>1, <3>3
  <2> QED BY <2>2, <2>3
<1>9. Remembers(y, searches \cup {s})
  <2> HIDE DEF s
  <2> QED BY <1>7, <1>8 DEF Remembers
<1> QED BY <1>6, <1>9 DEF y

\* What a step of explore leaves behind.
ExploreStep(r) ==
  /\ Exploring(r.s) /\ GoToIs(r.s.g, r.p) /\ r.pos \in Int /\ r.thrown \in BOOLEAN
  /\ r.s.g # NoGoTo => Pending(r.s.ex)
  /\ r.s.ended \in Successes => InScope(Now) = {}
  /\ r.s.ex.failures = ex.failures \/ \E x : Pending(x) /\ x.failures = ex.failures /\ r.s.ex = Remembered(x)

\* A failure changes what is remembered, and marks.
LEMMA FailedFields ==
  ASSUME frontier \subseteq Cells, NEW s, Exploring(s), Pending(s.ex), NEW r, r = Failed(s)
  PROVE  Exploring(r) /\ r.ex = Remembered(s.ex) /\ r.g = s.g /\ r.ended = s.ended
<1> DEFINE y == Remembered(s.ex)
           t == [s EXCEPT !.ex = y]
<1>1. y \in ExState /\ s \in Behaviors
  BY RememberedFields DEF Exploring
<1> HIDE DEF y
<1>2. t \in Behaviors /\ t.ex = y /\ t.g = s.g /\ t.ended = s.ended
  BY <1>1, BehaviorFields
<1>3. r \in {Marked(t, t.ex.target.point), MarkedForNow(t, t.ex.target.point)}
  BY DEF Failed, y
<1> HIDE DEF t
<1>4. r \in Behaviors /\ r.ex = t.ex /\ r.g = t.g /\ r.ended = t.ended
  BY <1>2, <1>3, MarkingKeeps
<1> QED BY <1>1, <1>2, <1>4 DEF Exploring, y

\* Without a goTo nothing is asked and nothing is followed.
LEMMA NoGoToWaits == NoGoTo.asked = FALSE /\ NoGoTo.end = NoPath
BY DEF NoGoTo

\* A goTo over: its planner has nothing left to do.
LEMMA OverIs ==
  ASSUME NEW G, NEW P, GoToIs(G, P)
  PROVE  GoToIs(NoGoTo, Stopped(G, P)) /\ Quiet(Stopped(G, P))
<1>1. P \in PlannerState /\ G.asked \in BOOLEAN /\ Agrees(G, P)
  BY NoGoToWaits DEF GoToIs, GoodPlanner, GoToState
<1>2. Stopped(G, P) \in PlannerState /\ Quiet(Stopped(G, P)) /\ PlannerOK(Stopped(G, P))
  BY <1>1, StopQuiets
<1>3. Agrees(NoGoTo, Stopped(G, P))
  BY <1>2, QuietAgrees, NoGoToWaits DEF Agrees
<1> QED BY <1>2, <1>3 DEF GoToIs, GoodPlanner

\* What explore does with the outcome of its goTo.
LEMMA AfterGoToSteps ==
  ASSUME frontier \subseteq Cells, NEW s, Exploring(s), s.ended = "no", Pending(s.ex), s.ex.failures = ex.failures,
         NEW o, Good(o), NEW r, r = AfterGoTo(s, o)
  PROVE  /\ ExploreStep(r)
         /\ r.s.g \in {NoGoTo, o.g} /\ r.p \in {o.p, Stopped(o.g, o.p)} /\ r.thrown = o.thrown
<1> DEFINE t == [s EXCEPT !.g = o.g]
           n == Picking(s)
           q == Stopped(o.g, o.p)
           over == Stepped(n, q, o.pos)
           Step(u, P, at, th) == [s |-> u, p |-> P, pos |-> at, thrown |-> th]
           OK(u, P) == /\ Exploring(u) /\ GoToIs(u.g, P) /\ u.ended \notin Successes
                       /\ u.g # NoGoTo => Pending(u.ex)
                       /\ u.ex = s.ex \/ u.ex = Remembered(s.ex)
                       /\ u.g \in {NoGoTo, o.g} /\ P \in {o.p, q}
<1>1. o \in OutcomeState /\ o.g \in GoToState /\ GoToOK(o.g) /\ o.pos \in Int /\ o.step \in Codes
  BY OutcomeFields DEF Good
<1>2. GoToIs(o.g, o.p)
  BY <1>1, OutcomeFields DEF Good, GoToIs, GoodPlanner
<1>3. GoToIs(NoGoTo, q)
  BY <1>2, OverIs
<1>4. s \in Behaviors
  BY DEF Exploring
<1>5. t \in Behaviors /\ t.ex = s.ex /\ t.g = o.g /\ t.ended = "no"
  BY <1>1, <1>4, BehaviorFields
<1>6. n \in Behaviors /\ n.ex = s.ex /\ n.g = NoGoTo /\ n.ended = "no"
  BY <1>4, BehaviorFields DEF Picking
<1>7. "no" \notin Successes /\ Codes \cap Successes = {} /\ Codes \ {"running"} \subseteq Endings
  BY DEF Successes, Codes, Endings
<1> HIDE DEF t, n, q
<1>8. OK(t, o.p)
  BY <1>2, <1>5, <1>7 DEF Exploring
<1>9. OK(Ends(t, "reflex"), o.p)
  <2>1. "reflex" \in Endings /\ "reflex" \notin Successes
    BY DEF Endings, Successes
  <2>2. LET u == Ends(t, "reflex") IN u \in Behaviors /\ u.ex = t.ex /\ u.g = t.g /\ u.ended = "reflex"
    BY <1>5, <2>1, BehaviorFields
  <2> QED BY <1>2, <1>5, <2>1, <2>2 DEF Exploring
<1>10. OK(n, q)
  BY <1>3, <1>6, <1>7 DEF Exploring
<1>11. OK(Failed(n), q)
  <2>1. Exploring(n) /\ Pending(n.ex)
    BY <1>6 DEF Exploring
  <2>2. LET u == Failed(n) IN Exploring(u) /\ u.ex = Remembered(s.ex) /\ u.g = NoGoTo /\ u.ended = "no"
    BY <1>6, <2>1, FailedFields
  <2> QED BY <1>3, <1>7, <2>2
<1>12. OK(Marked(n, s.ex.target.point), q)
  <2>1. LET u == Marked(n, s.ex.target.point) IN u \in Behaviors /\ u.ex = s.ex /\ u.g = NoGoTo /\ u.ended = "no"
    BY <1>6, MarkingKeeps
  <2> QED BY <1>3, <1>7, <2>1 DEF Exploring
<1>13. ASSUME o.step # "running" PROVE OK(Ends(n, o.step), q)
  <2>1. o.step \in Endings /\ o.step \notin Successes
    BY <1>1, <1>7, <1>13
  <2>2. LET u == Ends(n, o.step) IN u \in Behaviors /\ u.ex = n.ex /\ u.g = n.g /\ u.ended = o.step
    BY <1>6, <2>1, BehaviorFields
  <2> QED BY <1>3, <1>6, <2>1, <2>2 DEF Exploring
<1>14. \E u, P : OK(u, P) /\ r = Step(u, P, o.pos, o.thrown)
  <2>8. o.thrown = TRUE \/ o.thrown = FALSE
    BY <1>1, OutcomeFields
  <2>1. CASE o.thrown
    <3>1. r = Step(t, o.p, o.pos, TRUE)
      BY <2>1 DEF AfterGoTo, Stepped, t
    <3> QED BY <1>8, <3>1, <2>8, <2>1
  <2>2. CASE ~o.thrown /\ o.step = "running"
    <3>1. r = Step(t, o.p, o.pos, FALSE)
      BY <2>2 DEF AfterGoTo, Stepped, t
    <3> QED BY <1>8, <3>1, <2>8, <2>2
  <2>3. CASE ~o.thrown /\ o.step = "reflex"
    <3>1. r = Step(Ends(t, "reflex"), o.p, o.pos, FALSE)
      BY <2>3 DEF AfterGoTo, Stepped, t
    <3> QED BY <1>9, <3>1, <2>8, <2>3
  <2>4. CASE ~o.thrown /\ o.step = "succeeded"
    <3>1. r = Step(n, q, o.pos, FALSE)
      BY <2>4 DEF AfterGoTo, Stepped, n, q
    <3> QED BY <1>10, <3>1, <2>8, <2>4
  <2>5. CASE ~o.thrown /\ o.step \in {"unreachable", "planning_budget"}
    <3>1. r = Step(Failed(n), q, o.pos, FALSE)
      BY <2>5 DEF AfterGoTo, Stepped, n, q
    <3> QED BY <1>11, <3>1, <2>8, <2>5
  <2>6. CASE ~o.thrown /\ o.step = "kinematically_infeasible"
    <3>1. r = Step(Marked(n, s.ex.target.point), q, o.pos, FALSE)
      BY <2>6 DEF AfterGoTo, Stepped, n, q
    <3> QED BY <1>12, <3>1, <2>8, <2>6
  <2>7. CASE ~o.thrown /\ o.step \notin {"running", "reflex", "succeeded", "unreachable", "planning_budget",
                                         "kinematically_infeasible"}
    <3>1. r = Step(Ends(n, o.step), q, o.pos, FALSE)
      BY <2>7 DEF AfterGoTo, Stepped, n, q
    <3> QED BY <1>13, <2>7, <3>1, <2>8
  <2> QED BY <2>1, <2>2, <2>3, <2>4, <2>5, <2>6, <2>7
<1>15. PICK u, P : OK(u, P) /\ r = Step(u, P, o.pos, o.thrown)
  BY <1>14
<1>16. r.s = u /\ r.p = P /\ r.pos = o.pos /\ r.thrown = o.thrown /\ o.thrown \in BOOLEAN
  BY <1>1, <1>15, OutcomeFields
<1>17. u.ex.failures = ex.failures \/ \E x : Pending(x) /\ x.failures = ex.failures /\ u.ex = Remembered(x)
  BY <1>15
<1>18. q = Stopped(o.g, o.p)
  BY DEF q
<1> QED BY <1>1, <1>15, <1>16, <1>17, <1>18 DEF ExploreStep

\* A goTo has a phase of its own.
LEMMA GoToIsOne == NoGoTo \notin GoToState
<1>1. NoGoTo.phase = "none"
  BY DEF NoGoTo
<1> QED BY <1>1 DEF GoToState

\* A step begins with an outcome that agrees with the planner.
LEMMA OutcomeGood ==
  ASSUME NEW G \in GoToState, NEW P, NEW at \in Int, GoToIs(G, P)
  PROVE  Good(Outcome(G, P, at)) /\ Running(Outcome(G, P, at))
<1> DEFINE o == Outcome(G, P, at)
<1>1. o.g = G /\ o.p = P /\ o.step = "running" /\ o.thrown = FALSE
  BY DEF Outcome
<1>2. o \in OutcomeState
  <2>1. "running" \in Codes
    BY DEF Codes
  <2> QED BY <2>1 DEF Outcome, OutcomeState, GoToIs, GoodPlanner
<1>3. G # NoGoTo
  BY GoToIsOne
<1> HIDE DEF o
<1>4. GoToOK(G) /\ PlannerOK(P) /\ Agrees(G, P)
  BY <1>3 DEF GoToIs, GoodPlanner
<1>5. Good(o)
  BY <1>1, <1>2, <1>4 DEF Good
<1> QED BY <1>1, <1>5 DEF Running, o

\* A tame goTo steps straight, and what a straight step leaves is tame.
LEMMA OutcomeStraight ==
  ASSUME NEW G, G # NoGoTo, NEW P, NEW at, Tame(G, P)
  PROVE  Straight(setting.vehicle, Outcome(G, P, at))
BY DEF Tame, Straight, Outcome

\* ... whether its goTo goes on or is stopped.
LEMMA StraightTame ==
  ASSUME NEW o, Good(o), Straight(setting.vehicle, o), NEW G \in {NoGoTo, o.g}, NEW P \in {o.p, Stopped(o.g, o.p)}
  PROVE  ~o.thrown /\ Tame(G, P)
<1>1. o.p \in PlannerState
  BY OutcomeFields DEF Good
<1> QED BY <1>1, StoppedLegs DEF Tame, Straight

\* What explore works on is the state of the action.
LEMMA NowIs ==
  ASSUME TypeOK, GoToIs(g, p), NEW x \in {NoExplore} \cup ExState, ex = x
  PROVE  /\ Now \in Behaviors /\ Now.ex = ex /\ Now.g = g /\ Now.temporary = temporary /\ Now.ended = "no"
         /\ Now.marks = marks
<1>1. "no" \in Endings
  BY DEF Endings
<1> QED BY <1>1 DEF Now, Behaviors, TypeOK, GoToIs

\* A step of explore: a selection if it has no goTo, and a step of the goTo.
LEMMA StepExploreIs ==
  ASSUME ExploreInv, action = "explore", NEW r \in StepExplore
  PROVE  ExploreStep(r) /\ (Apt(setting.vehicle) /\ Tame(g, p) => ~r.thrown /\ Tame(r.s.g, r.p))
<1>1. /\ TypeOK /\ GoToIs(g, p) /\ ex \in ExState /\ (g # NoGoTo => Pending(ex))
      /\ frontier \subseteq Cells /\ hidden \subseteq Cells /\ pos \in Int /\ setting.vehicle \in Vehicles
  <2>1. setting \in Settings => setting.vehicle \in Vehicles
    BY ExploreAssumption
  <2> QED BY <2>1 DEF ExploreInv, TypeOK, OfAction
<1>2. /\ Exploring(Now) /\ Now.ex = ex /\ Now.g = g /\ Now.ended = "no"
  BY <1>1, NowIs DEF Exploring
<1> DEFINE s == IF g = NoGoTo THEN Select(Now) ELSE Now
<1>3. /\ Exploring(s) /\ s.ex.failures = ex.failures
      /\ s.g = NoGoTo \/ (s.g \in GoToState /\ s.ended = "no" /\ Pending(s.ex))
      /\ GoToIs(s.g, p)
      /\ s.ended # "no" => InScope(Now) = {}
      /\ Tame(g, p) => Tame(s.g, p)
  <2>1. CASE g = NoGoTo
    <3>1. Picked(Now, Select(Now)) /\ (Select(Now).ended # "no" => InScope(Now) = {})
      BY <1>1, <1>2, <2>1, SelectPicks
    <3>2. GoToIs(s.g, p)
      <4>1. CASE s.g = NoGoTo
        BY <1>1, <2>1, <4>1
      <4>2. CASE s.g # NoGoTo
        <5>1. s.g \in GoToState /\ GoToOK(s.g) /\ ~s.g.asked
          BY <2>1, <3>1, <4>2 DEF Picked, Ready
        <5>2. ~g.asked
          BY <2>1, NoGoToWaits
        <5>3. Agrees(s.g, p)
          BY <1>1, <5>1, <5>2 DEF Agrees, GoToIs
        <5> QED BY <1>1, <5>1, <5>3 DEF GoToIs
      <4> QED BY <4>1, <4>2
    <3>3. Tame(g, p) => Tame(s.g, p)
      BY <2>1, <3>1 DEF Picked, Ready, Tame
    <3> QED BY <1>2, <2>1, <3>1, <3>2, <3>3 DEF Picked, Ready
  <2>2. CASE g # NoGoTo
    <3>1. g \in GoToState
      BY <1>1, <2>2 DEF GoToIs
    <3> QED BY <1>1, <1>2, <2>2, <3>1
  <2> QED BY <2>1, <2>2
<1>4. "no" \notin Successes
  BY DEF Successes
<1>5. r \in IF s.ended # "no" \/ s.g = NoGoTo THEN {Stepped(s, p, pos)}
            ELSE IF Resolved(s) THEN {Stepped(Picking(s), Stopped(s.g, p), pos)}
            ELSE {AfterGoTo(s, o) : o \in StepGoTo(setting.vehicle, Outcome(s.g, p, pos))}
  BY Zenon DEF StepExplore
<1> HIDE DEF s
<1>6. CASE s.ended # "no" \/ s.g = NoGoTo
  <2>1. r = Stepped(s, p, pos)
    BY <1>5, <1>6
  <2>2. r.s = s /\ r.p = p /\ r.pos = pos /\ r.thrown = FALSE
    BY <2>1 DEF Stepped
  <2> QED BY <1>1, <1>3, <1>4, <2>2, StoppedLegs DEF ExploreStep
<1>7. CASE s.ended = "no" /\ s.g # NoGoTo /\ Resolved(s)
  <2>1. r = Stepped(Picking(s), Stopped(s.g, p), pos)
    BY <1>5, <1>7
  <2>2. r.s = Picking(s) /\ r.p = Stopped(s.g, p) /\ r.pos = pos /\ r.thrown = FALSE
    BY <2>1 DEF Stepped
  <2>3. Picking(s) \in Behaviors /\ Picking(s).ex = s.ex /\ Picking(s).g = NoGoTo /\ Picking(s).ended = s.ended
    <3>1. s \in Behaviors /\ NoGoTo \in {NoGoTo} \cup GoToState
      BY <1>3 DEF Exploring
    <3>2. LET u == [s EXCEPT !.g = NoGoTo] IN
            u \in Behaviors /\ u.ex = s.ex /\ u.g = NoGoTo /\ u.ended = s.ended
      BY <3>1, BehaviorFields
    <3> QED BY <3>2 DEF Picking
  <2>4. GoToIs(NoGoTo, r.p)
    BY <1>3, <2>2, OverIs
  <2>5. Tame(s.g, p) => Tame(r.s.g, r.p)
    BY <1>1, <2>2, <2>3, StoppedLegs DEF Tame, GoToIs, GoodPlanner
  <2> QED BY <1>1, <1>3, <1>4, <1>7, <2>2, <2>3, <2>4, <2>5 DEF ExploreStep, Exploring
<1>8. CASE s.ended = "no" /\ s.g # NoGoTo /\ ~Resolved(s)
  <2>1. PICK o \in StepGoTo(setting.vehicle, Outcome(s.g, p, pos)) : r = AfterGoTo(s, o)
    BY <1>5, <1>8
  <2>2. Good(Outcome(s.g, p, pos)) /\ Running(Outcome(s.g, p, pos))
    BY <1>1, <1>3, <1>8, OutcomeGood
  <2>3. Good(o)
    BY <1>1, <2>1, <2>2, StepGoToGood
  <2>4. ExploreStep(r) /\ r.s.g \in {NoGoTo, o.g} /\ r.p \in {o.p, Stopped(o.g, o.p)} /\ r.thrown = o.thrown
    BY <1>1, <1>3, <1>8, <2>1, <2>3, AfterGoToSteps
  <2>5. ASSUME Apt(setting.vehicle), Tame(g, p) PROVE ~r.thrown /\ Tame(r.s.g, r.p)
    <3>1. Straight(setting.vehicle, Outcome(s.g, p, pos))
      BY <1>3, <1>8, <2>5, OutcomeStraight
    <3>2. Straight(setting.vehicle, o)
      BY <2>1, <2>2, <2>5, <3>1, StepGoToStraight
    <3> QED BY <2>3, <2>4, <3>2, StraightTame
  <2> QED BY <2>4, <2>5
<1> QED BY <1>6, <1>7, <1>8

\* What a step of a goTo action leaves behind.
PlainStep(r) ==
  /\ r.s \in Behaviors /\ r.s.ex = NoExplore /\ r.s.g \in GoToState /\ r.s.temporary = {}
  /\ GoToIs(r.s.g, r.p) /\ r.pos \in Int /\ r.thrown \in BOOLEAN

\* A step of a goTo action.
LEMMA StepPlainIs ==
  ASSUME ExploreInv, action = "goTo", NEW r \in StepPlainGoTo
  PROVE  PlainStep(r) /\ (Apt(setting.vehicle) /\ Tame(g, p) => ~r.thrown /\ Tame(r.s.g, r.p))
<1>1. /\ TypeOK /\ GoToIs(g, p) /\ ex = NoExplore /\ g \in GoToState /\ temporary = {}
      /\ frontier \subseteq Cells /\ pos \in Int /\ setting.vehicle \in Vehicles
  <2>1. setting \in Settings => setting.vehicle \in Vehicles
    BY ExploreAssumption
  <2> QED BY <2>1 DEF ExploreInv, TypeOK, OfAction
<1>2. PICK o \in StepGoTo(setting.vehicle, Outcome(g, p, pos)) :
        r = LET t == [Now EXCEPT !.g = o.g, !.ended = IF o.step = "running" THEN "no" ELSE o.step]
            IN  [Stepped(IF o.told THEN Marked(t, g.goal) ELSE t, o.p, o.pos) EXCEPT !.thrown = o.thrown]
  BY DEF StepPlainGoTo
<1>3. Good(o) /\ (Apt(setting.vehicle) /\ Tame(g, p) => Straight(setting.vehicle, o))
  <2>1. Good(Outcome(g, p, pos)) /\ Running(Outcome(g, p, pos)) /\ g # NoGoTo
    BY <1>1, OutcomeGood, GoToIsOne
  <2> QED BY <1>1, <1>2, <2>1, StepGoToGood, StepGoToStraight, OutcomeStraight
<1>4. o \in OutcomeState /\ o.g \in GoToState /\ o.pos \in Int /\ o.step \in Codes /\ o.thrown \in BOOLEAN
  BY <1>3, OutcomeFields DEF Good
<1>5. GoToIs(o.g, o.p)
  BY <1>3, <1>4, OutcomeFields DEF Good, GoToIs, GoodPlanner
<1> DEFINE e == IF o.step = "running" THEN "no" ELSE o.step
           y == [Now EXCEPT !.g = o.g]
           t == [y EXCEPT !.ended = e]
           u == IF o.told THEN Marked(t, g.goal) ELSE t
<1>6. e \in Endings
  BY <1>4 DEF Endings
<1>7. /\ Now \in Behaviors /\ Now.ex = NoExplore /\ Now.temporary = {}
  BY <1>1, NowIs
<1>8. [Now EXCEPT !.g = o.g, !.ended = e] = t
  BY <1>7 DEF Behaviors
<1> HIDE DEF e
<1>9. y \in Behaviors /\ y.ex = NoExplore /\ y.temporary = {} /\ y.g = o.g
  BY <1>4, <1>7, BehaviorFields
<1> HIDE DEF y
<1>10. t \in Behaviors /\ t.ex = NoExplore /\ t.temporary = {} /\ t.g = o.g
  <2>1. t = Ends(y, e)
    BY DEF Ends
  <2>2. LET z == Ends(y, e) IN z \in Behaviors /\ z.ex = y.ex /\ z.g = y.g /\ z.temporary = y.temporary
    BY <1>6, <1>9, BehaviorFields
  <2> QED BY <1>9, <2>1, <2>2
<1>11. r = [Stepped(u, o.p, o.pos) EXCEPT !.thrown = o.thrown]
  BY <1>2, <1>8 DEF e
<1> HIDE DEF t
<1>12. u \in Behaviors /\ u.ex = NoExplore /\ u.temporary = {} /\ u.g = o.g
  BY <1>1, <1>10, MarkingKeeps
<1> HIDE DEF u
<1>13. r.s = u /\ r.p = o.p /\ r.pos = o.pos /\ r.thrown = o.thrown
  BY <1>11 DEF Stepped
<1>14. Apt(setting.vehicle) /\ Tame(g, p) => ~r.thrown /\ Tame(r.s.g, r.p)
  BY <1>3, <1>12, <1>13, StraightTame
<1> QED BY <1>4, <1>5, <1>12, <1>13, <1>14 DEF PlainStep

(***************************************************************************)
(* The invariant                                                           *)
(***************************************************************************)
LEMMA InitInv == Init => ExploreInv
<1> SUFFICES ASSUME Init PROVE ExploreInv
  OBVIOUS
<1>1. TypeOK
  BY ExploreAssumption, CellsAreNumbers DEF Init, TypeOK
<1>2. NoPlanner \in PlannerState
  BY DEF NoPlanner, PlannerState
<1>3. NoPlanner.searching = FALSE /\ NoPlanner.legs = NoLegs /\ NoPlanner.outcome = "none"
  BY DEF NoPlanner
<1>4. GoToIs(NoGoTo, NoPlanner)
  BY <1>2, <1>3, LegsOff, NoGoToWaits DEF GoToIs, GoodPlanner, PlannerOK, Agrees
<1>5. GoToIs(g, p) /\ OfAction
  BY <1>4 DEF Init, OfAction
<1> QED BY <1>1, <1>5 DEF ExploreInv

\* The planner goes on.
LEMMA PlanInv == ExploreInv /\ Plan => ExploreInv'
<1> SUFFICES ASSUME ExploreInv, Plan PROVE ExploreInv'
  OBVIOUS
<1>1. TypeOK'
  BY DEF ExploreInv, TypeOK, Plan
<1>2. GoToIs(g, p')
  <2>1. GoodPlanner(p) /\ p' \in Advanced(p)
    BY DEF ExploreInv, GoToIs, Plan
  <2>2. GoodPlanner(p') /\ (Awaited(p') <=> Awaited(p))
    BY <2>1, AdvancedGood
  <2> QED BY <2>2 DEF ExploreInv, GoToIs, Agrees, Awaited
<1>3. GoToIs(g, p)'
  BY <1>2 DEF Plan
<1>4. OfAction'
  BY DEF ExploreInv, OfAction, Plan, Pending, FailedSearches
<1> QED BY <1>1, <1>3, <1>4 DEF ExploreInv

\* An action ends: nothing of it stays.
LEMMA EndedLeaves ==
  ASSUME NEW s, NEW q, NEW how, Ended(s, q, how), GoToIs(s.g, q), action # "explore" => s.temporary = {}
  PROVE  GoToIs(g, p)' /\ OfAction' /\ action' = "none" /\ temporary' = {} /\ result' = how
<1>1. GoToIs(NoGoTo, Stopped(s.g, q))
  BY OverIs
<1>2. g' = NoGoTo /\ p' = Stopped(s.g, q) /\ action' = "none" /\ ex' = NoExplore /\ temporary' = {} /\ result' = how
  BY DEF Ended
<1>3. GoToIs(g, p)'
  BY <1>1, <1>2
<1>4. OfAction'
  BY <1>2 DEF OfAction
<1> QED BY <1>2, <1>3, <1>4

\* An action is stopped from outside.
LEMMA InterruptInv == ExploreInv /\ Interrupt => ExploreInv'
<1> SUFFICES ASSUME ExploreInv, Interrupt PROVE ExploreInv'
  OBVIOUS
<1>1. Ended(Now, p, "interrupted") /\ Now.g = g /\ Now.temporary = temporary
  BY DEF Interrupt, Now
<1>2. GoToIs(g, p)' /\ OfAction' /\ action' = "none" /\ temporary' = {} /\ result' = "interrupted"
  BY <1>1, EndedLeaves DEF ExploreInv, OfAction
<1>3. TypeOK'
  BY <1>2 DEF ExploreInv, TypeOK, Interrupt
<1> QED BY <1>2, <1>3 DEF ExploreInv

\* An action starts in the place of what ran.
LEMMA StartInv == ASSUME NEW act \in setting.actions PROVE ExploreInv /\ Start(act) => ExploreInv'
<1> SUFFICES ASSUME ExploreInv, Start(act) PROVE ExploreInv'
  OBVIOUS
<1>1. act \in Actions
  BY ExploreAssumption DEF ExploreInv, TypeOK
<1>2. GoToIs(NoGoTo, Stopped(g, p)) /\ Quiet(Stopped(g, p))
  BY OverIs DEF ExploreInv
<1>3. temporary' = {} /\ tried' = {} /\ result' = "none"
  BY DEF Start, ExploreInv, OfAction
<1>4. CASE act.name = "explore"
  <2>1. act \in [name : {"explore"}, scope : Int, strategy : {"nearest", "largest"}]
    BY <1>1, <1>4 DEF Actions
  <2>2. act.scope \in Int /\ act.strategy \in {"nearest", "largest"}
    BY <2>1
  <2>3. NewExplore(act.scope, act.strategy) \in ExState
    <3>1. [c \in Cells |-> [centres |-> {}, travels |-> 0]] \in [Cells -> [centres : SUBSET Int, travels : Nat]]
      OBVIOUS
    <3>2. <<0, 0>> \in Int \X Int /\ "iterate" \in Modes
      BY DEF Modes
    <3> QED BY <2>2, <3>1, <3>2 DEF NewExplore, ExState
  <2>4. action' = "explore" /\ g' = NoGoTo /\ ex' = NewExplore(act.scope, act.strategy) /\ p' = Stopped(g, p)
    BY <1>4 DEF Start
  <2>5. GoToIs(g, p)'
    BY <1>2, <2>4
  <2>6. OfAction'
    BY <1>3, <2>3, <2>4 DEF OfAction, Remembers, FailedSearches
  <2>7. TypeOK'
    BY <1>3, <2>4 DEF ExploreInv, TypeOK, Start
  <2> QED BY <2>5, <2>6, <2>7 DEF ExploreInv
<1>5. CASE act.name # "explore"
  <2>1. act \in [name : {"goTo"}, goal : Cells, returning : BOOLEAN]
    BY <1>1, <1>5 DEF Actions
  <2>2. act.goal \in Int /\ act.returning \in BOOLEAN /\ act.name = "goTo"
    BY <2>1, CellsAreNumbers
  <2> DEFINE h == NewGoTo(act.goal, act.returning)
  <2>3. h \in GoToState /\ GoToOK(h) /\ ~h.asked
    BY <2>2, NewGoToState
  <2>4. action' = "goTo" /\ g' = h /\ ex' = NoExplore /\ p' = Stopped(g, p)
    BY <1>5, <2>2 DEF Start
  <2> HIDE DEF h
  <2>5. GoToIs(g, p)'
    <3>1. Agrees(h, Stopped(g, p))
      BY <1>2, <2>3, NoGoToWaits DEF GoToIs, Agrees
    <3>2. GoToIs(h, Stopped(g, p))
      BY <1>2, <2>3, <3>1 DEF GoToIs
    <3> QED BY <2>4, <3>2
  <2>6. OfAction'
    BY <1>3, <2>3, <2>4 DEF OfAction
  <2>7. TypeOK'
    BY <1>3, <2>4 DEF ExploreInv, TypeOK, Start
  <2> QED BY <2>5, <2>6, <2>7 DEF ExploreInv
<1> QED BY <1>4, <1>5

\* Sensing and the planning view change under it.
LEMMA SenseInv == ExploreInv /\ Sense => ExploreInv'
<1> SUFFICES ASSUME ExploreInv, Sense PROVE ExploreInv'
  OBVIOUS
<1>1. /\ hidden' \subseteq Cells /\ frontier' \subseteq Cells
  <2>1. hidden \subseteq Cells /\ frontier \subseteq Cells
    BY DEF ExploreInv, TypeOK
  <2>2. PICK seen \in SUBSET (hidden \cap Near(pos)) :
          /\ hidden' = hidden \ seen
          /\ \E new \in SUBSET (seen \ {pos}), resolved \in SUBSET (frontier \cap Near(pos)) :
               frontier' = (frontier \ (resolved \cup {pos})) \cup new
    BY DEF Sense
  <2> QED BY <2>1, <2>2
<1>2. /\ UNCHANGED <<setting, pos, action, ex, result, thrown, actions>> /\ phase' = "plan"
  BY DEF Sense
<1>a. tried' \subseteq tried => (action = "explore" => Remembers(ex, FailedSearches)')
  BY <1>2 DEF ExploreInv, OfAction, Remembers, FailedSearches
<1>3. CASE UNCHANGED <<blocked, marks, temporary, g, p, tried, changes>>
  <2>1. TypeOK'
    BY <1>1, <1>2, <1>3 DEF ExploreInv, TypeOK
  <2>2. GoToIs(g, p)'
    BY <1>3 DEF ExploreInv
  <2>3. OfAction'
    BY <1>2, <1>3, <1>a DEF ExploreInv, OfAction, Pending
  <2> QED BY <2>1, <2>2, <2>3 DEF ExploreInv
<1>4. CASE /\ changes < setting.changes /\ changes' = changes + 1
           /\ \E c \in Near(pos) :
                /\ blocked' \in {blocked, blocked \cup {c}, blocked \ {c}}
                /\ marks' = Unaffected(marks, c) /\ temporary' = Unaffected(temporary, c)
                /\ tried' = {t \in tried : t.group = Unaffected(t.group, c)}
           /\ p' = MapChanged(p)
           /\ g' = IF g.end = NoPath THEN g ELSE [g EXCEPT !.stale = TRUE]
  <2>1. PICK c \in Near(pos) : /\ blocked' \in {blocked, blocked \cup {c}, blocked \ {c}}
                               /\ marks' = Unaffected(marks, c) /\ temporary' = Unaffected(temporary, c)
                               /\ tried' = {t \in tried : t.group = Unaffected(t.group, c)}
    BY <1>4
  <2>2. /\ c \in Cells /\ marks' \subseteq marks /\ temporary' \subseteq temporary
        /\ blocked' \subseteq Cells /\ tried' \subseteq tried
    BY <2>1 DEF Near, Unaffected, ExploreInv, TypeOK
  <2>3. TypeOK'
    BY <1>1, <1>2, <1>4, <2>2 DEF ExploreInv, TypeOK
  <2> DEFINE q == [p EXCEPT !.changed = p.searching]
  <2>4. p' = q /\ GoodPlanner(q) /\ (Awaited(q) <=> Awaited(p))
    <3>1. p' = q
      BY <1>4 DEF MapChanged
    <3>2. GoodPlanner(p) /\ p.searching \in BOOLEAN
      BY DEF ExploreInv, GoToIs, GoodPlanner, PlannerState
    <3>3. GoodPlanner(q) /\ q.searching = p.searching /\ q.legs = p.legs /\ q.outcome = p.outcome
      BY <3>2, WaitsGood
    <3> QED BY <3>1, <3>3 DEF Awaited
  <2> HIDE DEF q
  <2>5. /\ g' = NoGoTo \/ (g' \in GoToState /\ GoToOK(g'))
        /\ g'.asked = g.asked
        /\ g = NoGoTo => g' = NoGoTo
        /\ g \in GoToState => g' \in GoToState
    <3>1. CASE g.end = NoPath
      <4>1. g' = g
        BY <1>4, <3>1
      <4> QED BY <4>1 DEF ExploreInv, GoToIs
    <3>2. CASE g.end # NoPath
      <4> DEFINE h == [g EXCEPT !.stale = TRUE]
      <4>1. g' = h
        BY <1>4, <3>2
      <4>2. g \in GoToState /\ GoToOK(g) /\ g # NoGoTo
        BY <3>2, NoGoToWaits DEF ExploreInv, GoToIs
      <4>3. h \in GoToState
        BY <4>2 DEF GoToState
      <4>4. h.asked = g.asked /\ h.reverse = g.reverse /\ h.end = g.end /\ h.backing = g.backing /\ h.phase = g.phase
        BY <4>2 DEF GoToState
      <4> HIDE DEF h
      <4>5. GoToOK(h)
        BY <4>2, <4>4 DEF GoToOK
      <4> QED BY <4>1, <4>2, <4>3, <4>4, <4>5
    <3> QED BY <3>1, <3>2
  <2>6. Agrees(g', p')
    BY <2>4, <2>5 DEF ExploreInv, GoToIs, Agrees, Awaited
  <2>7. GoToIs(g', p')
    BY <2>4, <2>5, <2>6 DEF GoToIs
  <2>8. OfAction'
    BY <1>2, <1>a, <2>2, <2>5 DEF ExploreInv, OfAction, Pending
  <2> QED BY <2>3, <2>7, <2>8 DEF ExploreInv
<1> QED BY <1>3, <1>4 DEF Sense

\* The action's step in a tick, for explore.
LEMMA ActExplores ==
  ASSUME ExploreInv, Act, action = "explore"
  PROVE  /\ ExploreInv'
         /\ action' = "none" /\ result' \in Successes => InScope(Now) = {}
         /\ action' = "explore" => ex'.failures = ex.failures \/ Search(ex') \notin FailedSearches
<1>1. PICK r \in StepExplore :
        /\ pos' = r.pos /\ marks' = r.s.marks /\ thrown' = r.thrown
        /\ IF r.s.ended # "no" THEN Ended(r.s, r.p, r.s.ended)
           ELSE /\ g' = r.s.g /\ p' = r.p /\ ex' = r.s.ex /\ temporary' = r.s.temporary
                /\ tried' = IF action = "explore" /\ r.s.ex.failures # ex.failures
                         THEN tried \cup {[group |-> r.s.ex.target.cells, search |-> Search(r.s.ex)]} ELSE tried
                /\ UNCHANGED <<action, result>>
  BY DEF Act
<1>2. ExploreStep(r)
  BY StepExploreIs
<1>3. /\ r.s \in Behaviors /\ r.s.ex \in ExState /\ GoToIs(r.s.g, r.p) /\ r.pos \in Int /\ r.thrown \in BOOLEAN
      /\ r.s.marks \subseteq Cells /\ r.s.temporary \subseteq Cells /\ r.s.ended \in Endings
  BY <1>2, BehaviorFields DEF ExploreStep, Exploring
<1>4. phase' = "sense" /\ UNCHANGED <<setting, frontier, hidden, blocked, actions, changes>>
  BY DEF Act
<1>5. CASE r.s.ended # "no"
  <2>1. Ended(r.s, r.p, r.s.ended)
    BY <1>1, <1>5
  <2>2. GoToIs(g, p)' /\ OfAction' /\ action' = "none" /\ temporary' = {} /\ result' = r.s.ended
    BY <1>3, <2>1, EndedLeaves
  <2>3. TypeOK'
    BY <1>1, <1>3, <1>4, <2>2 DEF ExploreInv, TypeOK
  <2>4. result' \in Successes => InScope(Now) = {}
    BY <1>2, <2>2 DEF ExploreStep
  <2> QED BY <2>2, <2>3, <2>4 DEF ExploreInv
<1>6. CASE r.s.ended = "no"
  <2>1. /\ g' = r.s.g /\ p' = r.p /\ ex' = r.s.ex /\ temporary' = r.s.temporary
        /\ tried' = IF r.s.ex.failures # ex.failures
                 THEN tried \cup {[group |-> r.s.ex.target.cells, search |-> Search(r.s.ex)]} ELSE tried
        /\ action' = action /\ result' = result
    BY <1>1, <1>6
  <2>2. TypeOK'
    BY <1>1, <1>3, <1>4, <2>1 DEF ExploreInv, TypeOK
  <2>3. GoToIs(g, p)'
    BY <1>3, <2>1
  <2>4. ex \in ExState /\ Remembers(ex, FailedSearches) /\ action' = "explore"
    BY <2>1 DEF ExploreInv, OfAction
  <2>5. /\ Remembers(r.s.ex, FailedSearches')
        /\ r.s.ex.failures = ex.failures \/ Search(r.s.ex) \notin FailedSearches
    <3>1. CASE r.s.ex.failures = ex.failures
      <4>1. FailedSearches' = FailedSearches
        BY <2>1, <3>1 DEF FailedSearches
      <4>2. Remembers(r.s.ex, FailedSearches)
        BY <2>4, <3>1 DEF Remembers
      <4> QED BY <3>1, <4>1, <4>2
    <3>2. CASE r.s.ex.failures # ex.failures
      <4>1. PICK x : Pending(x) /\ x.failures = ex.failures /\ r.s.ex = Remembered(x)
        BY <1>2, <3>2 DEF ExploreStep
      <4>2. Remembers(x, FailedSearches)
        BY <2>4, <4>1 DEF Remembers
      <4>3. Search(x) \notin FailedSearches /\ Remembers(r.s.ex, FailedSearches \cup {Search(x)})
        BY <4>1, <4>2, FailureIsNew
      <4>4. Search(r.s.ex) = Search(x)
        BY <4>1, RememberedFields
      <4>5. FailedSearches' = FailedSearches \cup {Search(x)}
        <5> DEFINE t == [group |-> r.s.ex.target.cells, search |-> Search(r.s.ex)]
        <5>1. tried' = tried \cup {t} /\ t.search = Search(x)
          BY <2>1, <3>2, <4>4
        <5> HIDE DEF t
        <5> QED BY <5>1 DEF FailedSearches
      <4> QED BY <4>3, <4>4, <4>5
    <3> QED BY <3>1, <3>2
  <2>6. r.s.g # NoGoTo => Pending(r.s.ex)
    BY <1>2 DEF ExploreStep
  <2>7. OfAction'
    BY <1>3, <2>1, <2>4, <2>5, <2>6 DEF OfAction
  <2> QED BY <2>1, <2>2, <2>3, <2>4, <2>5, <2>7 DEF ExploreInv
<1> QED BY <1>5, <1>6

\* For a goTo action, and with none.
LEMMA ActDrives ==
  ASSUME ExploreInv, Act, action # "explore"
  PROVE  ExploreInv'
<1>1. PICK r \in IF action = "goTo" THEN StepPlainGoTo ELSE {Stepped(Now, p, pos)} :
        /\ pos' = r.pos /\ marks' = r.s.marks /\ thrown' = r.thrown
        /\ IF r.s.ended # "no" THEN Ended(r.s, r.p, r.s.ended)
           ELSE /\ g' = r.s.g /\ p' = r.p /\ ex' = r.s.ex /\ temporary' = r.s.temporary
                /\ tried' = tried
                /\ UNCHANGED <<action, result>>
  <2>1. action \in {"none", "goTo"}
    BY DEF ExploreInv, TypeOK
  <2> QED BY <2>1 DEF Act
<1>2. /\ r.s \in Behaviors /\ r.s.ex = NoExplore /\ r.s.temporary = {} /\ GoToIs(r.s.g, r.p)
      /\ r.pos \in Int /\ r.thrown \in BOOLEAN
      /\ action = "goTo" => r.s.g \in GoToState
      /\ action = "none" => r.s.g = NoGoTo
  <2>1. CASE action = "goTo"
    BY <1>1, <2>1, StepPlainIs DEF PlainStep
  <2>2. CASE action # "goTo"
    <3>1. r = Stepped(Now, p, pos)
      BY <1>1, <2>2
    <3>2. TypeOK /\ GoToIs(g, p) /\ ex = NoExplore /\ temporary = {} /\ (action = "none" => g = NoGoTo)
      BY DEF ExploreInv, OfAction
    <3>3. Now \in Behaviors /\ Now.ex = NoExplore /\ Now.g = g /\ Now.temporary = {}
      BY <3>2, NowIs
    <3> HIDE DEF Now
    <3>4. r.s = Now /\ r.p = p /\ r.pos = pos /\ r.thrown = FALSE
      BY <3>1 DEF Stepped
    <3>5. pos \in Int
      BY <3>2 DEF TypeOK
    <3> QED BY <2>2, <3>2, <3>3, <3>4, <3>5
  <2> QED BY <2>1, <2>2
<1>3. r.s.marks \subseteq Cells /\ r.s.ended \in Endings
  BY <1>2, BehaviorFields
<1>4. phase' = "sense" /\ UNCHANGED <<setting, frontier, hidden, blocked, actions, changes>>
  BY DEF Act
<1>5. CASE r.s.ended # "no"
  <2>1. Ended(r.s, r.p, r.s.ended)
    BY <1>1, <1>5
  <2>2. GoToIs(g, p)' /\ OfAction' /\ action' = "none" /\ temporary' = {} /\ result' = r.s.ended
    BY <1>2, <2>1, EndedLeaves
  <2>3. TypeOK'
    BY <1>1, <1>2, <1>3, <1>4, <2>2 DEF ExploreInv, TypeOK
  <2> QED BY <2>2, <2>3 DEF ExploreInv
<1>6. CASE r.s.ended = "no"
  <2>1. /\ g' = r.s.g /\ p' = r.p /\ ex' = r.s.ex /\ temporary' = r.s.temporary
        /\ action' = action /\ result' = result
    BY <1>1, <1>6
  <2>2. TypeOK'
    BY <1>1, <1>2, <1>3, <1>4, <2>1 DEF ExploreInv, TypeOK
  <2>3. GoToIs(g, p)' /\ OfAction'
    BY <1>2, <2>1 DEF OfAction
  <2> QED BY <2>2, <2>3 DEF ExploreInv
<1> QED BY <1>5, <1>6

\* Every step keeps the invariant.
LEMMA NextInv == ExploreInv /\ [Next]_vars => ExploreInv'
<1>1. CASE Act
  BY <1>1, ActExplores, ActDrives
<1>2. CASE UNCHANGED vars
  <2> SUFFICES ASSUME ExploreInv, UNCHANGED vars PROVE ExploreInv'
    BY <1>2
  <2>1. TypeOK'
    BY DEF ExploreInv, TypeOK, vars
  <2>2. GoToIs(g, p)'
    BY DEF ExploreInv, vars
  <2>3. OfAction'
    BY DEF ExploreInv, OfAction, Pending, FailedSearches, vars
  <2> QED BY <2>1, <2>2, <2>3 DEF ExploreInv
<1> QED BY <1>1, <1>2, PlanInv, SenseInv, InterruptInv, StartInv DEF Next

\* The inductive invariant holds throughout.
THEOREM ExploreAlways == Spec => []ExploreInv
<1>1. Init => ExploreInv
  BY InitInv
<1>2. ExploreInv /\ [Next]_vars => ExploreInv'
  BY NextInv
<1> QED BY <1>1, <1>2, PTL DEF Spec

\* Every variable keeps its type.
THEOREM ExploreTypeOK == Spec => []TypeOK
<1>1. ExploreInv => TypeOK
  BY DEF ExploreInv
<1> QED BY <1>1, ExploreAlways, PTL

\* Nothing of an action stays behind when it ends, and a goTo that waits for an answer has
\* something to wait for: however planners, sensors and the map behave (setBehavior, stop()
\* and takeResult of the planner's port).
THEOREM NothingStaysBehind == Spec => []NothingOutlivesTheAction
<1>1. ExploreInv => NothingOutlivesTheAction
  BY DEF ExploreInv, OfAction, GoToIs, Agrees, NothingOutlivesTheAction
<1> QED BY <1>1, ExploreAlways, PTL

\* An exploration ends successfully only when no group of its scope is left that it has not
\* marked for good (selectGroup of runtime.ts).
THEOREM SuccessLeavesNothing == Spec => EndsWhenNothingIsLeft
<1> DEFINE A == action = "explore" /\ action' = "none" /\ result' \in Successes => InScope(Now) = {}
<1>1. ASSUME ExploreInv, Next PROVE A
  <2> SUFFICES ASSUME action = "explore", action' = "none", result' \in Successes PROVE InScope(Now) = {}
    OBVIOUS
  <2>1. CASE Plan
    BY <2>1 DEF Plan
  <2>2. CASE Act
    BY <1>1, <2>2, ActExplores
  <2>3. CASE Sense
    BY <2>3 DEF Sense
  <2>4. CASE Interrupt
    <3>1. result' = "interrupted"
      BY <2>4 DEF Interrupt, Ended
    <3> QED BY <3>1 DEF Successes
  <2>5. ASSUME NEW act \in setting.actions, Start(act) PROVE FALSE
    <3>1. act \in Actions
      BY <1>1, ExploreAssumption DEF ExploreInv, TypeOK
    <3>2. act.name \in {"explore", "goTo"}
      BY <3>1 DEF Actions
    <3> QED BY <2>5, <3>2 DEF Start
  <2> QED BY <1>1, <2>1, <2>2, <2>3, <2>4, <2>5 DEF Next
<1>2. ExploreInv /\ [Next]_vars => [A]_vars
  BY <1>1
<1> HIDE DEF A
<1>3. Spec => [][A]_vars
  BY <1>2, ExploreAlways, PTL DEF Spec
<1> QED BY <1>3 DEF EndsWhenNothingIsLeft, A

\* No search that failed is made again while the map stays as it is around its group: the
\* group's failures bar the centre it came from, or the window has grown (recordFailure and travelWindow of runtime.ts).
THEOREM NoSearchFailsTwice == Spec => NeverTheSameTwice
<1> DEFINE A == action = "explore" /\ action' = "explore" /\ Act
                  => ex'.failures = ex.failures \/ Search(ex') \notin FailedSearches
<1>1. ExploreInv => A
  BY ActExplores
<1>2. ExploreInv /\ [Next]_vars => [A]_vars
  BY <1>1
<1> HIDE DEF A
<1>3. Spec => [][A]_vars
  BY <1>2, ExploreAlways, PTL DEF Spec
<1> QED BY <1>3 DEF NeverTheSameTwice, A

(***************************************************************************)
(* Who may grow a path                                                     *)
(***************************************************************************)
\* No vehicle of the runs both backs off and takes a plan leg by leg.
NoneBacksOffOnLegs == \A s \in Settings : Apt(s.vehicle)

\* A step of the action, with none of it left when it ends.
LEMMA ActTame ==
  ASSUME ExploreInv, Act, Apt(setting.vehicle), Tame(g, p)
  PROVE  ~thrown' /\ Tame(g, p)'
<1>1. PICK r \in CASE action = "explore" -> StepExplore [] action = "goTo" -> StepPlainGoTo
                    [] OTHER -> {Stepped(Now, p, pos)} :
        /\ thrown' = r.thrown
        /\ IF r.s.ended # "no" THEN Ended(r.s, r.p, r.s.ended) ELSE g' = r.s.g /\ p' = r.p
  BY DEF Act
<1>2. ~r.thrown /\ Tame(r.s.g, r.p) /\ r.p \in PlannerState
  <2>1. CASE action = "explore"
    BY <1>1, <2>1, StepExploreIs DEF ExploreStep, GoToIs, GoodPlanner
  <2>2. CASE action = "goTo"
    BY <1>1, <2>2, StepPlainIs DEF PlainStep, GoToIs, GoodPlanner
  <2>3. CASE action \notin {"explore", "goTo"}
    <3>1. r = Stepped(Now, p, pos)
      BY <1>1, <2>3
    <3>2. r.s = Now /\ r.p = p /\ r.thrown = FALSE
      BY <3>1 DEF Stepped
    <3>3. Now.g = g
      BY DEF Now
    <3> QED BY <3>2, <3>3 DEF ExploreInv, GoToIs, GoodPlanner
  <2> QED BY <2>1, <2>2, <2>3
<1>3. setting' = setting
  BY DEF Act
<1>4. CASE r.s.ended # "no"
  <2>1. g' = NoGoTo /\ p' = Stopped(r.s.g, r.p)
    BY <1>1, <1>4 DEF Ended
  <2> QED BY <1>1, <1>2, <1>3, <2>1, StoppedLegs DEF Tame
<1>5. CASE r.s.ended = "no"
  BY <1>1, <1>2, <1>3, <1>5 DEF Tame
<1> QED BY <1>4, <1>5

\* The other steps start, stop and change a goTo without turning it round.
LEMMA NextTame ==
  ASSUME ExploreInv, [Next]_vars, Apt(setting.vehicle), ~thrown, Tame(g, p)
  PROVE  ~thrown' /\ Tame(g, p)'
<1>1. p \in PlannerState /\ (g = NoGoTo \/ g \in GoToState)
  BY DEF ExploreInv, GoToIs, GoodPlanner
<1>2. CASE Plan
  <2>1. p' \in Advanced(p) /\ UNCHANGED <<setting, g, thrown>>
    BY <1>2 DEF Plan
  <2> QED BY <1>1, <2>1, AdvancedLegs DEF Tame
<1>3. CASE Sense
  <2>1. /\ UNCHANGED <<setting, thrown>>
        /\ \/ UNCHANGED <<g, p>>
           \/ p' = MapChanged(p) /\ g' = IF g.end = NoPath THEN g ELSE [g EXCEPT !.stale = TRUE]
    BY <1>3 DEF Sense
  <2>2. MapChanged(p).legs = p.legs
    BY <1>1 DEF MapChanged, PlannerState
  <2>3. g \in GoToState => [g EXCEPT !.stale = TRUE].reverse = g.reverse
    BY DEF GoToState
  <2> QED BY <1>1, <2>1, <2>2, <2>3, NoGoToWaits DEF Tame
<1>4. CASE Interrupt
  <2>1. g' = NoGoTo /\ p' = Stopped(Now.g, p) /\ UNCHANGED <<setting, thrown>>
    BY <1>4 DEF Interrupt, Ended
  <2> QED BY <1>1, <2>1, StoppedLegs DEF Tame
<1>5. ASSUME NEW act \in setting.actions, Start(act) PROVE ~thrown' /\ Tame(g, p)'
  <2>1. /\ p' = Stopped(g, p) /\ UNCHANGED <<setting, thrown>>
        /\ g' = NoGoTo \/ g' = NewGoTo(act.goal, act.returning)
    BY <1>5 DEF Start
  <2>2. NewGoTo(act.goal, act.returning).reverse = FALSE
    BY DEF NewGoTo
  <2> QED BY <1>1, <2>1, <2>2, StoppedLegs DEF Tame
<1>6. CASE UNCHANGED vars
  BY <1>6 DEF vars, Tame
<1> QED BY <1>2, <1>3, <1>4, <1>5, <1>6, ActTame DEF Next

\* Only a vehicle that backs off and takes its plans leg by leg can throw when a leg comes: where
\* none does both, a leg is appended to a forward path only (append of follower.ts, acceptLeg
\* of runtime.ts), for any plans, vetoes, recoveries and changes of the map.
THEOREM LegsGrowForwardPaths == NoneBacksOffOnLegs /\ Spec => []OnlyForwardPathsGrow
<1> SUFFICES ASSUME NoneBacksOffOnLegs PROVE Spec => []OnlyForwardPathsGrow
  OBVIOUS
<1> DEFINE TameInv == ExploreInv /\ ~thrown /\ Tame(g, p)
<1>1. Init => TameInv
  <2>1. NoPlanner.legs = NoLegs
    BY DEF NoPlanner
  <2> QED BY <2>1, InitInv, LegsOff DEF Init, Tame
<1>2. TameInv /\ [Next]_vars => TameInv'
  <2>1. ExploreInv => Apt(setting.vehicle)
    BY DEF ExploreInv, TypeOK, NoneBacksOffOnLegs
  <2> QED BY <2>1, NextInv, NextTame
<1>3. TameInv => OnlyForwardPathsGrow
  BY DEF OnlyForwardPathsGrow
<1> HIDE DEF TameInv
<1> QED BY <1>1, <1>2, <1>3, PTL DEF Spec
=============================================================================
