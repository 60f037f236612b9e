------------------------------ MODULE MCExplore ------------------------------
(***************************************************************************)
(* Explorations for TLC. The vehicles: a rover that only drives forward    *)
(* and plans at once, one that backs off and a drone, both with lazy plans.*)
(***************************************************************************)
EXTENDS ExploreProperties

Vehicle(kind, reverse, lazy) == [kind |-> kind, reverse |-> reverse, lazy |-> lazy]
Rover  == Vehicle("ugv", FALSE, FALSE)
Backer == Vehicle("ugv", TRUE, TRUE)
Drone  == Vehicle("uav", FALSE, TRUE)

Exploring(scope, strategy) == [name |-> "explore", scope |-> scope, strategy |-> strategy]
Anywhere == Exploring(AnyRegion, "nearest")
Largest  == Exploring(AnyRegion, "largest")
Beyond   == Exploring(1, "nearest")   \* a region that is seen later
Going(goal, returning) == [name |-> "goTo", goal |-> goal, returning |-> returning]

\* A run: the vehicle and where it stands, the frontier, hidden and blocked cells, the
\* actions, how often one is started and how often the planning view changes.
Run(vehicle, at, fr, hid, bl, acts, n, m) ==
  [vehicle |-> vehicle, pos |-> at, frontier |-> fr, hidden |-> hid, blocked |-> bl, actions |-> acts,
   starts |-> n, changes |-> m]

Runs == {
  Run(Rover, 0, {2, 4}, {}, {}, {Anywhere}, 1, 0),
  Run(Rover, 1, {0, 2, 3}, {}, {3}, {Largest}, 1, 0),
  Run(Rover, 0, {1, 4}, {3}, {}, {Beyond}, 1, 1),
  Run(Rover, 2, {}, Cells, {}, {Beyond}, 1, 0),
  Run(Backer, 0, {2, 3}, {}, {}, {Anywhere}, 1, 0),
  Run(Drone, 0, {2}, {3}, {}, {Anywhere, Going(2, TRUE)}, 2, 1)}

\* One vehicle and one group, for what its driver's asserts say.
OneGroup == {Run(Backer, 0, {2}, {}, {}, {Anywhere}, 1, 0)}
=============================================================================
