-------------------------- MODULE ExploreProperties --------------------------
(***************************************************************************)
(* What explore and its goTo must get right, whatever the planner, the     *)
(* sensors and the other parts of the world do.                            *)
(***************************************************************************)
EXTENDS Explore

\* An exploration ends: every group it is after is reached, resolved by sensing or,
\* after three centres or three travels, left for good. (With a sensor that resolves
\* what the vehicle stands on, a planner that answers and nothing that stops it.)
ExplorationEnds == action = "explore" ~> action # "explore" \/ thrown

\* It ends successfully only when nothing of its scope is left that it has not marked
\* for good: a group that was merely left for now is tried again.
Successes == {"region_explored", "frontier_exhausted"}
EndsWhenNothingIsLeft ==
  [][action = "explore" /\ action' = "none" /\ result' \in Successes => InScope(Now) = {}]_vars

\* A search that failed is not made again by the same action while the map stays as it is
\* around its group: from another centre, or in a larger window, but not the same one.
NeverTheSameTwice ==
  [][action = "explore" /\ action' = "explore" /\ Act
       => ex'.failures = ex.failures \/ Search(ex') \notin FailedSearches]_vars

\* Nothing of an action stays behind when it ends: no search, no legs, no temporary
\* marks; and a goTo that waits for an answer will get one: there is a search, a leg or
\* an outcome for it, which is gone again once nobody waits. (An outcome that is left
\* over when a target was resolved on the way is `left`, not `outcome`.)
NothingOutlivesTheAction ==
  /\ action = "none" => g = NoGoTo /\ temporary = {}
  /\ g.asked <=> p.searching \/ p.legs.on \/ p.outcome # "none"

\* "Only a forward path of one segment can be extended" (follower.ts:100): a leg is
\* appended only while the vehicle follows the leg before it.
OnlyForwardPathsGrow == ~thrown
=============================================================================
