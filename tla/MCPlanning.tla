---------------------------- MODULE MCPlanning ----------------------------
EXTENDS PlanningProperties

\* An agent that computes three expansions in a tick, and one that computes two.
FastAndSlow == [a \in Agents |-> IF a = 1 THEN 3 ELSE 2]

\* The last chunk is hard to cross.
Rough == {[k \in 1..Chunks |-> IF k = Chunks THEN 2 ELSE 1]}

Search(kind) == Request(kind, 1, Chunks, 5)
Staged(kind) == Request(kind, 1, Chunks, 7)
Refined      == Request("refine", 1, Chunks, 10)

Mixed     == (1 :> {Search("hpa"), Staged("gridThenHpa")})
             @@ (2 :> {Search("grid"), Staged("gridThenGrid"), Refined})
GridOnly  == [a \in Agents |-> {Search("grid")}]
LegsOnly  == [a \in Agents |-> {Refined}]
Fallbacks == [a \in Agents |-> {Staged("gridThenGrid")}]
=============================================================================
