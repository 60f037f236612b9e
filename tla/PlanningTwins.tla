--------------------------- MODULE PlanningTwins ---------------------------
(***************************************************************************)
(* Three planning services on the same run: one with its caches, one       *)
(* without, and one that is restored from a snapshot of itself now and     *)
(* then. A tick plans (the services advance, the actions take what is      *)
(* ready), then the actions submit and cancel, then the agents sense, which *)
(* changes the map and brings the views up to date                         *)
(* (packages/core/src/world/world.ts, step;                                *)
(* packages/scenarios/src/assemble/adapters.ts). A snapshot is taken       *)
(* between ticks.                                                          *)
(***************************************************************************)
EXTENDS PlanningService

CONSTANTS
  Terrains,     \* what a chunk can be
  Maps,         \* the maps a run starts on
  Requests,     \* what the actions of an agent ask for
  MaxQueries,   \* queries of a run
  MaxChanges,   \* changes of the map
  MaxRestores   \* snapshots restored

\* A request goes forward along the row. (A lazy refine of a single point has no legs
\* and is left out.)
ASSUME TwinsAssumption ==
  /\ Terrains \subseteq Nat /\ Maps \subseteq [1..Chunks -> Nat]
  /\ \A a \in Agents : \A req \in Requests[a] :
       /\ req \in [kind : {"grid", "hpa", "gridThenGrid", "gridThenHpa", "refine"},
                   from : 1..Chunks, to : 1..Chunks, total : Nat]
       /\ req.from <= req.to /\ (req.kind = "refine" => req.from < req.to)

VARIABLES
  service,   \* the services, by name
  map,       \* the view: its content, its version, the version each chunk last changed in
  phase,     \* "plan", "act"
  nextQuery, restores,
  thrown,    \* a restore has thrown
  excused    \* history: what has come up that may tell the services apart

vars == <<service, map, phase, nextQuery, restores, thrown, excused>>

Services == {"cached", "cold", "restored"}

Init ==
  /\ service = [x \in Services |-> NewService(x # "cold")]
  /\ \E m \in Maps : map = [content |-> m, version |-> 0, stamp |-> [k \in 1..Chunks |-> 0]]
  /\ phase = "plan" /\ nextQuery = 1 /\ restores = 0 /\ thrown = FALSE /\ excused = {}

\* A coarse search has found its path with the last expansion of a slice: its
\* engine ends in that call, its cached result ends in the next.
CoarseOnTheDot(svc) ==
  \E a \in Agents : LET q == svc.queries[a] IN
    Active(q) /\ q.req.kind = "refine" /\ Len(q.done) = 1 /\ q.search = NoSearch

\* The planner advances, and the actions take what is ready.
Plan ==
  /\ phase = "plan" /\ phase' = "act"
  /\ service' = [x \in Services |-> LegsTaken(Ticked(service[x], map))]
  /\ excused' = IF \E x \in Services : CoarseOnTheDot(service'[x]) THEN excused \cup {"coarse"} ELSE excused
  /\ UNCHANGED <<map, nextQuery, restores, thrown>>

Submit(a, req) ==
  /\ phase = "act" /\ nextQuery <= MaxQueries
  /\ service' = [x \in Services |-> Submitted(service[x], a, nextQuery, req, map)]
  /\ nextQuery' = nextQuery + 1
  /\ UNCHANGED <<map, phase, restores, thrown, excused>>

Cancel(a) ==
  /\ phase = "act" /\ Active(service["cached"].queries[a])
  /\ service' = [x \in Services |-> Cancelled(service[x], a)]
  /\ UNCHANGED <<map, phase, nextQuery, restores, thrown, excused>>

\* One service's query counts a chunk as read that another's has not read yet.
ReadAhead(k) ==
  \E x, y \in Services, a \in Agents :
    /\ Active(service[x].queries[a]) /\ Active(service[y].queries[a])
    /\ k \in ReadByQuery(service[x].queries[a]) \ ReadByQuery(service[y].queries[a])

\* The agents have sensed, and the views are synced.
Sense ==
  /\ phase = "act" /\ phase' = "plan"
  /\ service' = [x \in Services |-> Emptied(service[x])]
  /\ UNCHANGED <<nextQuery, restores, thrown>>
  /\ \/ UNCHANGED <<map, excused>>
     \/ \E k \in 1..Chunks : \E t \in Terrains \ {map.content[k]} :
          /\ map.version < MaxChanges
          /\ map' = [content |-> [map.content EXCEPT ![k] = t], version |-> map.version + 1,
                     stamp |-> [map.stamp EXCEPT ![k] = map.version + 1]]
          /\ excused' = IF ReadAhead(k) THEN excused \cup {"ahead"} ELSE excused

\* A strategy's searches are run again on a map that has changed under them.
Disturbed(q) ==
  /\ Active(q) /\ IsStrategy(q.req)
  /\ ChangedFor(q, map) \cap ReadByQuery(q) # {} \/ GraphMoved(q, map)

Restore ==
  LET svc == service["restored"] IN
  /\ phase = "plan" /\ restores < MaxRestores /\ ~thrown
  /\ \E a \in Agents : Active(svc.queries[a])
  /\ restores' = restores + 1
  /\ thrown' = ~Restorable(svc, map)
  /\ service' = IF thrown' THEN service ELSE [service EXCEPT !["restored"] = Restored(svc, map)]
  /\ excused' = IF \E a \in Agents : Disturbed(svc.queries[a]) THEN excused \cup {"replay"} ELSE excused
  /\ UNCHANGED <<map, phase, nextQuery>>

Next ==
  \/ Plan \/ Sense \/ Restore
  \/ \E a \in Agents : Cancel(a) \/ \E req \in Requests[a] : Submit(a, req)

Spec == Init /\ [][Next]_vars
=============================================================================
