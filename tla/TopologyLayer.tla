--------------------------- MODULE TopologyLayer ---------------------------
(***************************************************************************)
(* An agent's topological layer (packages/spatial/src/topology/topology.ts): *)
(* which cells are frontier, counts per chunk, and memos of what is read    *)
(* of them: the frontier groups and the waypoint of a region, the class of  *)
(* an edge between two. An update recomputes what the chunks that changed   *)
(* can have changed; memos are filled when they are asked.                 *)
(***************************************************************************)
EXTENDS PlanningView

CONSTANT MinFrontierCells

Free(b, c) == Class(b, c) = "free"

\* Known free, next to unknown.
IsFrontier(b, c) == Free(b, c) /\ \E d \in Sides[c] : Class(b, d) = "unknown"

Frontier(b) == {c \in Cells : IsFrontier(b, c)}

KnownIn(b, k) == Cardinality({c \in ChunkCells[k] : Class(b, c) # "unknown"})
FreeIn(b, k) == Cardinality({c \in ChunkCells[k] : Free(b, c)})

(***************************************************************************)
(* What the memos hold                                                     *)
(***************************************************************************)
\* What a flood fill from a cell reaches of a set of cells.
Flooded(f, c) ==
  LET wave[n \in Nat] ==
        IF n = 0 THEN {c}
        ELSE LET w == wave[n - 1] IN w \cup UNION {Corners[d] \cap f : d \in w}
  IN wave[Cardinality(f)]

\* The frontier cells of a region by 8-connectivity; small groups are noise.
Grouped(flags, r) ==
  LET f == flags \cap RegionCells[r] IN
  {g \in {Flooded(f, c) : c \in f} : Cardinality(g) >= MinFrontierCells}

Nearer(c, d) == Centrality[c] < Centrality[d] \/ (Centrality[c] = Centrality[d] /\ c <= d)

\* The known-free cell nearest to the region's centre, if the region counts any.
WaypointOf(b, l, r) ==
  {c \in RegionCells[r] : /\ \E k \in Chunks : RegionOf[k] = r /\ l.free[k] > 0
                     /\ Free(b, c)
                     /\ \A d \in RegionCells[r] : Free(b, d) => Nearer(c, d)}

\* The pairs of cells that lie side by side across a border of two regions.
Across == {p \in UNION {{c} \X Sides[c] : c \in Cells} : RegionOf[ChunkOf[p[1]]] < RegionOf[ChunkOf[p[2]]]}

EdgeOf(p) == {RegionOf[ChunkOf[p[1]]], RegionOf[ChunkOf[p[2]]]}

Edges == {EdgeOf(p) : p \in Across}

\* A passable pair across the border, open if some pair is known free.
Crossing(b, v, e) ==
  LET pairs == {p \in Across : EdgeOf(p) = e /\ {p[1], p[2]} \subseteq v.pass}
  IN IF \E p \in pairs : Free(b, p[1]) /\ Free(b, p[2]) THEN "open"
     ELSE IF pairs = {} THEN "none" ELSE "unexplored"

(***************************************************************************)
(* Update                                                                  *)
(***************************************************************************)
\* (Border: the chunks beside a changed one are left alone.)
NoBorder(dirty) == {}

\* Flags of a changed chunk are recomputed in full, those of a chunk beside one
\* only along the line of cells next to it.
Border(dirty) == {c \in Cells : ChunkOf[c] \notin dirty /\ \E d \in Sides[c] : ChunkOf[d] \in dirty}

Recounted(dirty) == {c \in Cells : ChunkOf[c] \in dirty}

Reflagged(flags, b, dirty) ==
  Updated(flags, Recounted(dirty) \cup Border(dirty), LAMBDA c : IsFrontier(b, c))

\* (EdgesNear: only the changes in the chunks the edge runs along.)
EdgesOfOwn(dirty) == {EdgeOf(p) : p \in {q \in Across : {ChunkOf[q[1]], ChunkOf[q[2]]} \cap dirty # {}}}

EdgesNear(dirty) == {e \in Edges : \E k \in dirty : \E j \in Around[k] : RegionOf[j] \in e}

UpdatedFrom(l, b, dirty) ==
  LET flags == Reflagged(l.flags, b, dirty)
      moved == {RegionOf[ChunkOf[c]] : c \in (flags \ l.flags) \cup (l.flags \ flags)}
  IN [l EXCEPT !.version = b.plan, !.flags = flags,
        !.known = [k \in Chunks |-> IF k \in dirty THEN KnownIn(b, k) ELSE @[k]],
        !.free = [k \in Chunks |-> IF k \in dirty THEN FreeIn(b, k) ELSE @[k]],
        !.stale = @ \cup moved,
        !.rev = [r \in Regions |-> IF r \in moved THEN @[r] + 1 ELSE @[r]],
        !.frontierRev = @ + Cardinality(moved),
        !.recount = @ \cup {RegionOf[k] : k \in dirty},
        !.edgeDirty = @ \cup EdgesNear(dirty)]

Update(l, b) == IF l.version = b.plan THEN l ELSE UpdatedFrom(l, b, ChunksChangedSince(b, l.version))

EmptyLayer ==
  [version |-> 0, flags |-> {}, known |-> [k \in Chunks |-> 0], free |-> [k \in Chunks |-> 0],
   groups |-> [r \in Regions |-> {}], stale |-> {}, rev |-> [r \in Regions |-> 0], frontierRev |-> 0,
   waypoint |-> [r \in Regions |-> {}], recount |-> Regions, edge |-> [e \in Edges |-> "none"], edgeDirty |-> Edges]

\* A layer built over a map: its first update covers every chunk.
NewLayer(b) == UpdatedFrom(EmptyLayer, b, Chunks)

(***************************************************************************)
(* Reads, which fill the memos                                             *)
(***************************************************************************)
GroupsOfRegion(l, r) == IF r \in l.stale THEN Grouped(l.flags, r) ELSE l.groups[r]
AllGroups(l) == UNION {GroupsOfRegion(l, r) : r \in Regions}
Waypoint(l, b, r) == IF r \in l.recount THEN WaypointOf(b, l, r) ELSE l.waypoint[r]
EdgeClass(l, b, v, e) == IF e \in l.edgeDirty THEN Crossing(b, v, e) ELSE l.edge[e]

Regrouped(l, rs) ==
  [l EXCEPT !.groups = [r \in Regions |-> IF r \in rs THEN GroupsOfRegion(l, r) ELSE @[r]], !.stale = @ \ rs]

WaypointsRead(l, b) == [l EXCEPT !.waypoint = [r \in Regions |-> Waypoint(l, b, r)], !.recount = {}]

EdgesRead(l, b, v) == [l EXCEPT !.edge = [e \in Edges |-> EdgeClass(l, b, v, e)], !.edgeDirty = {}]

=============================================================================
