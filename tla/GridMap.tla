------------------------------ MODULE GridMap ------------------------------
(***************************************************************************)
(* The grid an agent plans on, as relations of its cells, chunks and       *)
(* regions: what the index arithmetic of                                   *)
(* packages/spatial/src/topology/topology.ts and of                        *)
(* packages/algorithms/src/grid/search-space.ts computes.                  *)
(***************************************************************************)
EXTENDS Naturals, FiniteSets

CONSTANTS
  Cells,
  Sides,      \* a cell's neighbours on its four sides
  Corners,    \* its neighbours on sides and corners
  Reach,      \* the square of cells inflation may reach from a cell, itself included
  Footprint,  \* the cells the vehicle's disk touches when it stands on a cell
  Rim,        \* the cells where the disk leaves the map
  Barred,     \* cells no ground vehicle may enter (terrain, geofence)
  Chunks, ChunkOf,
  Around,     \* a chunk and its eight neighbours
  Regions, RegionOf,
  Centrality  \* how far a cell is from the centre of its region

ChunkCells == [k \in Chunks |-> {c \in Cells : ChunkOf[c] = k}]

RegionCells == [r \in Regions |-> {c \in Cells : RegionOf[ChunkOf[c]] = r}]

\* The last conjunct is what lets the layer look no further than a chunk:
\* "Inflation and cell constraints reach at most a chunk".
ASSUME GridAssumption ==
  /\ IsFiniteSet(Cells) /\ Cells \subseteq Nat /\ Chunks \subseteq Nat /\ Regions \subseteq Nat
  /\ Sides \in [Cells -> SUBSET Cells] /\ Corners \in [Cells -> SUBSET Cells]
  /\ \A c \in Cells : \A d \in Sides[c] : c \in Sides[d]
  /\ Reach \in [Cells -> SUBSET Cells] /\ Footprint \in [Cells -> SUBSET Cells]
  /\ \A c \in Cells : c \in Reach[c] /\ \A d \in Footprint[c] : c \in Reach[d]
  /\ Rim \subseteq Cells /\ Barred \subseteq Cells
  /\ ChunkOf \in [Cells -> Chunks] /\ RegionOf \in [Chunks -> Regions]
  /\ Around \in [Chunks -> SUBSET Chunks]
  /\ \A c \in Cells : \A d \in Reach[c] : \A s \in Sides[d] \cup {d} :
       ChunkOf[s] \in Around[ChunkOf[c]]
  /\ Centrality \in [Cells -> Nat]

\* Regions are counted through; neighbours and what inflation reaches lie on both
\* sides alike; a disk has no part that touches nothing else of it and its middle.
ASSUME ShapeAssumption ==
  /\ IsFiniteSet(Chunks) /\ IsFiniteSet(Regions) /\ Regions = 0..(Cardinality(Regions) - 1)
  /\ \A c \in Cells : Sides[c] \subseteq Corners[c] /\ \A d \in Reach[c] : c \in Reach[d]
  /\ \A k \in Chunks : \A j \in Around[k] : k \in Around[j]
  /\ \A c \in Cells : \A s \in (SUBSET Footprint[c]) \ {{}} :
       \E d \in s : Corners[d] \cap (({c} \cup Footprint[c]) \ s) # {}
=============================================================================
