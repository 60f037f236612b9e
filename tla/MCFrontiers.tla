---------------------------- MODULE MCFrontiers ----------------------------
(***************************************************************************)
(* A map of 6 by 3 cells in chunks of 2 by 2 and regions of 2 by 2 chunks, *)
(* as the index arithmetic of the code lays them out, and a vehicle whose  *)
(* disk overlaps the cells on its four sides.                              *)
(***************************************************************************)
EXTENDS FrontierProperties, TLC

SizeX == 6
SizeY == 3
Side == 2

X(c) == c % SizeX
Y(c) == c \div SizeX
Far(a, b) == IF a > b THEN a - b ELSE b - a
Apart(c, d) == <<Far(X(c), X(d)), Far(Y(c), Y(d))>>

\* A function TLC holds as a table. (A definition given to a constant is evaluated at
\* each use, the definitions it names only once.)
Table(f) == f @@ <<>>

Map == 0..(SizeX * SizeY - 1)
ChunksX == 3
Chunk(i, j) == j * ChunksX + i

SidesTable == Table([c \in Map |-> {d \in Map : Apart(c, d) \in {<<0, 1>>, <<1, 0>>}}])
CornersTable == Table([c \in Map |-> {d \in Map : Apart(c, d) \in {<<0, 1>>, <<1, 0>>, <<1, 1>>}}])
ReachTable == Table([c \in Map |-> {c} \cup CornersTable[c]])
RimTable == {c \in Map : X(c) \in {0, SizeX - 1} \/ Y(c) \in {0, SizeY - 1}}
MapChunks == 0..(ChunksX * 2 - 1)
ChunkOfTable == Table([c \in Map |-> Chunk(X(c) \div Side, Y(c) \div Side)])
AroundTable == Table([k \in MapChunks |-> {j \in MapChunks : Far(k % ChunksX, j % ChunksX) <= 1}])
RegionOfTable == Table([k \in MapChunks |-> (k % ChunksX) \div 2])
CentralityTable == Table([c \in Map |-> LET cx == IF X(c) < 4 THEN 3 ELSE 9 IN (2 * X(c) - cx) * (2 * X(c) - cx) + (2 * Y(c) - 2) * (2 * Y(c) - 2)])

MapSides == SidesTable
MapCorners == CornersTable
MapReach == ReachTable
MapRim == RimTable
MapChunkOf == ChunkOfTable
MapAround == AroundTable
MapRegionOf == RegionOfTable
MapCentrality == CentralityTable
MapCells == Map
TheChunks == MapChunks

HalfKnownTable == {{}, {c \in Map : X(c) <= 1}}
HalfKnown == HalfKnownTable
BeamTable == {[cell |-> 7, hit |-> TRUE], [cell |-> 8, hit |-> FALSE], [cell |-> 10, hit |-> FALSE]}
Beams == BeamTable
=============================================================================
