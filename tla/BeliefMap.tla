----------------------------- MODULE BeliefMap -----------------------------
(***************************************************************************)
(* An agent's belief map (packages/spatial/src/belief/belief-map.ts): how  *)
(* sure it is of each cell, and what its readers learn of a change: the    *)
(* version planning reads, a stamp per chunk, a bounded log of the cells,  *)
(* and the cells a recording has not taken yet. Heights are abstracted to  *)
(* whether a cell's bounds were measured: every beam is at one height.     *)
(***************************************************************************)
EXTENDS GridMap, Integers, Sequences

CONSTANTS
  Clamp, Threshold,   \* LOGODDS_CLAMP, BELIEF_THRESHOLD
  HitStep, MissStep,  \* what a reading adds and takes
  LogSize             \* entries of the change log

ASSUME BeliefAssumption ==
  /\ Clamp \in Nat /\ Threshold \in 1..Clamp
  /\ HitStep \in Nat /\ MissStep \in Nat
  /\ LogSize \in Nat /\ LogSize >= 2

Class(b, c) ==
  IF b.level[c] <= -Threshold THEN "free" ELSE IF b.level[c] >= Threshold THEN "occupied" ELSE "unknown"

NewBelief ==
  [level |-> [c \in Cells |-> 0], measured |-> {}, plan |-> 0, stamp |-> [k \in Chunks |-> 0],
   log |-> <<>>, first |-> 1, touched |-> {}]

\* A full log keeps its newer half.
Logged(b, c) ==
  IF Len(b.log) < LogSize
  THEN [b EXCEPT !.log = Append(@, c)]
  ELSE [b EXCEPT !.log = Append(SubSeq(@, (LogSize \div 2) + 1, LogSize), c), !.first = @ + (LogSize \div 2)]

TouchPlan(b, c) ==
  [Logged(b, c) EXCEPT !.plan = b.plan + 1, !.stamp[ChunkOf[c]] = b.plan + 1]

Written(b, c, v) == [b EXCEPT !.level[c] = v, !.touched = @ \cup {c}]

\* (SetLevel: only what planning hears of is recorded.)
RecordsThePlanned(b, c, v) ==
  LET w == Written(b, c, v) IN
  IF v = b.level[c] THEN b
  ELSE IF Class(w, c) = Class(b, c) THEN [w EXCEPT !.touched = b.touched] ELSE TouchPlan(w, c)

\* Planning hears of a change only when the believed state changes.
SetLevel(b, c, v) ==
  LET w == Written(b, c, v) IN
  IF v = b.level[c] THEN b ELSE IF Class(w, c) = Class(b, c) THEN w ELSE TouchPlan(w, c)

\* The first measure of the obstacle's top.
Measured(b, c) ==
  IF c \in b.measured THEN b ELSE TouchPlan([b EXCEPT !.measured = @ \cup {c}, !.touched = @ \cup {c}], c)

Lowered(l) == IF l - MissStep < -Clamp THEN -Clamp ELSE l - MissStep
Raised(l) == IF l + HitStep > Clamp THEN Clamp ELSE l + HitStep

ObserveFree(b, c) == SetLevel(b, c, Lowered(b.level[c]))
ObserveHit(b, c) == Measured(SetLevel(b, c, Raised(b.level[c])), c)
ObserveContact(b, c) == Measured(SetLevel(b, c, Clamp), c)

ChunksChangedSince(b, v) == {k \in Chunks : b.stamp[k] > v}

\* Whether the log goes back to version v, and the cells it names since.
LogReaches(b, v) == v >= b.first - 1
CellsChangedSince(b, v) == {b.log[i] : i \in (v - b.first + 2)..Len(b.log)}

(***************************************************************************)
(* A recording: the cells that changed with the values they have now, and  *)
(* a map that is rebuilt from them.                                        *)
(***************************************************************************)
CellDelta(b) == [cells |-> b.touched, level |-> b.level, measured |-> b.measured]

Taken(b) == [b EXCEPT !.touched = {}]

ApplyCellDelta(m, d) ==
  [level |-> [c \in Cells |-> IF c \in d.cells THEN d.level[c] ELSE m.level[c]],
   measured |-> (m.measured \ d.cells) \cup (d.cells \cap d.measured)]

=============================================================================
