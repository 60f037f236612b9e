---------------------------- MODULE PlanningView ----------------------------
(***************************************************************************)
(* The live planning view of a belief map for one ground vehicle and cost  *)
(* profile (packages/algorithms/src/grid/search-space.ts): the cells a     *)
(* vehicle may stand on, before and after inflation by its footprint, and  *)
(* the unknown flags. It is brought up to date in place, cell by cell from *)
(* the map's log or chunk by chunk when the log was cut or the profile     *)
(* constrains edges, and stamps the chunks whose content changed.          *)
(***************************************************************************)
EXTENDS BeliefMap, Folds

\* What matters of a cost profile: whether it constrains edges, and whether its
\* `unknown` weight differs from 1.
Profiles == [edges : BOOLEAN, weighs : BOOLEAN]

NextToKnownObstacle(b, c) == \E d \in Sides[c] : Class(b, d) = "occupied"

\* Whether the vehicle may stand on a cell, its footprint left aside.
Open(b, c) ==
  /\ Class(b, c) # "occupied"
  /\ c \notin Barred
  /\ Class(b, c) = "unknown" => ~NextToKnownObstacle(b, c)

Unknown(b) == {c \in Cells : Class(b, c) = "unknown"}

\* The view of the map as it is, built by no way in particular.
Passable(b) == {c \in Cells : Open(b, c) /\ c \notin Rim /\ \A d \in Footprint[c] : Open(b, d)}

\* One cell's mask: its base, unless the disk overlaps an impassable cell or the border.
MaskAt(open, c) == c \in open /\ c \notin Rim /\ Footprint[c] \subseteq open

\* A whole region's masks: only impassable cells next to a passable one stamp their disk.
Inflated(open, c) ==
  /\ c \in open /\ c \notin Rim
  /\ \A d \in Footprint[c] \ open : Corners[d] \cap open = {}

Updated(old, region, P(_)) == (old \ region) \cup {c \in region : P(c)}

Rebased(v, b, region) ==
  [v EXCEPT !.open = Updated(@, region, LAMBDA c : Open(b, c)),
            !.unknown = Updated(@, region, LAMBDA c : Class(b, c) = "unknown")]

\* Chunks of the cells in which two views differ, as a profile counts it.
Differing(v, w) ==
  LET flags == IF v.profile.weighs THEN (v.unknown \ w.unknown) \cup (w.unknown \ v.unknown) ELSE {}
  IN {ChunkOf[c] : c \in (v.pass \ w.pass) \cup (w.pass \ v.pass) \cup flags}

Built(b, profile) ==
  LET open == {c \in Cells : Open(b, c)} IN
  [profile |-> profile, open |-> open, pass |-> {c \in Cells : Inflated(open, c)}, unknown |-> Unknown(b),
   synced |-> b.plan, content |-> 0, stamp |-> [k \in Chunks |-> 0]]

Stamped(v, chunks) ==
  IF chunks = {} THEN v
  ELSE [v EXCEPT !.content = @ + 1, !.stamp = [k \in Chunks |-> IF k \in chunks THEN v.content + 1 ELSE v.stamp[k]]]

\* (SyncCells: the base of the cells next to a changed one is left alone.)
ForgetsTheSides(v, b, changed) ==
  LET w == Rebased(v, b, changed)
  IN [w EXCEPT !.pass = Updated(@, UNION {Reach[c] : c \in changed}, LAMBDA c : MaskAt(w.open, c))]

\* The cells next to the changed ones have their base rebuilt with them; the masks
\* within reach of those follow.
SyncCells(v, b, changed) ==
  LET based == changed \cup UNION {Sides[c] : c \in changed}
      w == Rebased(v, b, based)
  IN [w EXCEPT !.pass = Updated(@, UNION {Reach[c] : c \in based}, LAMBDA c : MaskAt(w.open, c))]

\* A chunk is rebuilt with a ring of one cell, its masks with what inflation reaches.
SyncChunk(v, b, k) ==
  LET ring == ChunkCells[k] \cup UNION {Corners[c] : c \in ChunkCells[k]}
      w == Rebased(v, b, ring)
  IN [w EXCEPT !.pass = Updated(@, UNION {Reach[c] : c \in ring}, LAMBDA c : Inflated(w.open, c))]

\* What each step changed counts as touched.
OneChunk(b, k, acc) ==
  LET w == SyncChunk(acc.view, b, k) IN
  [view |-> w, touched |-> acc.touched \cup Differing(acc.view, w) \cup (IF w.profile.edges THEN Around[k] ELSE {})]

\* Chunks are synced in ascending order.
SyncChunks(v, b) ==
  MapThenFoldSet(LAMBDA k, acc : OneChunk(b, k, acc), [view |-> v, touched |-> {}], LAMBDA k : k,
                 LAMBDA s : CHOOSE k \in s : \A j \in s : j <= k, ChunksChangedSince(b, v.synced))

ByCells(v, b) == ~v.profile.edges /\ LogReaches(b, v.synced)

Sync(v, b) ==
  LET cells == SyncCells(v, b, CellsChangedSince(b, v.synced))
      chunks == SyncChunks(v, b)
      w == IF ByCells(v, b) THEN Stamped(cells, Differing(v, cells)) ELSE Stamped(chunks.view, chunks.touched)
  IN IF v.synced = b.plan THEN v ELSE [w EXCEPT !.synced = b.plan]

ChangedSince(v, at) == {k \in Chunks : v.stamp[k] > at}

=============================================================================
