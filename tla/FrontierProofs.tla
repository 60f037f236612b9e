--------------------------- MODULE FrontierProofs ---------------------------
(***************************************************************************)
(* Proofs about the topology service and what it is built from, for any    *)
(* grid, any belief constants, any vehicle and cost profile and any number *)
(* of readings, marks, reads and restored runs. Each structure is kept     *)
(* from what changed in the one before: the layer and the view from the    *)
(* belief map's stamps and its log, the memos from the layer's revisions,  *)
(* the marks from the view's stamps, the report from both. The invariant   *)
(* says of each what it is right of while it is behind.                    *)
(***************************************************************************)
EXTENDS FrontierProperties, SequenceFolds, SequenceTheorems

(***************************************************************************)
(* The inductive invariant                                                 *)
(***************************************************************************)
BeliefFields == {"level", "measured", "plan", "stamp", "log", "first", "touched"}
LayerFields ==
  {"version", "flags", "known", "free", "groups", "stale", "rev", "frontierRev", "waypoint", "recount",
   "edge", "edgeDirty"}
ServiceFields == {"belief", "view", "layer", "marks", "temporary", "had", "witness", "watched"}

\* No chunk has a stamp from after the map's version.
BeliefOK(b) ==
  /\ BeliefFields \subseteq DOMAIN b
  /\ b.level \in [Cells -> Int]
  /\ b.plan \in Nat /\ b.stamp \in [Chunks -> Nat]
  /\ \A k \in Chunks : b.stamp[k] <= b.plan

\* A chunk in which planning was told of no change after a version.
Unstamped(b, v, k) == b.stamp[k] <= v

\* A layer that is behind is right wherever no stamp says otherwise: a flag where
\* neither its cell's chunk nor the chunk of a cell beside it was stamped since, the
\* counts of a chunk that was not.
LayerOK(b, l) ==
  /\ LayerFields \subseteq DOMAIN l
  /\ l.version \in Nat /\ l.version <= b.plan
  /\ l.flags \subseteq Cells
  /\ DOMAIN l.known = Chunks /\ DOMAIN l.free = Chunks
  /\ \A c \in Cells :
       (\A d \in Sides[c] \cup {c} : Unstamped(b, l.version, ChunkOf[d])) => (c \in l.flags <=> IsFrontier(b, c))
  /\ \A k \in Chunks :
       Unstamped(b, l.version, k) => l.known[k] = KnownIn(b, k) /\ l.free[k] = FreeIn(b, k)

\* A service: its map and its layer.
ServiceOK(s) == ServiceFields \subseteq DOMAIN s /\ BeliefOK(s.belief) /\ LayerOK(s.belief, s.layer)

\* What was not touched since the last delta is in the replica.
ReplicaOK ==
  /\ \A c \in Cells \ run.belief.touched :
       /\ replica.level[c] = run.belief.level[c]
       /\ c \in replica.measured <=> c \in run.belief.measured
  /\ replica.level \in [Cells -> Int]
  /\ replica.measured \subseteq Cells /\ run.belief.measured \subseteq Cells

\* Every service, the map they were assembled with, and the map of the deltas.
IInv ==
  /\ ServiceOK(run)
  /\ \A s \in twin : ServiceOK(s)
  /\ BeliefOK(prior) /\ prior.measured \subseteq Cells
  /\ pc # "prior" => ReplicaOK
  /\ pc = "between" => run.belief.touched = {}

(***************************************************************************)
(* What a change of the belief map leaves to its readers                   *)
(***************************************************************************)
\* One map follows another: a cell whose class changed has its chunk stamped after
\* the other's version, one whose value changed is touched.
Follows(b, d) ==
  /\ BeliefOK(d)
  /\ b.plan <= d.plan
  /\ \A k \in Chunks : d.stamp[k] = b.stamp[k] \/ d.stamp[k] > b.plan
  /\ \A c \in Cells : Class(d, c) = Class(b, c) \/ d.stamp[ChunkOf[c]] > b.plan
  /\ b.touched \subseteq d.touched
  /\ \A c \in Cells \ d.touched : d.level[c] = b.level[c] /\ (c \in d.measured <=> c \in b.measured)
  /\ d.measured \subseteq b.measured \cup Cells

\* Every map follows itself.
LEMMA FollowsItself ==
  ASSUME NEW b, BeliefOK(b) PROVE Follows(b, b)
BY DEF Follows, BeliefOK

\* What follows a map that follows another follows that.
LEMMA FollowsOn ==
  ASSUME NEW b, BeliefOK(b), NEW d, Follows(b, d), NEW e, Follows(d, e)
  PROVE  Follows(b, e)
<1>1. BeliefOK(d) /\ BeliefOK(e) /\ b.plan <= e.plan
  BY DEF Follows, BeliefOK
<1>2. ASSUME NEW k \in Chunks PROVE e.stamp[k] = b.stamp[k] \/ e.stamp[k] > b.plan
  BY <1>1 DEF Follows, BeliefOK
<1>3. ASSUME NEW c \in Cells PROVE Class(e, c) = Class(b, c) \/ e.stamp[ChunkOf[c]] > b.plan
  <2>1. ChunkOf[c] \in Chunks
    BY GridAssumption
  <2>2. e.stamp[ChunkOf[c]] = d.stamp[ChunkOf[c]] \/ e.stamp[ChunkOf[c]] > d.plan
    BY <2>1 DEF Follows
  <2>3. Class(e, c) = Class(d, c) \/ e.stamp[ChunkOf[c]] > d.plan
    BY DEF Follows
  <2>4. Class(d, c) = Class(b, c) \/ d.stamp[ChunkOf[c]] > b.plan
    BY DEF Follows
  <2>5. b.plan <= d.plan /\ b.plan \in Nat /\ d.plan \in Nat /\ e.stamp[ChunkOf[c]] \in Nat
    BY <1>1, <2>1 DEF Follows, BeliefOK
  <2> QED BY <2>2, <2>3, <2>4, <2>5
<1> QED BY <1>1, <1>2, <1>3 DEF Follows

\* A touched cell, whatever it was changed to, is behind a stamp.
LEMMA TouchPlanFollows ==
  ASSUME NEW b, BeliefOK(b), NEW w, NEW c \in Cells,
         BeliefFields \subseteq DOMAIN w, w.level \in [Cells -> Int],
         w.plan = b.plan, w.stamp = b.stamp, w.touched = b.touched \cup {c},
         \A d \in Cells \ {c} : w.level[d] = b.level[d] /\ (d \in w.measured <=> d \in b.measured),
         w.measured \subseteq b.measured \cup {c}
  PROVE  Follows(b, TouchPlan(w, c))
<1> DEFINE l == Logged(w, c)
           t == TouchPlan(w, c)
<1>1. /\ DOMAIN l = DOMAIN w /\ l.level = w.level /\ l.plan = w.plan /\ l.stamp = w.stamp
      /\ l.touched = w.touched /\ l.measured = w.measured
  BY DEF Logged, BeliefFields
<1>2. t = [l EXCEPT !.plan = w.plan + 1, !.stamp[ChunkOf[c]] = w.plan + 1]
  BY DEF TouchPlan
<1>3. ChunkOf[c] \in Chunks
  BY GridAssumption
<1> HIDE DEF l, t
<1>4. /\ DOMAIN t = DOMAIN w /\ t.level = w.level /\ t.touched = w.touched /\ t.measured = w.measured
      /\ t.plan = b.plan + 1 /\ t.stamp = [b.stamp EXCEPT ![ChunkOf[c]] = b.plan + 1]
  BY <1>1, <1>2 DEF BeliefFields
<1>5. BeliefOK(t)
  BY <1>3, <1>4 DEF BeliefOK
<1>6. \A k \in Chunks : t.stamp[k] = b.stamp[k] \/ t.stamp[k] > b.plan
  BY <1>3, <1>4 DEF BeliefOK
<1>7. ASSUME NEW d \in Cells PROVE Class(t, d) = Class(b, d) \/ t.stamp[ChunkOf[d]] > b.plan
  <2>1. CASE d = c
    BY <1>3, <1>4, <2>1 DEF BeliefOK
  <2>2. CASE d # c
    BY <1>4, <2>2 DEF Class
  <2> QED BY <2>1, <2>2
<1>8. t.measured \subseteq b.measured \cup Cells /\ b.touched \subseteq t.touched /\ b.plan <= t.plan
  BY <1>4 DEF BeliefOK
<1>9. \A d \in Cells \ t.touched : t.level[d] = b.level[d] /\ (d \in t.measured <=> d \in b.measured)
  BY <1>4
<1>10. Follows(b, t)
  BY <1>5, <1>6, <1>7, <1>8, <1>9 DEF Follows
<1> QED BY <1>10 DEF t

\* A cell whose value is written leaves a map that follows.
LEMMA SetLevelFollows ==
  ASSUME NEW b, BeliefOK(b), NEW c \in Cells, NEW v \in Int
  PROVE  Follows(b, SetLevel(b, c, v))
<1> DEFINE w == Written(b, c, v)
<1>1. /\ DOMAIN w = DOMAIN b /\ w.level \in [Cells -> Int] /\ w.level[c] = v
      /\ \A d \in Cells \ {c} : w.level[d] = b.level[d]
      /\ w.plan = b.plan /\ w.stamp = b.stamp /\ w.measured = b.measured
      /\ w.touched = b.touched \cup {c}
  BY DEF Written, BeliefOK, BeliefFields
<1>2. SetLevel(b, c, v) = IF v = b.level[c] THEN b ELSE IF Class(w, c) = Class(b, c) THEN w ELSE TouchPlan(w, c)
  BY DEF SetLevel
<1> HIDE DEF w
<1>3. Follows(b, TouchPlan(w, c))
  BY <1>1, TouchPlanFollows DEF BeliefOK
<1>4. CASE Class(w, c) = Class(b, c)
  <2>1. BeliefOK(w)
    BY <1>1 DEF BeliefOK
  <2>2. \A d \in Cells : Class(w, d) = Class(b, d)
    BY <1>1, <1>4 DEF Class
  <2>3. Follows(b, w)
    BY <1>1, <2>1, <2>2 DEF Follows, BeliefOK
  <2> QED BY <1>2, <1>4, <2>3, FollowsItself
<1> QED BY <1>2, <1>3, <1>4, FollowsItself

\* So does a measure of the obstacle's top.
LEMMA MeasuredFollows ==
  ASSUME NEW b, BeliefOK(b), NEW c \in Cells
  PROVE  Follows(b, Measured(b, c))
<1> DEFINE w == [b EXCEPT !.measured = @ \cup {c}, !.touched = @ \cup {c}]
<1>1. /\ DOMAIN w = DOMAIN b /\ w.level = b.level /\ w.plan = b.plan /\ w.stamp = b.stamp
      /\ w.measured = b.measured \cup {c} /\ w.touched = b.touched \cup {c}
  BY DEF BeliefOK, BeliefFields
<1>2. Measured(b, c) = IF c \in b.measured THEN b ELSE TouchPlan(w, c)
  BY DEF Measured
<1> HIDE DEF w
<1>3. Follows(b, TouchPlan(w, c))
  BY <1>1, TouchPlanFollows DEF BeliefOK
<1> QED BY <1>2, <1>3, FollowsItself

\* Every reading and every contact leaves a map that follows the one before.
LEMMA ReadingsFollow ==
  ASSUME NEW b, BeliefOK(b), NEW c \in Cells
  PROVE  /\ Follows(b, ObserveFree(b, c)) /\ Follows(b, ObserveHit(b, c)) /\ Follows(b, ObserveContact(b, c))
<1>0. b.level[c] \in Int /\ Lowered(b.level[c]) \in Int /\ Raised(b.level[c]) \in Int /\ Clamp \in Int
  BY BeliefAssumption DEF BeliefOK, Lowered, Raised
<1>1. Follows(b, ObserveFree(b, c))
  BY <1>0, SetLevelFollows DEF ObserveFree
<1>2. ASSUME NEW v \in Int PROVE Follows(b, Measured(SetLevel(b, c, v), c))
  <2>1. Follows(b, SetLevel(b, c, v)) /\ BeliefOK(SetLevel(b, c, v))
    BY SetLevelFollows DEF Follows
  <2> QED BY <2>1, MeasuredFollows, FollowsOn
<1> QED BY <1>0, <1>1, <1>2 DEF ObserveHit, ObserveContact

\* A delta that is taken changes nothing a reader sees.
LEMMA TakenKeeps ==
  ASSUME NEW b, BeliefOK(b)
  PROVE  /\ BeliefOK(Taken(b)) /\ Taken(b).touched = {}
         /\ Taken(b).plan = b.plan /\ Taken(b).stamp = b.stamp /\ Taken(b).level = b.level
         /\ Taken(b).measured = b.measured
BY DEF Taken, BeliefOK, BeliefFields

(***************************************************************************)
(* The layer over a map that changes                                       *)
(***************************************************************************)
\* Flags and counts depend on the classes of the cells alone.
LEMMA SameClasses ==
  ASSUME NEW b, NEW d
  PROVE  /\ \A c \in Cells : (\A e \in Sides[c] \cup {c} : Class(d, e) = Class(b, e)) =>
                (IsFrontier(d, c) <=> IsFrontier(b, c))
         /\ \A k \in Chunks : (\A c \in ChunkCells[k] : Class(d, c) = Class(b, c)) =>
                KnownIn(d, k) = KnownIn(b, k) /\ FreeIn(d, k) = FreeIn(b, k)
<1>1. ASSUME NEW c \in Cells, \A e \in Sides[c] \cup {c} : Class(d, e) = Class(b, e)
      PROVE  IsFrontier(d, c) <=> IsFrontier(b, c)
  BY <1>1 DEF IsFrontier, Free
<1>2. ASSUME NEW k \in Chunks, \A c \in ChunkCells[k] : Class(d, c) = Class(b, c)
      PROVE  KnownIn(d, k) = KnownIn(b, k) /\ FreeIn(d, k) = FreeIn(b, k)
  <2>1. {c \in ChunkCells[k] : Class(d, c) # "unknown"} = {c \in ChunkCells[k] : Class(b, c) # "unknown"}
    BY <1>2
  <2>2. {c \in ChunkCells[k] : Free(d, c)} = {c \in ChunkCells[k] : Free(b, c)}
    BY <1>2 DEF Free
  <2> QED BY <2>1, <2>2 DEF KnownIn, FreeIn
<1> QED BY <1>1, <1>2

\* A layer that is right of the unstamped chunks stays so while the map goes on.
LEMMA LayerFollows ==
  ASSUME NEW b, BeliefOK(b), NEW l, LayerOK(b, l), NEW d, Follows(b, d)
  PROVE  LayerOK(d, l)
<1>1. l.version \in Nat /\ l.version <= b.plan /\ b.plan <= d.plan /\ b.plan \in Nat /\ d.plan \in Nat
  BY DEF LayerOK, Follows, BeliefOK
<1>2. ASSUME NEW k \in Chunks, Unstamped(d, l.version, k)
      PROVE  Unstamped(b, l.version, k) /\ ~(d.stamp[k] > b.plan)
  <2>1. d.stamp[k] \in Nat /\ b.stamp[k] \in Nat /\ (d.stamp[k] = b.stamp[k] \/ d.stamp[k] > b.plan)
    BY DEF Follows, BeliefOK
  <2> QED BY <1>1, <1>2, <2>1 DEF Unstamped
<1>3. ASSUME NEW c \in Cells, Unstamped(d, l.version, ChunkOf[c])
      PROVE  Unstamped(b, l.version, ChunkOf[c]) /\ Class(d, c) = Class(b, c)
  <2>1. ChunkOf[c] \in Chunks
    BY GridAssumption
  <2> QED BY <1>2, <1>3, <2>1 DEF Follows
<1>4. ASSUME NEW c \in Cells, \A e \in Sides[c] \cup {c} : Unstamped(d, l.version, ChunkOf[e])
      PROVE  c \in l.flags <=> IsFrontier(d, c)
  <2>1. Sides[c] \cup {c} \subseteq Cells
    BY GridAssumption
  <2>2. \A e \in Sides[c] \cup {c} : Unstamped(b, l.version, ChunkOf[e]) /\ Class(d, e) = Class(b, e)
    BY <1>3, <1>4, <2>1
  <2> QED BY <2>2, SameClasses DEF LayerOK
<1>5. ASSUME NEW k \in Chunks, Unstamped(d, l.version, k)
      PROVE  l.known[k] = KnownIn(d, k) /\ l.free[k] = FreeIn(d, k)
  <2>1. \A c \in ChunkCells[k] : Class(d, c) = Class(b, c)
    BY <1>3, <1>5 DEF ChunkCells
  <2>2. Unstamped(b, l.version, k)
    BY <1>2, <1>5
  <2> QED BY <2>1, <2>2, SameClasses DEF LayerOK
<1> QED BY <1>1, <1>4, <1>5 DEF LayerOK

\* A layer is only read through these.
SameLayer(l, m) ==
  /\ LayerFields \subseteq DOMAIN m
  /\ m.version = l.version /\ m.flags = l.flags /\ m.known = l.known /\ m.free = l.free

\* A layer with the same flags and counts is as right.
LEMMA SameLayerOK ==
  ASSUME NEW b, NEW l, LayerOK(b, l), NEW m, SameLayer(l, m)
  PROVE  LayerOK(b, m)
BY DEF LayerOK, SameLayer

\* What a layer built or updated from any chunks holds, when the chunks left out
\* were right.
LEMMA UpdatedFromIsRight ==
  ASSUME NEW b, BeliefOK(b), NEW l, LayerFields \subseteq DOMAIN l, l.flags \subseteq Cells,
         NEW dirty \in SUBSET Chunks,
         \A c \in Cells : (\A d \in Sides[c] \cup {c} : ChunkOf[d] \notin dirty) => (c \in l.flags <=> IsFrontier(b, c)),
         \A k \in Chunks \ dirty : l.known[k] = KnownIn(b, k) /\ l.free[k] = FreeIn(b, k)
  PROVE  LayerOK(b, UpdatedFrom(l, b, dirty)) /\ UpdatedFrom(l, b, dirty).version = b.plan
<1> DEFINE u == UpdatedFrom(l, b, dirty)
<1>1. /\ DOMAIN u = DOMAIN l /\ u.version = b.plan /\ u.flags = Reflagged(l.flags, b, dirty)
      /\ u.known = [k \in Chunks |-> IF k \in dirty THEN KnownIn(b, k) ELSE l.known[k]]
      /\ u.free = [k \in Chunks |-> IF k \in dirty THEN FreeIn(b, k) ELSE l.free[k]]
  BY DEF UpdatedFrom, LayerFields
<1> HIDE DEF u
<1>2. ASSUME NEW c \in Cells PROVE c \in u.flags <=> IsFrontier(b, c)
  <2>1. c \in u.flags <=> IF c \in Recounted(dirty) \cup Border(dirty) THEN IsFrontier(b, c) ELSE c \in l.flags
    BY <1>1 DEF Reflagged, Updated
  <2>2. CASE c \in Recounted(dirty) \cup Border(dirty)
    BY <2>1, <2>2
  <2>3. CASE c \notin Recounted(dirty) \cup Border(dirty)
    <3>1. \A d \in Sides[c] \cup {c} : ChunkOf[d] \notin dirty
      BY <2>3 DEF Recounted, Border
    <3> QED BY <2>1, <2>3, <3>1
  <2> QED BY <2>2, <2>3
<1>3. u.flags \subseteq Cells
  BY <1>1 DEF Reflagged, Updated, Recounted, Border
<1>4. \A k \in Chunks : u.known[k] = KnownIn(b, k) /\ u.free[k] = FreeIn(b, k)
  BY <1>1
<1>5. LayerOK(b, u)
  BY <1>1, <1>2, <1>3, <1>4 DEF LayerOK, BeliefOK
<1> QED BY <1>1, <1>5 DEF u

\* A layer that was brought up to date is what a scan of the whole map gives.
LEMMA UpdateIsRight ==
  ASSUME NEW b, BeliefOK(b), NEW l, LayerOK(b, l)
  PROVE  LayerOK(b, Update(l, b)) /\ Update(l, b).version = b.plan
<1> DEFINE dirty == ChunksChangedSince(b, l.version)
<1>1. dirty \in SUBSET Chunks
  BY DEF ChunksChangedSince
<1>2. \A k \in Chunks : k \notin dirty => Unstamped(b, l.version, k)
  BY DEF ChunksChangedSince, Unstamped, BeliefOK, LayerOK
<1> HIDE DEF dirty
<1>3. ASSUME NEW c \in Cells, \A d \in Sides[c] \cup {c} : ChunkOf[d] \notin dirty
      PROVE  c \in l.flags <=> IsFrontier(b, c)
  <2>1. \A d \in Sides[c] \cup {c} : Unstamped(b, l.version, ChunkOf[d])
    BY <1>2, <1>3, GridAssumption
  <2> QED BY <2>1 DEF LayerOK
<1>4. \A k \in Chunks \ dirty : l.known[k] = KnownIn(b, k) /\ l.free[k] = FreeIn(b, k)
  BY <1>2 DEF LayerOK
<1>5. LayerOK(b, UpdatedFrom(l, b, dirty)) /\ UpdatedFrom(l, b, dirty).version = b.plan
  BY <1>1, <1>3, <1>4, UpdatedFromIsRight DEF LayerOK
<1> QED BY <1>5 DEF Update, dirty

\* A layer that is built is right of every chunk.
LEMMA NewLayerIsRight ==
  ASSUME NEW b, BeliefOK(b)
  PROVE  LayerOK(b, NewLayer(b))
<1>1. LayerFields \subseteq DOMAIN EmptyLayer /\ EmptyLayer.flags \subseteq Cells
  BY DEF EmptyLayer, LayerFields
<1>2. \A c \in Cells : ChunkOf[c] \in Chunks
  BY GridAssumption
<1> QED BY <1>1, <1>2, UpdatedFromIsRight DEF NewLayer

(***************************************************************************)
(* The service                                                             *)
(***************************************************************************)
\* Reads fill memos and leave the rest of the layer alone.
LEMMA MemosKeep ==
  ASSUME NEW l, LayerFields \subseteq DOMAIN l
  PROVE  /\ \A rs : SameLayer(l, Regrouped(l, rs))
         /\ \A b : SameLayer(l, WaypointsRead(l, b))
         /\ \A b, v : SameLayer(l, EdgesRead(l, b, v))
BY DEF SameLayer, LayerFields, Regrouped, WaypointsRead, EdgesRead

\* A service with the same map and a layer that differs in its memos only.
Keeps(s, t) ==
  /\ ServiceFields \subseteq DOMAIN t
  /\ t.belief = s.belief
  /\ SameLayer(s.layer, t.layer)

\* What keeps map and layer keeps a service in order.
LEMMA KeepsOK ==
  ASSUME NEW s, ServiceOK(s), NEW t, Keeps(s, t)
  PROVE  ServiceOK(t)
BY SameLayerOK DEF ServiceOK, Keeps

\* Telling of the frontiers changes memos and the report only.
LEMMA WatchedKeeps ==
  ASSUME NEW s, ServiceOK(s), NEW cell
  PROVE  Keeps(s, Watched(s, cell))
<1>1. LayerFields \subseteq DOMAIN s.layer /\ ServiceFields \subseteq DOMAIN s
  BY DEF ServiceOK, LayerOK
<1>2. Keeps(s, s)
  BY <1>1 DEF Keeps, SameLayer
<1>3. Keeps(s, Searched(s))
  <2>1. ASSUME NEW rs PROVE Keeps(s, [s EXCEPT !.witness = {}, !.layer = Regrouped(@, rs)])
    BY <1>1, MemosKeep DEF Keeps, ServiceFields
  <2>2. ASSUME NEW r, NEW rs PROVE Keeps(s, [Witnessed(s, r) EXCEPT !.layer = Regrouped(@, rs)])
    <3>1. ServiceFields \subseteq DOMAIN Witnessed(s, r) /\ Witnessed(s, r).belief = s.belief /\ Witnessed(s, r).layer = s.layer
      BY <1>1 DEF Witnessed, ServiceFields
    <3> QED BY <1>1, <3>1, MemosKeep DEF Keeps, ServiceFields
  <2> QED BY <2>1, <2>2 DEF Searched
<1>4. Keeps(s, Looked(s))
  BY <1>2, <1>3 DEF Looked
<1> DEFINE stamp == <<s.layer.frontierRev, s.marks.rev>>
           w == [Looked(s) EXCEPT !.watched = stamp]
<1>5. Keeps(s, w)
  BY <1>4 DEF Keeps, ServiceFields
<1>6. ASSUME NEW h PROVE Keeps(s, [w EXCEPT !.had = h]) /\ Keeps(s, [w EXCEPT !.watched = h])
  <2> HIDE DEF w
  <2> QED BY <1>5 DEF Keeps, ServiceFields
<1>7. Watched(s, cell) =
        IF s.watched = stamp THEN s
        ELSE IF HasUnmarkedFrontier(s) THEN [w EXCEPT !.had = "yes"]
        ELSE IF s.had # "yes" THEN w
        ELSE IF Class(s.belief, cell) = "unknown" THEN [w EXCEPT !.watched = <<>>]
        ELSE [w EXCEPT !.had = "no"]
  BY DEF Watched
<1> HIDE DEF w, stamp
<1> QED BY <1>2, <1>5, <1>6, <1>7

\* What an action does to the map and the layer of a service.
LEMMA ActionsKeep ==
  ASSUME NEW s, ServiceOK(s), NEW c
  PROVE  Keeps(s, Marks(s, c)) /\ Keeps(s, MarksForNow(s, c)) /\ Keeps(s, EndsIteration(s)) /\ Keeps(s, Reads(s))
<1>1. LayerFields \subseteq DOMAIN s.layer /\ ServiceFields \subseteq DOMAIN s
  BY DEF ServiceOK, LayerOK
<1>2. Keeps(s, Grouping(s))
  BY <1>1, MemosKeep DEF Keeps, ServiceFields, Grouping
<1>3. Keeps(s, Marks(s, c))
  BY <1>2 DEF Marks, Keeps, ServiceFields
<1>4. Keeps(s, MarksForNow(s, c))
  BY <1>2 DEF MarksForNow, Keeps, ServiceFields
<1>5. Keeps(s, EndsIteration(s))
  BY <1>1 DEF EndsIteration, Keeps, ServiceFields, SameLayer
<1>6. Keeps(s, Reads(s))
  <2> DEFINE g == Grouping(s)
             w == WaypointsRead(g.layer, s.belief)
             e == EdgesRead(w, s.belief, s.view)
  <2>1. SameLayer(s.layer, g.layer)
    BY <1>2 DEF Keeps
  <2>2. SameLayer(g.layer, w)
    BY <2>1, MemosKeep DEF SameLayer
  <2>3. SameLayer(w, e)
    BY <2>2, MemosKeep DEF SameLayer
  <2>4. Reads(s) = [g EXCEPT !.layer = e]
    BY DEF Reads
  <2> HIDE DEF g, w, e
  <2>5. SameLayer(s.layer, e)
    BY <2>1, <2>2, <2>3 DEF SameLayer
  <2>6. ServiceFields \subseteq DOMAIN g /\ g.belief = s.belief
    BY <1>2 DEF Keeps, g
  <2> QED BY <2>4, <2>5, <2>6 DEF Keeps, ServiceFields
<1> QED BY <1>3, <1>4, <1>5, <1>6

\* A service whose map goes on.
LEMMA BelievesOK ==
  ASSUME NEW s, ServiceOK(s), NEW b, Follows(s.belief, b)
  PROVE  ServiceOK([s EXCEPT !.belief = b])
<1> DEFINE t == [s EXCEPT !.belief = b]
<1>1. ServiceFields \subseteq DOMAIN t /\ t.belief = b /\ t.layer = s.layer
  BY DEF ServiceOK, ServiceFields
<1> HIDE DEF t
<1>2. ServiceOK(t)
  BY <1>1, LayerFollows DEF ServiceOK, Follows
<1> QED BY <1>2 DEF t

\* A reading or a contact leaves a service in order.
LEMMA SensesOK ==
  ASSUME NEW s, ServiceOK(s)
  PROVE  /\ \A o \in Readings : ServiceOK(Observes(s, o)) /\ Follows(s.belief, Observes(s, o).belief)
         /\ \A c \in {o.cell : o \in Readings} : ServiceOK(Bumps(s, c)) /\ Follows(s.belief, Bumps(s, c).belief)
<1>1. \A o \in Readings : o.cell \in Cells
  BY ServiceAssumption
<1>2. ServiceFields \subseteq DOMAIN s /\ BeliefOK(s.belief)
  BY DEF ServiceOK
<1>3. ASSUME NEW o \in Readings
      PROVE  ServiceOK(Observes(s, o)) /\ Follows(s.belief, Observes(s, o).belief)
  <2> DEFINE b == IF o.hit THEN ObserveHit(s.belief, o.cell) ELSE ObserveFree(s.belief, o.cell)
  <2>1. Follows(s.belief, b)
    BY <1>1, <1>2, ReadingsFollow
  <2>2. Observes(s, o) = [s EXCEPT !.belief = b]
    BY DEF Observes
  <2> HIDE DEF b
  <2>3. Observes(s, o).belief = b
    BY <1>2, <2>2 DEF ServiceFields
  <2> QED BY <2>1, <2>2, <2>3, BelievesOK
<1>4. ASSUME NEW o \in Readings
      PROVE  ServiceOK(Bumps(s, o.cell)) /\ Follows(s.belief, Bumps(s, o.cell).belief)
  <2> DEFINE b == ObserveContact(s.belief, o.cell)
  <2>1. Follows(s.belief, b)
    BY <1>1, <1>2, ReadingsFollow
  <2>2. Bumps(s, o.cell) = [s EXCEPT !.belief = b]
    BY DEF Bumps
  <2> HIDE DEF b
  <2>3. Bumps(s, o.cell).belief = b
    BY <1>2, <2>2 DEF ServiceFields
  <2> QED BY <2>1, <2>2, <2>3, BelievesOK
<1> QED BY <1>3, <1>4

\* Nor does it change what a layer is right of.
LEMMA TakenLayer ==
  ASSUME NEW b, BeliefOK(b), NEW l, LayerOK(b, l)
  PROVE  LayerOK(Taken(b), l)
<1> DEFINE d == Taken(b)
<1>1. BeliefOK(d) /\ d.plan = b.plan /\ d.stamp = b.stamp /\ d.level = b.level
  BY TakenKeeps
<1> HIDE DEF d
<1>2. \A k \in Chunks : Unstamped(d, l.version, k) <=> Unstamped(b, l.version, k)
  BY <1>1 DEF Unstamped
<1>3. \A e \in Cells : Class(d, e) = Class(b, e)
  BY <1>1 DEF Class
<1>4. ASSUME NEW e \in Cells, \A x \in Sides[e] \cup {e} : Unstamped(d, l.version, ChunkOf[x])
      PROVE  e \in l.flags <=> IsFrontier(d, e)
  <2>1. \A x \in Sides[e] \cup {e} : x \in Cells /\ ChunkOf[x] \in Chunks
    BY GridAssumption
  <2> QED BY <1>2, <1>3, <1>4, <2>1, SameClasses DEF LayerOK
<1>5. ASSUME NEW k \in Chunks, Unstamped(d, l.version, k)
      PROVE  l.known[k] = KnownIn(d, k) /\ l.free[k] = FreeIn(d, k)
  <2>1. \A e \in ChunkCells[k] : e \in Cells
    BY DEF ChunkCells
  <2> QED BY <1>2, <1>3, <1>5, <2>1, SameClasses DEF LayerOK
<1>6. LayerOK(d, l)
  BY <1>1, <1>4, <1>5 DEF LayerOK
<1> QED BY <1>6 DEF d

\* The end of a tick: the delta is taken, then the layer is brought up to date.
LEMMA UpdatesOK ==
  ASSUME NEW s, ServiceOK(s), NEW c
  PROVE  /\ ServiceOK(Updates([s EXCEPT !.belief = Taken(@)], c))
         /\ Updates([s EXCEPT !.belief = Taken(@)], c).belief = Taken(s.belief)
<1> DEFINE b == Taken(s.belief)
           t == [s EXCEPT !.belief = b]
           view == Sync(t.view, t.belief)
           l == Update(t.layer, t.belief)
           m == Cleared(t.marks, view)
           n == Cleared(t.temporary, view)
           u == [t EXCEPT !.view = view, !.layer = l, !.marks = m, !.temporary = n]
<1>1. ServiceFields \subseteq DOMAIN s /\ BeliefOK(s.belief) /\ LayerOK(s.belief, s.layer)
  BY DEF ServiceOK
<1>2. ServiceFields \subseteq DOMAIN t /\ t.belief = b /\ t.layer = s.layer
  BY <1>1 DEF ServiceFields
<1>3. BeliefOK(b) /\ b.plan = s.belief.plan /\ b.stamp = s.belief.stamp /\ b.level = s.belief.level
  BY <1>1, TakenKeeps
<1>4. Updates(t, c) = Watched(u, c)
  BY DEF Updates
<1> HIDE DEF b
<1>6. LayerOK(b, s.layer)
  BY <1>1, TakenLayer DEF b
<1> HIDE DEF t
<1>7. LayerOK(b, l)
  BY <1>2, <1>3, <1>6, UpdateIsRight
<1> HIDE DEF view, l, m, n
<1>8. ServiceFields \subseteq DOMAIN u /\ u.belief = b /\ u.layer = l
  BY <1>2 DEF ServiceFields
<1> HIDE DEF u
<1>9. ServiceOK(u)
  BY <1>3, <1>7, <1>8 DEF ServiceOK
<1>10. Keeps(u, Watched(u, c))
  BY <1>9, WatchedKeeps
<1>11. ServiceOK(Watched(u, c)) /\ Watched(u, c).belief = b
  BY <1>8, <1>9, <1>10, KeepsOK DEF Keeps
<1> QED BY <1>4, <1>11 DEF t, b

\* A service that is assembled is in order.
LEMMA AssembledOK ==
  ASSUME NEW b, BeliefOK(b), NEW p, NEW c
  PROVE  ServiceOK(Assembled(b, p, c)) /\ Assembled(b, p, c).belief = b
<1> DEFINE s == [belief |-> b, view |-> Built(b, p), layer |-> NewLayer(b), marks |-> NoMarks,
                 temporary |-> NoMarks, had |-> "never", witness |-> {}, watched |-> <<>>]
<1>1. ServiceFields \subseteq DOMAIN s /\ s.belief = b /\ s.layer = NewLayer(b)
  BY DEF ServiceFields
<1>2. Assembled(b, p, c) = Watched(s, c)
  BY DEF Assembled
<1> HIDE DEF s
<1>3. ServiceOK(s)
  BY <1>1, NewLayerIsRight DEF ServiceOK
<1>4. Keeps(s, Watched(s, c))
  BY <1>3, WatchedKeeps
<1> QED BY <1>1, <1>2, <1>3, <1>4, KeepsOK DEF Keeps

\* So is one that is restored.
LEMMA RestoredOK ==
  ASSUME NEW s, ServiceOK(s), NEW b
  PROVE  ServiceOK(Restored(s, b))
<1>1. /\ ServiceFields \subseteq DOMAIN Restored(s, b)
      /\ Restored(s, b).belief = s.belief /\ Restored(s, b).layer = NewLayer(s.belief)
  BY DEF Restored, ServiceOK, ServiceFields
<1> QED BY <1>1, NewLayerIsRight DEF ServiceOK

(***************************************************************************)
(* The steps                                                               *)
(***************************************************************************)
\* The service that is made first is in order.
LEMMA InitOK == Init => IInv
<1> SUFFICES ASSUME Init PROVE IInv
  OBVIOUS
<1>1. BeliefOK(NewBelief) /\ NewBelief.measured = {} /\ NewBelief.touched = {}
  BY DEF BeliefOK, BeliefFields, NewBelief
<1>2. PICK p \in Profiles, c \in Posts : run = Assembled(NewBelief, p, c)
  BY DEF Init
<1>3. ServiceOK(run)
  BY <1>1, <1>2, AssembledOK
<1> QED BY <1>1, <1>3 DEF Init, IInv

\* A step that reads or marks: maps and layers are as they were.
LEMMA KeepingStep ==
  ASSUME IInv, Keeps(run, run'), \A t \in twin' : \E s \in twin : Keeps(s, t),
         pc' = "acting", UNCHANGED <<prior, replica>>, pc # "prior"
  PROVE  IInv'
<1>1. ServiceOK(run')
  BY KeepsOK DEF IInv
<1>2. \A t \in twin' : ServiceOK(t)
  BY KeepsOK DEF IInv
<1>3. ReplicaOK'
  BY DEF IInv, ReplicaOK, Keeps
<1> QED BY <1>1, <1>2, <1>3 DEF IInv

\* A step that senses: maps go on.
LEMMA SensingStep ==
  ASSUME IInv, ServiceOK(run'), Follows(run.belief, run'.belief), \A t \in twin' : ServiceOK(t),
         pc' \in {"acting", "sensing"}, UNCHANGED <<prior, replica>>, pc # "prior"
  PROVE  IInv'
<1>1. ReplicaOK'
  BY DEF IInv, ReplicaOK, Follows
<1> QED BY <1>1 DEF IInv

\* Every step keeps the invariant.
LEMMA StepOK == IInv /\ [Next]_vars => IInv'
<1> SUFFICES ASSUME IInv, [Next]_vars PROVE IInv'
  OBVIOUS
<1>1. ServiceOK(run) /\ BeliefOK(run.belief) /\ \A s \in twin : ServiceOK(s)
  BY DEF IInv, ServiceOK
<1>2. ASSUME NEW c \in Cells, Know(c) PROVE IInv'
  <2>1. prior' = SetLevel(prior, c, -Threshold) /\ -Threshold \in Int
    BY <1>2, BeliefAssumption DEF Know
  <2>2. Follows(prior, prior')
    BY <2>1, SetLevelFollows DEF IInv
  <2>3. BeliefOK(prior') /\ prior'.measured \subseteq Cells
    BY <2>2 DEF Follows, IInv
  <2> QED BY <1>2, <2>3 DEF Know, IInv
<1>3. CASE Assemble
  <2>1. /\ BeliefOK(prior') /\ prior'.touched = {} /\ prior'.level = prior.level
        /\ prior'.measured = prior.measured
    BY <1>3, TakenKeeps DEF IInv, Assemble
  <2>2. ServiceOK(run') /\ run'.belief = prior'
    BY <1>3, <2>1, AssembledOK DEF Assemble
  <2>3. replica' = prior /\ twin' = twin /\ prior.level \in [Cells -> Int] /\ prior.measured \subseteq Cells
    BY <1>3 DEF Assemble, IInv, BeliefOK
  <2>4. ReplicaOK'
    BY <2>1, <2>2, <2>3 DEF ReplicaOK
  <2> QED BY <1>1, <2>1, <2>2, <2>3, <2>4 DEF IInv
<1>4. ASSUME NEW c \in {o.cell : o \in Readings}, Bump(c) PROVE IInv'
  <2>1. /\ run' = Bumps(run, c) /\ twin' = {Bumps(s, c) : s \in twin}
        /\ pc' = "acting" /\ pc # "prior" /\ UNCHANGED <<prior, replica>>
    BY <1>4 DEF Bump, Act, Both
  <2> QED BY <1>1, <2>1, SensesOK, SensingStep
<1>5. ASSUME NEW c, Mark(c) PROVE IInv'
  <2>1. /\ run' = Marks(run, c) /\ twin' = {Marks(s, c) : s \in twin}
        /\ pc' = "acting" /\ pc # "prior" /\ UNCHANGED <<prior, replica>>
    BY <1>5 DEF Mark, Act, Both
  <2> QED BY <1>1, <2>1, ActionsKeep, KeepingStep
<1>6. ASSUME NEW c, MarkForNow(c) PROVE IInv'
  <2>1. /\ run' = MarksForNow(run, c) /\ twin' = {MarksForNow(s, c) : s \in twin}
        /\ pc' = "acting" /\ pc # "prior" /\ UNCHANGED <<prior, replica>>
    BY <1>6 DEF MarkForNow, Act, Both
  <2> QED BY <1>1, <2>1, ActionsKeep, KeepingStep
<1>7. CASE EndIteration
  <2>1. /\ run' = EndsIteration(run) /\ twin' = {EndsIteration(s) : s \in twin}
        /\ pc' = "acting" /\ pc # "prior" /\ UNCHANGED <<prior, replica>>
    BY <1>7 DEF EndIteration, Act, Both
  <2> QED BY <1>1, <2>1, ActionsKeep, KeepingStep
<1>8. CASE Read
  <2>1. /\ run' = Reads(run) /\ twin' = {Reads(s) : s \in twin}
        /\ pc' = "acting" /\ pc # "prior" /\ UNCHANGED <<prior, replica>>
    BY <1>8 DEF Read, Act, Both
  <2> QED BY <1>1, <2>1, ActionsKeep, KeepingStep
<1>9. ASSUME NEW o \in Readings, Observe(o) PROVE IInv'
  <2>1. /\ run' = Observes(run, o) /\ twin' = {Observes(s, o) : s \in twin}
        /\ pc' = "sensing" /\ pc # "prior" /\ UNCHANGED <<prior, replica>>
    BY <1>9 DEF Observe, Both
  <2> QED BY <1>1, <2>1, SensesOK, SensingStep
<1>10. ASSUME NEW c \in Posts, Settle(c) PROVE IInv'
  <2>1. /\ run' = Updates([run EXCEPT !.belief = Taken(@)], c)
        /\ twin' = {Updates([s EXCEPT !.belief = Taken(@)], c) : s \in twin}
        /\ replica' = ApplyCellDelta(replica, CellDelta(run.belief))
        /\ pc # "prior" /\ UNCHANGED prior
    BY <1>10 DEF Settle, Both
  <2>2. ServiceOK(run') /\ run'.belief = Taken(run.belief) /\ \A t \in twin' : ServiceOK(t)
    BY <1>1, <2>1, UpdatesOK
  <2>3. /\ run'.belief.touched = {} /\ run'.belief.level = run.belief.level
        /\ run'.belief.measured = run.belief.measured
    BY <1>1, <2>2, TakenKeeps
  <2>4. /\ replica'.level = [c_ \in Cells |-> IF c_ \in run.belief.touched THEN run.belief.level[c_] ELSE replica.level[c_]]
        /\ replica'.measured = (replica.measured \ run.belief.touched) \cup (run.belief.touched \cap run.belief.measured)
    BY <2>1 DEF ApplyCellDelta, CellDelta
  <2>5. /\ replica.level \in [Cells -> Int] /\ run.belief.level \in [Cells -> Int]
        /\ replica.measured \subseteq Cells /\ run.belief.measured \subseteq Cells
        /\ \A d \in Cells \ run.belief.touched :
             replica.level[d] = run.belief.level[d] /\ (d \in replica.measured <=> d \in run.belief.measured)
    BY <1>1, <2>1 DEF IInv, ReplicaOK, BeliefOK
  <2>6. replica'.level \in [Cells -> Int] /\ replica'.measured \subseteq Cells
    BY <2>4, <2>5
  <2>7. \A d \in Cells : replica'.level[d] = run.belief.level[d] /\ (d \in replica'.measured <=> d \in run.belief.measured)
    BY <2>4, <2>5
  <2>8. ReplicaOK'
    BY <2>3, <2>5, <2>6, <2>7 DEF ReplicaOK
  <2> QED BY <2>1, <2>2, <2>3, <2>8 DEF IInv
<1>11. CASE Fork
  <2>1. twin' = {Restored(run, prior)} /\ UNCHANGED <<run, prior, replica, pc>>
    BY <1>11 DEF Fork
  <2>2. \A t \in twin' : ServiceOK(t)
    BY <1>1, <2>1, RestoredOK
  <2>3. ReplicaOK' <=> ReplicaOK
    BY <2>1 DEF ReplicaOK
  <2> QED BY <1>1, <2>1, <2>2, <2>3 DEF IInv
<1>12. CASE UNCHANGED vars
  BY <1>12 DEF vars, IInv, ReplicaOK
<1> QED BY <1>2, <1>3, <1>4, <1>5, <1>6, <1>7, <1>8, <1>9, <1>10, <1>11, <1>12 DEF Next

\* The inductive invariant holds of every run.
THEOREM Invariant == Spec => []IInv
BY InitOK, StepOK, PTL DEF Spec

\* Once it was brought up to date, the layer of the run and of every run restored
\* from it has the flags and the counts a scan of the whole map gives
\* (topology.ts, update).
THEOREM LayersStayCurrent == Spec => []LayerIsCurrent
<1>1. ASSUME NEW s, ServiceOK(s) PROVE LayerIsCurrentFor(s)
  <2> SUFFICES ASSUME s.layer.version = s.belief.plan
               PROVE  /\ s.layer.flags = Frontier(s.belief)
                      /\ \A k \in Chunks : s.layer.known[k] = KnownIn(s.belief, k) /\ s.layer.free[k] = FreeIn(s.belief, k)
    BY DEF LayerIsCurrentFor
  <2>1. \A k \in Chunks : Unstamped(s.belief, s.layer.version, k)
    BY <1>1 DEF ServiceOK, BeliefOK, Unstamped
  <2>2. ASSUME NEW c \in Cells PROVE c \in s.layer.flags <=> IsFrontier(s.belief, c)
    <3>1. \A d \in Sides[c] \cup {c} : ChunkOf[d] \in Chunks
      BY GridAssumption
    <3> QED BY <1>1, <2>1, <3>1 DEF ServiceOK, LayerOK
  <2> QED BY <1>1, <2>1, <2>2 DEF ServiceOK, LayerOK, Frontier
<1>2. IInv => LayerIsCurrent
  BY <1>1 DEF IInv, LayerIsCurrent, Services
<1> QED BY <1>2, Invariant, PTL

\* The recorded deltas rebuild the map, cell by cell, tick after tick
\* (belief-map.ts, takeCellDelta and applyCellDelta).
THEOREM DeltasStayComplete == Spec => []DeltasRebuildTheMap
<1>1. ASSUME IInv, pc = "between"
      PROVE  replica.level = run.belief.level /\ replica.measured = run.belief.measured
  BY <1>1 DEF IInv, ReplicaOK, ServiceOK, BeliefOK
<1>2. IInv => DeltasRebuildTheMap
  BY <1>1 DEF DeltasRebuildTheMap
<1> QED BY <1>2, Invariant, PTL
(***************************************************************************)
(* The view, the memos, the marks and the report of a service              *)
(***************************************************************************)
\* The log holds the newest changes, one for each version.
LogOK(b) ==
  /\ b.log \in Seq(Cells) /\ Len(b.log) <= LogSize
  /\ b.first \in Nat \ {0} /\ b.plan = b.first - 1 + Len(b.log)

\* One map grows out of another: what a reader of the other's version has not seen is
\* behind a stamp, and in the log as far as that goes back.
Grows(b, d) ==
  /\ BeliefOK(d) /\ LogOK(d)
  /\ b.plan <= d.plan
  /\ \A k \in Chunks : d.stamp[k] = b.stamp[k] \/ d.stamp[k] > b.plan
  /\ \A c \in Cells : Class(d, c) = Class(b, c) \/ d.stamp[ChunkOf[c]] > b.plan
  /\ \A v \in 0..b.plan :
       LogReaches(d, v) => LogReaches(b, v) /\ CellsChangedSince(b, v) \subseteq CellsChangedSince(d, v)
  /\ LogReaches(d, b.plan) => \A c \in Cells : Class(d, c) = Class(b, c) \/ c \in CellsChangedSince(d, b.plan)

\* The views of a vehicle, whatever they say.
ViewState ==
  [profile : Profiles, open : SUBSET Cells, pass : SUBSET Cells, unknown : SUBSET Cells, synced : Nat,
   content : Nat, stamp : [Chunks -> Nat]]

\* A view is right of a cell, its inflation left aside.
BaseRight(b, v, c) == (c \in v.open <=> Open(b, c)) /\ (c \in v.unknown <=> Class(b, c) = "unknown")

\* What inflation makes of the cells that are open.
Fits(v) == v.pass = {c \in Cells : MaskAt(v.open, c)}

\* A view that is behind fits itself, and is right wherever neither the stamps nor the
\* log say otherwise.
ViewOK(b, v) ==
  /\ v \in ViewState /\ v.synced <= b.plan /\ Fits(v)
  /\ \A k \in Chunks : v.stamp[k] <= v.content
  /\ \A c \in Cells : (\A d \in Sides[c] \cup {c} : Unstamped(b, v.synced, ChunkOf[d])) => BaseRight(b, v, c)
  /\ LogReaches(b, v.synced) =>
       \A c \in Cells : (Sides[c] \cup {c}) \cap CellsChangedSince(b, v.synced) = {} => BaseRight(b, v, c)

\* A memo that is not due is what would be computed now, but for chunks stamped since.
MemosOK(b, v, l) ==
  /\ l.version = v.synced
  /\ l.rev \in [Regions -> Nat] /\ l.frontierRev \in Nat
  /\ DOMAIN l.groups = Regions /\ DOMAIN l.waypoint = Regions /\ DOMAIN l.edge = Edges
  /\ \A r \in Regions \ l.stale : l.groups[r] = Grouped(l.flags, r)
  /\ \A r \in Regions \ l.recount :
       (\A k \in Chunks : RegionOf[k] = r => Unstamped(b, l.version, k)) => l.waypoint[r] = WaypointOf(b, l, r)
  /\ \A e \in Edges \ l.edgeDirty :
       e \notin EdgesNear(ChunksChangedSince(b, l.version)) => l.edge[e] = Crossing(b, v, e)

\* Marks that are there follow the view as it is.
MarksOK(m, view) ==
  /\ m \in [cells : SUBSET Cells, at : Nat, rev : Nat]
  /\ m.cells # {} => m.at = view.content

\* A witness whose region has not moved is a group of it.
WitnessOK(s) ==
  \A w \in s.witness :
    /\ w.region \in Regions /\ w.rev \in Nat /\ w.rev <= s.layer.rev[w.region]
    /\ w.rev = s.layer.rev[w.region] => w.group \in Grouped(s.layer.flags, w.region)

\* Whether a frontier is left, by the flags.
Left(s) == \E r \in Regions : \E g \in Grouped(s.layer.flags, r) : ~IsMarked(s.marks, g)

\* What was told at the present revisions holds still.
WatchedOK(s) ==
  \/ s.watched = <<>>
  \/ /\ s.watched \in Nat \X Nat
     /\ s.watched[1] <= s.layer.frontierRev /\ s.watched[2] <= s.marks.rev
     /\ s.watched = <<s.layer.frontierRev, s.marks.rev>> => (Left(s) <=> s.had = "yes")

\* One service.
ChainOK(s) ==
  /\ LogOK(s.belief) /\ ViewOK(s.belief, s.view) /\ MemosOK(s.belief, s.view, s.layer)
  /\ MarksOK(s.marks, s.view) /\ MarksOK(s.temporary, s.view)
  /\ WitnessOK(s) /\ WatchedOK(s)

\* At the end of a tick everything is brought up to date and told.
SettledOK(s, cell) ==
  /\ s.layer.version = s.belief.plan
  /\ Left(s) => s.had = "yes"
  /\ s.had = "yes" /\ ~Left(s) => Class(s.belief, cell) = "unknown"

\* Two views that differ in how they count their changes.
SameView(v, w) ==
  /\ w.profile = v.profile /\ w.open = v.open /\ w.pass = v.pass /\ w.unknown = v.unknown /\ w.synced = v.synced

\* Two services that differ in their memos and in how they count.
Alike(s, t) ==
  /\ t.belief = s.belief
  /\ SameView(s.view, t.view)
  /\ t.layer.version = s.layer.version /\ t.layer.flags = s.layer.flags
  /\ t.marks.cells = s.marks.cells /\ t.temporary.cells = s.temporary.cells
  /\ t.had = s.had

\* Every service; what it went on from; and what a twin has in common with the run.
ChainInv ==
  /\ \A s \in Services : ChainOK(s)
  /\ LogOK(prior)
  /\ pc = "prior" => twin = {}
  /\ pc # "prior" => Grows(prior, run.belief)
  /\ pc = "between" => \A s \in Services : SettledOK(s, post)
  /\ \A s \in twin : Alike(run, s)

(***************************************************************************)
(* The log                                                                 *)
(***************************************************************************)
\* A log that takes one cell more names it to every reader it still reaches.
LEMMA LoggedOn ==
  ASSUME NEW b, BeliefOK(b), LogOK(b), NEW c \in Cells,
         NEW t, t.log = Logged(b, c).log, t.first = Logged(b, c).first, t.plan = b.plan + 1
  PROVE  /\ LogOK(t)
         /\ \A v \in 0..b.plan : LogReaches(t, v) =>
              /\ LogReaches(b, v) /\ c \in CellsChangedSince(t, v)
              /\ CellsChangedSince(b, v) \subseteq CellsChangedSince(t, v)
<1> DEFINE h == LogSize \div 2
           n == Len(b.log)
<1>1. /\ b.log \in Seq(Cells) /\ n \in Nat /\ n <= LogSize /\ LogSize \in Nat /\ LogSize >= 2
      /\ b.first \in Nat \ {0} /\ b.plan = b.first - 1 + n /\ b.plan \in Nat
      /\ {"log", "first"} \subseteq DOMAIN b
  BY BeliefAssumption DEF LogOK, BeliefOK, BeliefFields
<1>2. h \in Nat /\ h >= 1 /\ h < LogSize
  BY <1>1
<1> HIDE DEF h
<1>3. CASE n < LogSize
  <2>1. t.log = Append(b.log, c) /\ t.first = b.first
    BY <1>1, <1>3 DEF Logged
  <2>2. /\ t.log \in Seq(Cells) /\ Len(t.log) = n + 1
        /\ \A j \in 1..n : t.log[j] = b.log[j]
        /\ t.log[n + 1] = c
    BY <1>1, <2>1, AppendedOne
  <2>3. LogOK(t)
    BY <1>1, <1>3, <2>1, <2>2 DEF LogOK
  <2>4. ASSUME NEW v \in 0..b.plan, LogReaches(t, v)
        PROVE  /\ LogReaches(b, v) /\ c \in CellsChangedSince(t, v)
               /\ CellsChangedSince(b, v) \subseteq CellsChangedSince(t, v)
    <3>1. v - b.first + 2 \in 1..(n + 1)
      BY <1>1, <2>1, <2>4 DEF LogReaches
    <3>2. CellsChangedSince(t, v) = {t.log[i] : i \in (v - b.first + 2)..(n + 1)}
      BY <2>1, <2>2 DEF CellsChangedSince
    <3>3. c \in CellsChangedSince(t, v)
      <4>1. n + 1 \in (v - b.first + 2)..(n + 1)
        BY <1>1, <3>1
      <4> QED BY <2>2, <3>2, <4>1
    <3>4. ASSUME NEW i \in (v - b.first + 2)..n PROVE b.log[i] \in CellsChangedSince(t, v)
      <4>1. i \in 1..n /\ i \in (v - b.first + 2)..(n + 1)
        BY <1>1, <3>1
      <4> QED BY <2>2, <3>2, <4>1
    <3>5. CellsChangedSince(b, v) \subseteq CellsChangedSince(t, v)
      BY <3>4 DEF CellsChangedSince
    <3> QED BY <2>1, <2>4, <3>3, <3>5 DEF LogReaches
  <2> QED BY <2>3, <2>4
<1>4. CASE n = LogSize
  <2> DEFINE s == SubSeq(b.log, h + 1, LogSize)
             m == LogSize - h
  <2>1. t.log = Append(s, c) /\ t.first = b.first + h
    <3> DEFINE q == Append(s, c)
               f == b.first + h
               d == [b EXCEPT !.log = q, !.first = f]
    <3>1. ~(n < LogSize)
      BY <1>1, <1>4
    <3>2. Logged(b, c) = d
      BY <3>1 DEF Logged, h
    <3> HIDE DEF q, f
    <3>3. d.log = q /\ d.first = f
      BY <1>1
    <3> HIDE DEF d
    <3>4. t.log = q /\ t.first = f
      BY <3>2, <3>3
    <3> QED BY <3>4 DEF q, f
  <2>2. s \in Seq(Cells) /\ Len(s) = m /\ m \in Nat /\ \A j \in 1..m : s[j] = b.log[j + h]
    <3> DEFINE lo == h + 1
    <3>1. lo \in Int /\ LogSize \in Int /\ lo <= LogSize /\ lo \in 1..n /\ m \in Nat
      BY <1>1, <1>2, <1>4
    <3>2. \A i \in lo..LogSize : b.log[i] \in Cells
      BY <1>1, <1>4, <3>1
    <3>3. LogSize - lo + 1 = m /\ \A j \in 1..m : lo + j - 1 = j + h
      BY <1>1, <1>2
    <3>4. s = SubSeq(b.log, lo, LogSize)
      OBVIOUS
    <3> HIDE DEF lo, s, m
    <3>5. /\ s \in Seq(Cells) /\ Len(s) = LogSize - lo + 1
          /\ \A j \in 1..(LogSize - lo + 1) : s[j] = b.log[lo + j - 1]
      BY <3>1, <3>2, <3>4, SubSeqProperties
    <3> QED BY <3>1, <3>3, <3>5
  <2> HIDE DEF s
  <2>3. /\ t.log \in Seq(Cells) /\ Len(t.log) = m + 1
        /\ \A j \in 1..m : t.log[j] = s[j]
        /\ t.log[m + 1] = c
    BY <2>1, <2>2, AppendedOne
  <2>4. LogOK(t)
    <3>1. b.first + h \in Nat \ {0} /\ m + 1 <= LogSize /\ b.plan + 1 = (b.first + h) - 1 + (m + 1)
      BY <1>1, <1>2, <1>4
    <3> QED BY <2>1, <2>3, <3>1 DEF LogOK
  <2>5. ASSUME NEW v \in 0..b.plan, LogReaches(t, v)
        PROVE  /\ LogReaches(b, v) /\ c \in CellsChangedSince(t, v)
               /\ CellsChangedSince(b, v) \subseteq CellsChangedSince(t, v)
    <3> DEFINE f == v - (b.first + h) + 2
    <3>1. f \in 1..(m + 1)
      <4> DEFINE g == t.first
      <4>1. v >= g - 1
        BY <2>5 DEF LogReaches
      <4>2. g = b.first + h
        BY <2>1
      <4> HIDE DEF g
      <4>3. v \in Nat /\ v <= b.plan
        BY <1>1
      <4>4. b.plan = b.first - 1 + LogSize /\ b.first \in Nat /\ LogSize \in Nat
        BY <1>1, <1>4
      <4>5. b.first + h - 1 <= v /\ v <= b.first - 1 + LogSize
        BY <1>1, <1>2, <4>1, <4>2, <4>3, <4>4
      <4> QED BY <1>2, <4>3, <4>4, <4>5
    <3>2. CellsChangedSince(t, v) = {t.log[i] : i \in f..(m + 1)}
      BY <2>1, <2>3 DEF CellsChangedSince
    <3>3. c \in CellsChangedSince(t, v)
      <4>1. m + 1 \in f..(m + 1)
        BY <2>2, <3>1
      <4> QED BY <2>3, <3>2, <4>1
    <3>4. ASSUME NEW i \in (v - b.first + 2)..n PROVE b.log[i] \in CellsChangedSince(t, v)
      <4>0. v \in Int /\ b.first \in Int /\ h \in Int /\ n \in Int
        BY <1>1, <1>2
      <4>1. /\ f \in Int /\ f >= 1 /\ v - b.first + 2 = f + h
            /\ i \in Int /\ i >= v - b.first + 2 /\ i <= n
        <5>1. f \in Int /\ v - b.first + 2 = f + h
          BY <4>0
        <5>2. f >= 1
          <6> HIDE DEF f
          <6> QED BY <3>1, <5>1
        <5> QED BY <4>0, <5>1, <5>2
      <4>2. i - h \in 1..m /\ i - h \in f..(m + 1) /\ (i - h) + h = i
        <5> HIDE DEF f
        <5> QED BY <1>1, <1>2, <1>4, <4>1
      <4>3. t.log[i - h] = b.log[i]
        BY <2>2, <2>3, <4>2
      <4> QED BY <3>2, <4>2, <4>3
    <3>5. CellsChangedSince(b, v) \subseteq CellsChangedSince(t, v)
      BY <3>4 DEF CellsChangedSince
    <3>6. LogReaches(b, v)
      BY <1>1, <1>2, <2>1, <2>5 DEF LogReaches
    <3> QED BY <3>3, <3>5, <3>6
  <2> QED BY <2>4, <2>5
<1> QED BY <1>1, <1>3, <1>4

\* Every map grows out of itself.
LEMMA GrowsItself ==
  ASSUME NEW b, BeliefOK(b), LogOK(b) PROVE Grows(b, b)
BY DEF Grows, BeliefOK

\* The log from an older version names what it names from a newer one.
LEMMA LogWidens ==
  ASSUME NEW b, LogOK(b), NEW u \in Nat, NEW v \in Nat, u <= v
  PROVE  CellsChangedSince(b, v) \subseteq CellsChangedSince(b, u)
<1>1. b.first \in Nat /\ Len(b.log) \in Nat
  BY DEF LogOK
<1>2. \A i \in (v - b.first + 2)..Len(b.log) : i \in (u - b.first + 2)..Len(b.log)
  BY <1>1
<1> QED BY <1>2 DEF CellsChangedSince

\* What grows out of a map that grew out of another grows out of that.
LEMMA GrowsOn ==
  ASSUME NEW b, BeliefOK(b), NEW d, Grows(b, d), NEW e, Grows(d, e)
  PROVE  Grows(b, e)
<1>1. /\ BeliefOK(d) /\ BeliefOK(e) /\ LogOK(e) /\ b.plan <= d.plan /\ d.plan <= e.plan /\ b.plan <= e.plan
      /\ b.plan \in Nat /\ d.plan \in Nat /\ e.plan \in Nat
  BY DEF Grows, BeliefOK
<1>2. ASSUME NEW k \in Chunks PROVE e.stamp[k] = b.stamp[k] \/ e.stamp[k] > b.plan
  BY <1>1 DEF Grows, BeliefOK
<1>3. ASSUME NEW c \in Cells PROVE Class(e, c) = Class(b, c) \/ e.stamp[ChunkOf[c]] > b.plan
  <2>1. ChunkOf[c] \in Chunks
    BY GridAssumption
  <2>2. e.stamp[ChunkOf[c]] = d.stamp[ChunkOf[c]] \/ e.stamp[ChunkOf[c]] > d.plan
    BY <2>1 DEF Grows
  <2>3. Class(e, c) = Class(d, c) \/ e.stamp[ChunkOf[c]] > d.plan
    BY DEF Grows
  <2>4. Class(d, c) = Class(b, c) \/ d.stamp[ChunkOf[c]] > b.plan
    BY DEF Grows
  <2>5. e.stamp[ChunkOf[c]] \in Nat
    BY <1>1, <2>1 DEF BeliefOK
  <2> QED BY <1>1, <2>2, <2>3, <2>4, <2>5
<1>4. ASSUME NEW v \in 0..b.plan, LogReaches(e, v)
      PROVE  LogReaches(b, v) /\ CellsChangedSince(b, v) \subseteq CellsChangedSince(e, v)
  <2>1. v \in 0..d.plan
    BY <1>1
  <2>2. LogReaches(d, v) /\ CellsChangedSince(d, v) \subseteq CellsChangedSince(e, v)
    BY <1>4, <2>1 DEF Grows
  <2>3. LogReaches(b, v) /\ CellsChangedSince(b, v) \subseteq CellsChangedSince(d, v)
    BY <2>2 DEF Grows
  <2> QED BY <2>2, <2>3
<1>5. ASSUME LogReaches(e, b.plan), NEW c \in Cells
      PROVE  Class(e, c) = Class(b, c) \/ c \in CellsChangedSince(e, b.plan)
  <2>1. b.plan \in 0..d.plan
    BY <1>1
  <2>2. LogReaches(d, b.plan) /\ CellsChangedSince(d, b.plan) \subseteq CellsChangedSince(e, b.plan)
    BY <1>5, <2>1 DEF Grows
  <2>3. Class(d, c) = Class(b, c) \/ c \in CellsChangedSince(d, b.plan)
    BY <2>2 DEF Grows
  <2>4. LogReaches(e, d.plan)
    BY <1>1, <1>5 DEF LogReaches, LogOK
  <2>5. Class(e, c) = Class(d, c) \/ c \in CellsChangedSince(e, d.plan)
    BY <2>4 DEF Grows
  <2>6. CellsChangedSince(e, d.plan) \subseteq CellsChangedSince(e, b.plan)
    BY <1>1, LogWidens
  <2> QED BY <2>2, <2>3, <2>5, <2>6
<1> QED BY <1>1, <1>2, <1>3, <1>4, <1>5 DEF Grows

\* A change that planning hears of.
LEMMA TouchPlanGrows ==
  ASSUME NEW b, BeliefOK(b), LogOK(b), NEW w, BeliefOK(w), NEW c \in Cells,
         w.plan = b.plan, w.stamp = b.stamp, w.log = b.log, w.first = b.first,
         \A d \in Cells \ {c} : w.level[d] = b.level[d]
  PROVE  Grows(b, TouchPlan(w, c)) /\ BeliefOK(TouchPlan(w, c))
<1> DEFINE l == Logged(w, c)
           t == TouchPlan(w, c)
<1>1. DOMAIN l = DOMAIN w /\ l.level = w.level /\ l.plan = w.plan /\ l.stamp = w.stamp
  BY DEF Logged, BeliefFields, BeliefOK
<1>2. t = [l EXCEPT !.plan = w.plan + 1, !.stamp[ChunkOf[c]] = w.plan + 1]
  BY DEF TouchPlan
<1>3. ChunkOf[c] \in Chunks /\ BeliefFields \subseteq DOMAIN w
  BY GridAssumption DEF BeliefOK
<1> HIDE DEF l, t
<1>4. /\ DOMAIN t = DOMAIN w /\ t.level = w.level /\ t.log = l.log /\ t.first = l.first
      /\ t.plan = b.plan + 1 /\ t.stamp = [b.stamp EXCEPT ![ChunkOf[c]] = b.plan + 1]
  BY <1>1, <1>2, <1>3 DEF BeliefFields
<1>5. BeliefOK(t)
  BY <1>3, <1>4 DEF BeliefOK
<1>6. \A k \in Chunks : t.stamp[k] = b.stamp[k] \/ t.stamp[k] > b.plan
  BY <1>3, <1>4 DEF BeliefOK
<1>7. \A d \in Cells \ {c} : Class(t, d) = Class(b, d)
  BY <1>4 DEF Class
<1>8. t.stamp[ChunkOf[c]] > b.plan /\ b.plan <= t.plan
  BY <1>3, <1>4 DEF BeliefOK
<1>9. /\ LogOK(t)
      /\ \A v \in 0..b.plan : LogReaches(t, v) =>
           /\ LogReaches(b, v) /\ c \in CellsChangedSince(t, v)
           /\ CellsChangedSince(b, v) \subseteq CellsChangedSince(t, v)
  <2>1. LogOK(w)
    BY DEF LogOK
  <2>2. t.plan = w.plan + 1 /\ t.log = Logged(w, c).log /\ t.first = Logged(w, c).first
    BY <1>4 DEF l
  <2>3. \A v : /\ LogReaches(w, v) <=> LogReaches(b, v)
               /\ CellsChangedSince(w, v) = CellsChangedSince(b, v)
    BY DEF LogReaches, CellsChangedSince
  <2> QED BY <2>1, <2>2, <2>3, LoggedOn
<1>10. b.plan \in 0..b.plan
  BY DEF BeliefOK
<1>11. Grows(b, t)
  BY <1>5, <1>6, <1>7, <1>8, <1>9, <1>10 DEF Grows
<1> QED BY <1>5, <1>11 DEF t

\* Readings and contacts leave a map that grows out of the one before.
LEMMA SetLevelGrows ==
  ASSUME NEW b, BeliefOK(b), LogOK(b), NEW c \in Cells, NEW v \in Int
  PROVE  Grows(b, SetLevel(b, c, v))
<1> DEFINE w == Written(b, c, v)
<1>1. /\ BeliefOK(w) /\ \A d \in Cells \ {c} : w.level[d] = b.level[d]
      /\ w.plan = b.plan /\ w.stamp = b.stamp /\ w.log = b.log /\ w.first = b.first
  BY DEF Written, BeliefOK, BeliefFields
<1>2. SetLevel(b, c, v) = IF v = b.level[c] THEN b ELSE IF Class(w, c) = Class(b, c) THEN w ELSE TouchPlan(w, c)
  BY DEF SetLevel
<1> HIDE DEF w
<1>3. Grows(b, TouchPlan(w, c))
  BY <1>1, TouchPlanGrows
<1>4. CASE Class(w, c) = Class(b, c)
  <2>1. \A d \in Cells : Class(w, d) = Class(b, d)
    BY <1>1, <1>4 DEF Class
  <2>2. LogOK(w)
    BY <1>1 DEF LogOK
  <2>3. \A u : /\ LogReaches(w, u) <=> LogReaches(b, u)
               /\ CellsChangedSince(w, u) = CellsChangedSince(b, u)
    BY <1>1 DEF LogReaches, CellsChangedSince
  <2>4. Grows(b, w)
    BY <1>1, <2>1, <2>2, <2>3 DEF Grows, BeliefOK
  <2> QED BY <1>2, <1>4, <2>4, GrowsItself
<1> QED BY <1>2, <1>3, <1>4, GrowsItself

\* A measure of the obstacle's top logs and stamps the cell.
LEMMA MeasuredGrows ==
  ASSUME NEW b, BeliefOK(b), LogOK(b), NEW c \in Cells
  PROVE  Grows(b, Measured(b, c))
<1> DEFINE w == [b EXCEPT !.measured = @ \cup {c}, !.touched = @ \cup {c}]
<1>1. /\ BeliefOK(w) /\ w.level = b.level
      /\ w.plan = b.plan /\ w.stamp = b.stamp /\ w.log = b.log /\ w.first = b.first
  BY DEF BeliefOK, BeliefFields
<1>2. Measured(b, c) = IF c \in b.measured THEN b ELSE TouchPlan(w, c)
  BY DEF Measured
<1> HIDE DEF w
<1>3. Grows(b, TouchPlan(w, c))
  BY <1>1, TouchPlanGrows
<1> QED BY <1>2, <1>3, GrowsItself

\* Every reading and every contact leaves a map that grew.
LEMMA ReadingsGrow ==
  ASSUME NEW b, BeliefOK(b), LogOK(b), NEW c \in Cells
  PROVE  /\ Grows(b, ObserveFree(b, c)) /\ Grows(b, ObserveHit(b, c)) /\ Grows(b, ObserveContact(b, c))
<1>0. b.level[c] \in Int /\ Lowered(b.level[c]) \in Int /\ Raised(b.level[c]) \in Int /\ Clamp \in Int
  BY BeliefAssumption DEF BeliefOK, Lowered, Raised
<1>1. Grows(b, ObserveFree(b, c))
  BY <1>0, SetLevelGrows DEF ObserveFree
<1>2. ASSUME NEW v \in Int PROVE Grows(b, Measured(SetLevel(b, c, v), c))
  <2>1. Grows(b, SetLevel(b, c, v)) /\ BeliefOK(SetLevel(b, c, v)) /\ LogOK(SetLevel(b, c, v))
    BY SetLevelGrows DEF Grows
  <2> QED BY <2>1, MeasuredGrows, GrowsOn
<1> QED BY <1>0, <1>1, <1>2 DEF ObserveHit, ObserveContact

\* Taking the delta changes nothing of that.
LEMMA TakenGrows ==
  ASSUME NEW b, BeliefOK(b), LogOK(b)
  PROVE  Grows(b, Taken(b)) /\ Taken(b).plan = b.plan
<1>1. /\ BeliefOK(Taken(b)) /\ Taken(b).plan = b.plan /\ Taken(b).stamp = b.stamp
      /\ Taken(b).level = b.level /\ Taken(b).log = b.log /\ Taken(b).first = b.first
  BY DEF Taken, BeliefOK, BeliefFields
<1>2. LogOK(Taken(b))
  BY <1>1 DEF LogOK
<1>3. \A v : /\ LogReaches(Taken(b), v) <=> LogReaches(b, v)
             /\ CellsChangedSince(Taken(b), v) = CellsChangedSince(b, v)
  BY <1>1 DEF LogReaches, CellsChangedSince
<1>4. \A c \in Cells : Class(Taken(b), c) = Class(b, c)
  BY <1>1 DEF Class
<1> QED BY <1>1, <1>2, <1>3, <1>4 DEF Grows, BeliefOK

(***************************************************************************)
(* Inflation, and a view over a map that changes                           *)
(***************************************************************************)
\* The two ways to inflate agree: what blocks a cell blocks it with a part that
\* touches an open cell.
LEMMA InflationsAgree ==
  ASSUME NEW open \in SUBSET Cells, NEW c \in Cells
  PROVE  Inflated(open, c) <=> MaskAt(open, c)
<1>1. ASSUME Inflated(open, c), ~MaskAt(open, c) PROVE FALSE
  <2> DEFINE s == Footprint[c] \ open
  <2>1. c \in open /\ c \notin Rim /\ \A d \in s : Corners[d] \cap open = {}
    BY <1>1 DEF Inflated
  <2>2. s \in (SUBSET Footprint[c]) \ {{}}
    BY <1>1, <2>1 DEF MaskAt
  <2> HIDE DEF s
  <2>3. PICK d \in s : Corners[d] \cap (({c} \cup Footprint[c]) \ s) # {}
    BY <2>2, ShapeAssumption
  <2>4. ({c} \cup Footprint[c]) \ s \subseteq open
    BY <2>1 DEF s
  <2> QED BY <2>1, <2>3, <2>4
<1>2. MaskAt(open, c) => Inflated(open, c)
  BY DEF MaskAt, Inflated
<1> QED BY <1>1, <1>2

\* What a cell's base is depends on the classes of it and of those beside it.
LEMMA SameBase ==
  ASSUME NEW b, NEW d, NEW v, NEW c \in Cells, \A e \in Sides[c] \cup {c} : Class(d, e) = Class(b, e)
  PROVE  (BaseRight(d, v, c) <=> BaseRight(b, v, c)) /\ (Open(d, c) <=> Open(b, c))
BY DEF BaseRight, Open, NextToKnownObstacle

\* Neighbours, reach and footprint of a cell are cells.
LEMMA NearCells ==
  ASSUME NEW c \in Cells
  PROVE  /\ Sides[c] \cup {c} \subseteq Cells /\ \A d \in Sides[c] \cup {c} : ChunkOf[d] \in Chunks
         /\ Corners[c] \subseteq Cells /\ Reach[c] \subseteq Cells /\ Footprint[c] \subseteq Cells
BY GridAssumption

\* A stamp that is not later in the map that grew was not later before.
LEMMA UnstampedBefore ==
  ASSUME NEW b, BeliefOK(b), NEW d, Grows(b, d), NEW v \in Nat, v <= b.plan, NEW k \in Chunks, Unstamped(d, v, k)
  PROVE  Unstamped(b, v, k) /\ ~(d.stamp[k] > b.plan)
<1>1. /\ d.stamp[k] \in Nat /\ b.stamp[k] \in Nat /\ (d.stamp[k] = b.stamp[k] \/ d.stamp[k] > b.plan)
      /\ b.plan \in Nat
  BY DEF Grows, BeliefOK
<1> QED BY <1>1 DEF Unstamped

\* A view that is right of what is not stamped and not in the log stays so.
LEMMA ViewGrows ==
  ASSUME NEW b, BeliefOK(b), LogOK(b), NEW v, ViewOK(b, v), NEW d, Grows(b, d)
  PROVE  ViewOK(d, v)
<1>1. v.synced \in Nat /\ v.synced <= b.plan /\ b.plan <= d.plan /\ b.plan \in Nat /\ d.plan \in Nat
  BY DEF ViewOK, ViewState, Grows, BeliefOK
<1>2. ASSUME NEW c \in Cells, \A e \in Sides[c] \cup {c} : Unstamped(d, v.synced, ChunkOf[e])
      PROVE  BaseRight(d, v, c)
  <2>1. ASSUME NEW e \in Sides[c] \cup {c}
        PROVE  Unstamped(b, v.synced, ChunkOf[e]) /\ Class(d, e) = Class(b, e)
    <3>1. e \in Cells /\ ChunkOf[e] \in Chunks
      BY NearCells
    <3>2. Unstamped(b, v.synced, ChunkOf[e]) /\ ~(d.stamp[ChunkOf[e]] > b.plan)
      BY <1>1, <1>2, <3>1, UnstampedBefore
    <3> QED BY <3>1, <3>2 DEF Grows
  <2>2. BaseRight(b, v, c)
    BY <2>1 DEF ViewOK
  <2> QED BY <2>1, <2>2, SameBase
<1>3. ASSUME LogReaches(d, v.synced), NEW c \in Cells,
             (Sides[c] \cup {c}) \cap CellsChangedSince(d, v.synced) = {}
      PROVE  BaseRight(d, v, c)
  <2>1. v.synced \in 0..b.plan
    BY <1>1
  <2>2. LogReaches(b, v.synced) /\ CellsChangedSince(b, v.synced) \subseteq CellsChangedSince(d, v.synced)
    BY <1>3, <2>1 DEF Grows
  <2>3. BaseRight(b, v, c)
    BY <1>3, <2>2 DEF ViewOK
  <2>4. LogReaches(d, b.plan)
    BY <1>1, <1>3 DEF LogReaches, LogOK, Grows
  <2>5. CellsChangedSince(d, b.plan) \subseteq CellsChangedSince(d, v.synced)
    BY <1>1, LogWidens DEF Grows
  <2>6. \A e \in Sides[c] \cup {c} : Class(d, e) = Class(b, e)
    BY <1>3, <2>4, <2>5, NearCells DEF Grows
  <2> QED BY <2>3, <2>6, SameBase
<1> QED BY <1>1, <1>2, <1>3 DEF ViewOK

(***************************************************************************)
(* Bringing a view up to date                                              *)
(***************************************************************************)
\* The base of some cells rebuilt.
LEMMA RebasedFields ==
  ASSUME NEW v \in ViewState, NEW b, NEW region \in SUBSET Cells, NEW w, w = Rebased(v, b, region)
  PROVE  /\ w \in ViewState /\ w.profile = v.profile /\ w.pass = v.pass /\ w.synced = v.synced
         /\ w.content = v.content /\ w.stamp = v.stamp
         /\ \A c \in region : BaseRight(b, w, c)
         /\ \A c \in Cells \ region : BaseRight(b, w, c) <=> BaseRight(b, v, c)
         /\ \A c \in Cells \ region : c \in w.open <=> c \in v.open
<1> DEFINE o == Updated(v.open, region, LAMBDA c : Open(b, c))
           u == Updated(v.unknown, region, LAMBDA c : Class(b, c) = "unknown")
<1>1. o \in SUBSET Cells /\ u \in SUBSET Cells
  BY DEF Updated, ViewState
<1>2. /\ \A c \in region : (c \in o <=> Open(b, c)) /\ (c \in u <=> Class(b, c) = "unknown")
      /\ \A c \in Cells \ region : (c \in o <=> c \in v.open) /\ (c \in u <=> c \in v.unknown)
  BY DEF Updated
<1>3. w = [v EXCEPT !.open = o, !.unknown = u]
  BY DEF Rebased
<1> HIDE DEF o, u
<1>4. /\ w \in ViewState /\ w.profile = v.profile /\ w.pass = v.pass /\ w.synced = v.synced
      /\ w.content = v.content /\ w.stamp = v.stamp /\ w.open = o /\ w.unknown = u
  BY <1>1, <1>3 DEF ViewState
<1> QED BY <1>2, <1>4 DEF BaseRight

\* A view with its masks as another's and its base as another's but for a region.
RebuiltIn(w, v, region) ==
  /\ w \in ViewState /\ w.pass = v.pass
  /\ \A c \in Cells \ region : c \in w.open <=> c \in v.open

\* The masks of some cells rebuilt.
Remasked(w, near) == [w EXCEPT !.pass = (w.pass \ near) \cup {c \in near : MaskAt(w.open, c)}]

\* Views with the same base.
SameBut(w, u) ==
  /\ u.profile = w.profile /\ u.open = w.open /\ u.unknown = w.unknown /\ u.synced = w.synced
  /\ u.content = w.content /\ u.stamp = w.stamp

\* Masks within reach of what was rebuilt, rebuilt too.
LEMMA RemaskedFits ==
  ASSUME NEW v \in ViewState, Fits(v), NEW region \in SUBSET Cells, NEW w, RebuiltIn(w, v, region),
         NEW near, near = UNION {Reach[c] : c \in region}, NEW u, u = Remasked(w, near)
  PROVE  u \in ViewState /\ Fits(u) /\ SameBut(w, u)
<1>0. w \in ViewState /\ w.pass = v.pass /\ \A c \in Cells \ region : c \in w.open <=> c \in v.open
  BY DEF RebuiltIn
<1> DEFINE p == (w.pass \ near) \cup {c \in near : MaskAt(w.open, c)}
<1>1. near \in SUBSET Cells
  BY NearCells
<1>2. p \in SUBSET Cells
  BY <1>0, <1>1 DEF ViewState
<1>3. u = [w EXCEPT !.pass = p]
  BY DEF Remasked
<1>4. ASSUME NEW c \in Cells, c \notin near PROVE MaskAt(w.open, c) <=> MaskAt(v.open, c)
  <2>1. c \notin region
    BY <1>4, GridAssumption
  <2>2. \A d \in Footprint[c] : d \in Cells /\ d \notin region
    BY <1>4, GridAssumption
  <2>3. Footprint[c] \subseteq w.open <=> Footprint[c] \subseteq v.open
    BY <1>0, <2>2
  <2> QED BY <1>0, <2>1, <2>3 DEF MaskAt
<1>5. p = {c \in Cells : MaskAt(w.open, c)}
  BY <1>0, <1>1, <1>4 DEF Fits
<1> HIDE DEF p
<1>6. /\ u \in ViewState /\ u.profile = w.profile /\ u.open = w.open /\ u.unknown = w.unknown
      /\ u.synced = w.synced /\ u.content = w.content /\ u.stamp = w.stamp /\ u.pass = p
  BY <1>0, <1>2, <1>3 DEF ViewState
<1> QED BY <1>5, <1>6 DEF Fits, SameBut

\* Cell by cell, from the log.
LEMMA SyncCellsRight ==
  ASSUME NEW v \in ViewState, Fits(v), NEW b, NEW changed \in SUBSET Cells,
         \A c \in Cells : (Sides[c] \cup {c}) \cap changed = {} => BaseRight(b, v, c),
         NEW u, u = SyncCells(v, b, changed)
  PROVE  /\ u \in ViewState /\ Fits(u) /\ \A c \in Cells : BaseRight(b, u, c)
         /\ u.profile = v.profile /\ u.synced = v.synced /\ u.content = v.content /\ u.stamp = v.stamp
<1> DEFINE based == changed \cup UNION {Sides[c] : c \in changed}
           w == Rebased(v, b, based)
           near == UNION {Reach[c] : c \in based}
<1>1. based \in SUBSET Cells
  BY NearCells
<1>2. ASSUME NEW c \in Cells \ based PROVE BaseRight(b, v, c)
  <2>1. ASSUME NEW d \in Sides[c] \cup {c}, d \in changed PROVE FALSE
    <3>1. d \in Cells /\ c \in Cells
      BY <2>1
    <3>2. d = c \/ c \in Sides[d]
      BY <3>1, GridAssumption
    <3> QED BY <2>1, <3>2
  <2> QED BY <2>1
<1>3. u = [w EXCEPT !.pass = (w.pass \ near) \cup {c \in near : MaskAt(w.open, c)}]
  BY DEF SyncCells, Updated
<1> HIDE DEF based
<1>4. /\ w \in ViewState /\ w.profile = v.profile /\ w.pass = v.pass /\ w.synced = v.synced
      /\ w.content = v.content /\ w.stamp = v.stamp
      /\ \A c \in Cells : BaseRight(b, w, c)
      /\ \A c \in Cells \ based : c \in w.open <=> c \in v.open
  BY <1>1, <1>2, RebasedFields
<1> HIDE DEF w
<1> DEFINE n == near
<1>6. n = UNION {Reach[c] : c \in based} /\ u = Remasked(w, n) /\ RebuiltIn(w, v, based)
  BY <1>3, <1>4 DEF Remasked, RebuiltIn
<1> HIDE DEF n
<1>5. u \in ViewState /\ Fits(u) /\ SameBut(w, u)
  BY <1>1, <1>6, RemaskedFits
<1> QED BY <1>4, <1>5 DEF BaseRight, SameBut

\* Chunk by chunk, from the stamps.
LEMMA SyncChunkRight ==
  ASSUME NEW v \in ViewState, Fits(v), NEW b, NEW k \in Chunks, NEW u, u = SyncChunk(v, b, k)
  PROVE  /\ u \in ViewState /\ Fits(u)
         /\ u.profile = v.profile /\ u.synced = v.synced /\ u.content = v.content /\ u.stamp = v.stamp
         /\ \A c \in Cells : BaseRight(b, v, c) => BaseRight(b, u, c)
         /\ \A c \in Cells : (\E d \in Sides[c] \cup {c} : ChunkOf[d] = k) => BaseRight(b, u, c)
<1> DEFINE ring == ChunkCells[k] \cup UNION {Corners[c] : c \in ChunkCells[k]}
           w == Rebased(v, b, ring)
           near == UNION {Reach[c] : c \in ring}
<1>0. ChunkCells[k] = {c \in Cells : ChunkOf[c] = k}
  BY DEF ChunkCells
<1>1. ring \in SUBSET Cells
  BY <1>0, NearCells
<1>2. \A c \in Cells : (\E d \in Sides[c] \cup {c} : ChunkOf[d] = k) => c \in ring
  <2> SUFFICES ASSUME NEW c \in Cells, NEW d \in Sides[c] \cup {c}, ChunkOf[d] = k PROVE c \in ring
    OBVIOUS
  <2>1. d \in ChunkCells[k] /\ d \in Cells
    BY <1>0, NearCells
  <2>2. c = d \/ c \in Corners[d]
    BY <2>1, GridAssumption, ShapeAssumption
  <2> QED BY <2>1, <2>2
<1>3. u = [w EXCEPT !.pass = (w.pass \ near) \cup {c \in near : Inflated(w.open, c)}]
  BY DEF SyncChunk, Updated
<1> HIDE DEF ring
<1>4. /\ w \in ViewState /\ w.profile = v.profile /\ w.pass = v.pass /\ w.synced = v.synced
      /\ w.content = v.content /\ w.stamp = v.stamp
      /\ \A c \in ring : BaseRight(b, w, c)
      /\ \A c \in Cells \ ring : BaseRight(b, w, c) <=> BaseRight(b, v, c)
      /\ \A c \in Cells \ ring : c \in w.open <=> c \in v.open
  BY <1>1, RebasedFields
<1> HIDE DEF w
<1>5. {c \in near : Inflated(w.open, c)} = {c \in near : MaskAt(w.open, c)}
  <2>1. near \subseteq Cells /\ w.open \in SUBSET Cells
    BY <1>1, <1>4, NearCells DEF ViewState
  <2> HIDE DEF near
  <2> QED BY <2>1, InflationsAgree
<1> DEFINE n == near
<1>7. n = UNION {Reach[c] : c \in ring} /\ u = Remasked(w, n) /\ RebuiltIn(w, v, ring)
  BY <1>3, <1>4, <1>5 DEF Remasked, RebuiltIn
<1> HIDE DEF n
<1>6. u \in ViewState /\ Fits(u) /\ SameBut(w, u)
  BY <1>1, <1>7, RemaskedFits
<1> QED BY <1>2, <1>4, <1>6 DEF BaseRight, SameBut

\* What chunk after chunk makes of a view.
Accumulated == [view : {u \in ViewState : Fits(u)}, touched : SUBSET Chunks]

\* A view some of whose chunks were brought up to date.
Toward(b, v, t, acc) ==
  /\ acc.view.profile = v.profile /\ acc.view.synced = v.synced
  /\ acc.view.content = v.content /\ acc.view.stamp = v.stamp
  /\ \A c \in Cells : BaseRight(b, v, c) => BaseRight(b, acc.view, c)
  /\ \A c \in Cells : (\E d \in Sides[c] \cup {c} : ChunkOf[d] \in t) => BaseRight(b, acc.view, c)
  /\ Differing(v, acc.view) \subseteq acc.touched

\* What differs is some chunks of the grid, and what differs at last differed on the way.
LEMMA DifferingChunks ==
  ASSUME NEW v \in ViewState, NEW w \in ViewState
  PROVE  /\ Differing(v, w) \subseteq Chunks /\ Differing(v, v) = {}
         /\ \A u \in ViewState : w.profile = v.profile =>
              Differing(v, u) \subseteq Differing(v, w) \cup Differing(w, u)
<1>1. \A c \in Cells : ChunkOf[c] \in Chunks
  BY GridAssumption
<1>2. v.pass \subseteq Cells /\ w.pass \subseteq Cells /\ v.unknown \subseteq Cells /\ w.unknown \subseteq Cells
  BY DEF ViewState
<1>3. Differing(v, w) \subseteq Chunks
  BY <1>1, <1>2 DEF Differing
<1>4. Differing(v, v) = {}
  BY DEF Differing
<1>5. ASSUME NEW u \in ViewState, w.profile = v.profile
      PROVE  Differing(v, u) \subseteq Differing(v, w) \cup Differing(w, u)
  BY <1>5 DEF Differing
<1> QED BY <1>3, <1>4, <1>5

\* One chunk more: right so far, and what differs is touched.
LEMMA OneChunkRight ==
  ASSUME NEW b, NEW k \in Chunks, NEW acc \in Accumulated, NEW u, u = OneChunk(b, k, acc)
  PROVE  /\ u \in Accumulated
         /\ \A v \in ViewState : \A t : Toward(b, v, t, acc) => Toward(b, v, t \cup {k}, u)
<1> DEFINE a == acc.view
           w == SyncChunk(a, b, k)
           more == IF w.profile.edges THEN Around[k] ELSE {}
<1>1. a \in ViewState /\ Fits(a) /\ acc.touched \in SUBSET Chunks
  BY DEF Accumulated
<1> HIDE DEF a
<1>2. /\ w \in ViewState /\ Fits(w)
      /\ w.profile = a.profile /\ w.synced = a.synced /\ w.content = a.content /\ w.stamp = a.stamp
      /\ \A c \in Cells : BaseRight(b, a, c) => BaseRight(b, w, c)
      /\ \A c \in Cells : (\E d \in Sides[c] \cup {c} : ChunkOf[d] = k) => BaseRight(b, w, c)
  BY <1>1, SyncChunkRight
<1>3. u = [view |-> w, touched |-> acc.touched \cup Differing(a, w) \cup more]
  BY DEF OneChunk, a
<1> HIDE DEF w
<1>4. more \subseteq Chunks /\ Differing(a, w) \subseteq Chunks
  BY <1>1, <1>2, DifferingChunks, GridAssumption
<1> HIDE DEF more
<1>5. u \in Accumulated
  BY <1>1, <1>2, <1>3, <1>4 DEF Accumulated
<1>6. ASSUME NEW v \in ViewState, NEW t, Toward(b, v, t, acc) PROVE Toward(b, v, t \cup {k}, u)
  <2>1. /\ a.profile = v.profile /\ a.synced = v.synced /\ a.content = v.content /\ a.stamp = v.stamp
        /\ \A c \in Cells : BaseRight(b, v, c) => BaseRight(b, a, c)
        /\ \A c \in Cells : (\E d \in Sides[c] \cup {c} : ChunkOf[d] \in t) => BaseRight(b, a, c)
        /\ Differing(v, a) \subseteq acc.touched
    BY <1>6 DEF Toward, a
  <2>2. Differing(v, w) \subseteq Differing(v, a) \cup Differing(a, w)
    BY <1>1, <1>2, <2>1, DifferingChunks
  <2>3. u.view = w /\ Differing(v, w) \subseteq u.touched
    BY <1>3, <2>1, <2>2
  <2>4. ASSUME NEW c \in Cells, NEW d \in Sides[c] \cup {c}, ChunkOf[d] \in t \cup {k} PROVE BaseRight(b, w, c)
    BY <1>2, <2>1, <2>4
  <2> QED BY <1>2, <2>1, <2>3, <2>4 DEF Toward
<1> QED BY <1>5, <1>6

\* A view after the chunks of a set, one after the other in ascending order.
Chunkwise(it, b, v, S) ==
  /\ it \in [SUBSET S -> Accumulated]
  /\ it[{}] = [view |-> v, touched |-> {}]
  /\ \A t \in SUBSET S : t # {} => it[t] = OneChunk(b, Topmost(t), it[t \ {Topmost(t)}])

\* The fold over the chunks is what follows from one chunk at a time.
LEMMA SyncChunksFolds ==
  ASSUME NEW b, NEW v \in ViewState, Fits(v), NEW S, S = ChunksChangedSince(b, v.synced)
  PROVE  \E it : Chunkwise(it, b, v, S) /\ SyncChunks(v, b) = it[S]
<1>1. S \subseteq Nat /\ S \subseteq Chunks /\ IsFiniteSet(S)
  <2>1. S \subseteq Chunks /\ Chunks \subseteq Nat /\ IsFiniteSet(Chunks)
    BY GridAssumption, ShapeAssumption DEF ChunksChangedSince
  <2> QED BY <2>1, FS_Subset
<1> DEFINE base == [view |-> v, touched |-> {}]
           F == [k \in S |-> [acc \in Accumulated |-> OneChunk(b, k, acc)]]
<1>2. base \in Accumulated
  BY DEF Accumulated
<1>3. F \in [S -> [Accumulated -> Accumulated]]
  <2>1. \A k \in S, acc \in Accumulated : OneChunk(b, k, acc) \in Accumulated
    BY <1>1, OneChunkRight
  <2> QED BY <2>1
<1>4. \A k \in S, acc \in Accumulated : F[k][acc] = OneChunk(b, k, acc)
  OBVIOUS
<1> HIDE DEF base, F
<1>5. PICK f : SetFold(f, S, Accumulated, base, F)
  BY <1>1, <1>2, <1>3, SetFoldExists
<1>6. ASSUME NEW t \in SUBSET S, t # {} PROVE Topmost(t) \in t /\ Topmost(t) \in S
  <2>1. PICK n \in Nat : \A k \in S : k < n
    BY <1>1, FiniteBound
  <2>2. t \subseteq Nat /\ \A k \in t : k < n
    BY <1>1, <2>1
  <2> QED BY <1>6, <2>2, TopmostIsThere
<1> DEFINE Rec(g) == g = [t \in SUBSET S |-> IF t = {} THEN base ELSE OneChunk(b, Topmost(t), g[t \ {Topmost(t)}])]
           it == CHOOSE g : Rec(g)
<1>7. Rec(f)
  <2>1. ASSUME NEW t \in SUBSET S
        PROVE  f[t] = IF t = {} THEN base ELSE OneChunk(b, Topmost(t), f[t \ {Topmost(t)}])
    <3>1. CASE t = {}
      BY <1>5, <3>1 DEF SetFold
    <3>2. CASE t # {}
      <4>1. f[t \ {Topmost(t)}] \in Accumulated
        BY <1>5 DEF SetFold
      <4> QED BY <1>4, <1>5, <1>6, <3>2, <4>1 DEF SetFold
    <3> QED BY <3>1, <3>2
  <2> QED BY <1>5, <2>1 DEF SetFold
<1>8. Rec(it)
  <2> HIDE DEF Rec
  <2> QED BY <1>7
<1>9. SyncChunks(v, b) = it[S]
  BY DEF SyncChunks, MapThenFoldSet, Topmost, base
<1> HIDE DEF it
<1>10. /\ DOMAIN it = SUBSET S
       /\ \A t \in SUBSET S : it[t] = IF t = {} THEN base ELSE OneChunk(b, Topmost(t), it[t \ {Topmost(t)}])
  BY <1>8
<1>11. \A t \in SUBSET S : it[t] \in Accumulated
  <2> DEFINE U == {t \in SUBSET S : it[t] \in Accumulated}
  <2>1. {} \in U
    BY <1>2, <1>10
  <2>2. ASSUME NEW t \in SUBSET S, t # {}, Topmost(t) \in t, t \ {Topmost(t)} \in U PROVE t \in U
    <3>1. it[t] = OneChunk(b, Topmost(t), it[t \ {Topmost(t)}])
      BY <1>10, <2>2
    <3>2. it[t] \in Accumulated
      BY <1>1, <1>6, <2>2, <3>1, OneChunkRight
    <3> QED BY <3>2
  <2> HIDE DEF U
  <2>3. SUBSET S \subseteq U
    BY <1>1, <2>1, <2>2, SetInduction
  <2> QED BY <2>3 DEF U
<1>12. it = [t \in SUBSET S |-> it[t]]
  BY <1>8
<1>13. Chunkwise(it, b, v, S)
  BY <1>10, <1>11, <1>12 DEF Chunkwise, base
<1> QED BY <1>9, <1>13

\* A view after all chunks that changed since.
LEMMA SyncChunksRight ==
  ASSUME NEW b, NEW v \in ViewState, Fits(v), NEW S, S = ChunksChangedSince(b, v.synced)
  PROVE  SyncChunks(v, b) \in Accumulated /\ Toward(b, v, S, SyncChunks(v, b))
<1>1. S \subseteq Nat /\ S \subseteq Chunks /\ IsFiniteSet(S)
  <2>1. S \subseteq Chunks /\ Chunks \subseteq Nat /\ IsFiniteSet(Chunks)
    BY GridAssumption, ShapeAssumption DEF ChunksChangedSince
  <2> QED BY <2>1, FS_Subset
<1>2. PICK it : Chunkwise(it, b, v, S) /\ SyncChunks(v, b) = it[S]
  BY SyncChunksFolds
<1> DEFINE U == {t \in SUBSET S : Toward(b, v, t, it[t])}
<1>3. {} \in U
  <2>1. it[{}].view = v /\ it[{}].touched = {}
    BY <1>2 DEF Chunkwise
  <2>2. Toward(b, v, {}, it[{}])
    BY <2>1, DifferingChunks DEF Toward
  <2> QED BY <2>2
<1>4. ASSUME NEW t \in SUBSET S, t # {}, Topmost(t) \in t, t \ {Topmost(t)} \in U PROVE t \in U
  <2> DEFINE s == t \ {Topmost(t)}
  <2>1. it[t] = OneChunk(b, Topmost(t), it[s]) /\ it[s] \in Accumulated /\ Topmost(t) \in Chunks
    BY <1>1, <1>2, <1>4 DEF Chunkwise
  <2>2. Toward(b, v, s, it[s]) /\ s \cup {Topmost(t)} = t
    BY <1>4
  <2> HIDE DEF s
  <2>3. Toward(b, v, s \cup {Topmost(t)}, it[t])
    BY <2>1, <2>2, OneChunkRight
  <2> QED BY <2>2, <2>3
<1> HIDE DEF U
<1>5. SUBSET S \subseteq U
  BY <1>1, <1>3, <1>4, SetInduction
<1> QED BY <1>2, <1>5 DEF U, Chunkwise

\* The chunks an update counts as changed.
TouchedBy(v, b) ==
  IF v.synced = b.plan THEN {}
  ELSE IF ByCells(v, b) THEN Differing(v, SyncCells(v, b, CellsChangedSince(b, v.synced)))
  ELSE SyncChunks(v, b).touched

\* How it counts them: by one, behind a stamp on each.
Counts(v, w, touched) ==
  /\ touched \in SUBSET Chunks /\ Differing(v, w) \subseteq touched
  /\ touched = {} => w.content = v.content /\ w.stamp = v.stamp
  /\ touched # {} => /\ w.content = v.content + 1
                     /\ w.stamp = [k \in Chunks |-> IF k \in touched THEN v.content + 1 ELSE v.stamp[k]]

\* A view that is right of every cell.
AllRight(b, v) == \A c \in Cells : BaseRight(b, v, c)

\* A view with its changes stamped.
Restamped(v, touched, n) == [Stamped(v, touched) EXCEPT !.synced = n]

\* Stamping changes how a view counts, not what it says.
LEMMA StampedFields ==
  ASSUME NEW v \in ViewState, NEW touched \in SUBSET Chunks, NEW n \in Nat, NEW w,
         w = Restamped(v, touched, n)
  PROVE  /\ w \in ViewState /\ w.profile = v.profile /\ w.open = v.open /\ w.pass = v.pass
         /\ w.unknown = v.unknown /\ w.synced = n
         /\ touched = {} => w.content = v.content /\ w.stamp = v.stamp
         /\ touched # {} => /\ w.content = v.content + 1
                            /\ w.stamp = [k \in Chunks |-> IF k \in touched THEN v.content + 1 ELSE v.stamp[k]]
<1> DEFINE st == [k \in Chunks |-> IF k \in touched THEN v.content + 1 ELSE v.stamp[k]]
           m == v.content + 1
<1>1. st \in [Chunks -> Nat] /\ m \in Nat
  BY DEF ViewState
<1>2. w = IF touched = {} THEN [v EXCEPT !.synced = n]
          ELSE [[v EXCEPT !.content = m, !.stamp = st] EXCEPT !.synced = n]
  BY DEF Restamped, Stamped
<1>4. st = [k \in Chunks |-> IF k \in touched THEN v.content + 1 ELSE v.stamp[k]] /\ m = v.content + 1
  OBVIOUS
<1> HIDE DEF st, m
<1>3. CASE touched = {}
  BY <1>2, <1>3 DEF ViewState
<1>5. CASE touched # {}
  <2> DEFINE u == [v EXCEPT !.content = m, !.stamp = st]
  <2>1. /\ u \in ViewState /\ u.profile = v.profile /\ u.open = v.open /\ u.pass = v.pass
        /\ u.unknown = v.unknown /\ u.content = m /\ u.stamp = st
    BY <1>1 DEF ViewState
  <2>2. w = [u EXCEPT !.synced = n]
    BY <1>2, <1>5
  <2> HIDE DEF u
  <2>3. /\ w \in ViewState /\ w.profile = u.profile /\ w.open = u.open /\ w.pass = u.pass
        /\ w.unknown = u.unknown /\ w.synced = n /\ w.content = u.content /\ w.stamp = u.stamp
    BY <2>1, <2>2 DEF ViewState
  <2> QED BY <1>4, <1>5, <2>1, <2>3
<1> QED BY <1>3, <1>5

\* Views are compared by masks and unknown flags alone.
LEMMA DifferingFields ==
  ASSUME NEW v, NEW w, NEW u, u.pass = w.pass, u.unknown = w.unknown
  PROVE  Differing(v, u) = Differing(v, w)
BY DEF Differing

\* What a view was made before its changes are stamped.
Made(b, v, u, touched) ==
  /\ u \in ViewState /\ Fits(u) /\ AllRight(b, u)
  /\ u.profile = v.profile /\ u.content = v.content /\ u.stamp = v.stamp
  /\ touched \in SUBSET Chunks /\ touched = TouchedBy(v, b)
  /\ Differing(v, u) \subseteq touched
  /\ ByCells(v, b) => touched = Differing(v, u)

\* A view brought up to date fits itself and is right of every cell.
LEMMA SyncRight ==
  ASSUME NEW b, BeliefOK(b), LogOK(b), NEW v, ViewOK(b, v), NEW w, w = Sync(v, b)
  PROVE  /\ w \in ViewState /\ w.synced = b.plan /\ w.profile = v.profile /\ Fits(w)
         /\ AllRight(b, w) /\ Counts(v, w, TouchedBy(v, b))
         /\ ByCells(v, b) => TouchedBy(v, b) = Differing(v, w)
<1>0. /\ v \in ViewState /\ v.synced \in Nat /\ v.synced <= b.plan /\ b.plan \in Nat /\ Fits(v)
      /\ \A c \in Cells : (\A d \in Sides[c] \cup {c} : Unstamped(b, v.synced, ChunkOf[d])) => BaseRight(b, v, c)
      /\ LogReaches(b, v.synced) =>
           \A c \in Cells : (Sides[c] \cup {c}) \cap CellsChangedSince(b, v.synced) = {} => BaseRight(b, v, c)
  BY DEF ViewOK, ViewState, BeliefOK
<1>1. CASE v.synced = b.plan
  <2>1. w = v
    BY <1>1 DEF Sync
  <2>2. \A k \in Chunks : Unstamped(b, v.synced, k)
    BY <1>1 DEF Unstamped, BeliefOK
  <2>3. AllRight(b, v)
    BY <1>0, <2>2, NearCells DEF AllRight
  <2>4. Differing(v, v) = {} /\ TouchedBy(v, b) = {}
    BY <1>0, <1>1, DifferingChunks DEF TouchedBy
  <2>5. Counts(v, v, TouchedBy(v, b))
    BY <2>4 DEF Counts
  <2> QED BY <1>0, <1>1, <2>1, <2>3, <2>4, <2>5
<1>2. ASSUME v.synced # b.plan, NEW u, NEW touched, Made(b, v, u, touched), w = Restamped(u, touched, b.plan)
      PROVE  /\ w \in ViewState /\ w.synced = b.plan /\ w.profile = v.profile /\ Fits(w)
             /\ AllRight(b, w) /\ Counts(v, w, TouchedBy(v, b))
             /\ ByCells(v, b) => TouchedBy(v, b) = Differing(v, w)
  <2>1. /\ w \in ViewState /\ w.profile = u.profile /\ w.open = u.open /\ w.pass = u.pass
        /\ w.unknown = u.unknown /\ w.synced = b.plan
        /\ touched = {} => w.content = u.content /\ w.stamp = u.stamp
        /\ touched # {} => /\ w.content = u.content + 1
                           /\ w.stamp = [k \in Chunks |-> IF k \in touched THEN u.content + 1 ELSE u.stamp[k]]
    BY <1>0, <1>2, StampedFields DEF Made
  <2>2. Fits(w) /\ AllRight(b, w)
    BY <1>2, <2>1 DEF Made, Fits, AllRight, BaseRight
  <2>3. Differing(v, w) = Differing(v, u)
    BY <2>1, DifferingFields
  <2>4. Counts(v, w, touched)
    BY <1>2, <2>1, <2>3 DEF Counts, Made
  <2> QED BY <1>2, <2>1, <2>2, <2>3, <2>4 DEF Made
<1>3. CASE v.synced # b.plan /\ ByCells(v, b)
  <2> DEFINE changed == CellsChangedSince(b, v.synced)
             u == SyncCells(v, b, changed)
             touched == Differing(v, u)
  <2>1. changed \in SUBSET Cells
    <3>1. b.log \in Seq(Cells) /\ b.first \in Nat \ {0}
      BY DEF LogOK
    <3>2. ~ v.synced < b.first - 1
      BY <1>0, <1>3, <3>1 DEF ByCells, LogReaches
    <3>3. \A i \in (v.synced - b.first + 2)..Len(b.log) : i \in 1..Len(b.log)
      BY <1>0, <3>1, <3>2
    <3> QED BY <3>1, <3>3 DEF CellsChangedSince
  <2>2. \A c \in Cells : (Sides[c] \cup {c}) \cap changed = {} => BaseRight(b, v, c)
    BY <1>0, <1>3 DEF ByCells
  <2>3. w = Restamped(u, touched, b.plan) /\ touched = TouchedBy(v, b)
    BY <1>3 DEF Sync, Restamped, TouchedBy
  <2> HIDE DEF changed
  <2>4. /\ u \in ViewState /\ Fits(u) /\ \A c \in Cells : BaseRight(b, u, c)
        /\ u.profile = v.profile /\ u.synced = v.synced /\ u.content = v.content /\ u.stamp = v.stamp
    BY <1>0, <2>1, <2>2, SyncCellsRight
  <2> HIDE DEF u
  <2>5. touched \in SUBSET Chunks
    BY <1>0, <2>4, DifferingChunks
  <2> QED
    <3> DEFINE q == touched
    <3>1. Made(b, v, u, q) /\ w = Restamped(u, q, b.plan)
      BY <2>3, <2>4, <2>5 DEF Made, AllRight
    <3> HIDE DEF q
    <3> QED BY <1>2, <1>3, <3>1
<1>4. CASE v.synced # b.plan /\ ~ByCells(v, b)
  <2> DEFINE S == ChunksChangedSince(b, v.synced)
             acc == SyncChunks(v, b)
             u == acc.view
             touched == acc.touched
  <2>1. w = Restamped(u, touched, b.plan) /\ touched = TouchedBy(v, b)
    BY <1>4 DEF Sync, Restamped, TouchedBy
  <2>2. acc \in Accumulated /\ Toward(b, v, S, acc)
    BY <1>0, SyncChunksRight
  <2>3. \A k \in Chunks : k \notin S => Unstamped(b, v.synced, k)
    BY <1>0 DEF ChunksChangedSince, Unstamped, BeliefOK
  <2> HIDE DEF S, acc
  <2>4. /\ u \in ViewState /\ Fits(u) /\ touched \in SUBSET Chunks
    BY <2>2 DEF Accumulated
  <2>5. /\ u.profile = v.profile /\ u.content = v.content /\ u.stamp = v.stamp
        /\ \A c \in Cells : BaseRight(b, v, c) => BaseRight(b, u, c)
        /\ \A c \in Cells : (\E d \in Sides[c] \cup {c} : ChunkOf[d] \in S) => BaseRight(b, u, c)
        /\ Differing(v, u) \subseteq touched
    BY <2>2 DEF Toward
  <2>6. ASSUME NEW c \in Cells PROVE BaseRight(b, u, c)
    <3>1. CASE \E d \in Sides[c] \cup {c} : ChunkOf[d] \in S
      BY <2>5, <3>1
    <3>2. CASE \A d \in Sides[c] \cup {c} : ChunkOf[d] \notin S
      <4>1. \A d \in Sides[c] \cup {c} : Unstamped(b, v.synced, ChunkOf[d])
        BY <2>3, <3>2, NearCells
      <4> QED BY <1>0, <2>5, <4>1
    <3> QED BY <3>1, <3>2
  <2> DEFINE p == u
             q == touched
  <2>7. Made(b, v, p, q) /\ w = Restamped(p, q, b.plan)
    BY <1>4, <2>1, <2>4, <2>5, <2>6 DEF AllRight, Made
  <2> HIDE DEF p, q
  <2> QED BY <1>2, <1>4, <2>7
<1> QED BY <1>1, <1>3, <1>4

\* A view that is right of every cell is in order, and the one a new one would be.
LEMMA RightIsOK ==
  ASSUME NEW b, BeliefOK(b), NEW v \in ViewState, v.synced = b.plan, Fits(v), AllRight(b, v),
         \A k \in Chunks : v.stamp[k] <= v.content
  PROVE  ViewOK(b, v)
BY DEF ViewOK, AllRight, BeliefOK

\* Stamps stay behind what they count, and those of the chunks that changed are new.
LEMMA CountsBounds ==
  ASSUME NEW v \in ViewState, NEW w \in ViewState, NEW touched, Counts(v, w, touched),
         \A k \in Chunks : v.stamp[k] <= v.content
  PROVE  /\ \A k \in Chunks : w.stamp[k] <= w.content
         /\ ChangedSince(w, v.content) = touched
         /\ w.content = v.content <=> touched = {}
<1>1. v.content \in Nat /\ v.stamp \in [Chunks -> Nat]
  BY DEF ViewState
<1>2. /\ touched \in SUBSET Chunks
      /\ touched = {} => w.content = v.content /\ w.stamp = v.stamp
      /\ touched # {} => /\ w.content = v.content + 1
                         /\ w.stamp = [k \in Chunks |-> IF k \in touched THEN v.content + 1 ELSE v.stamp[k]]
  BY DEF Counts
<1>3. ASSUME NEW k \in Chunks PROVE w.stamp[k] <= w.content /\ (w.stamp[k] > v.content <=> k \in touched)
  <2>1. v.stamp[k] \in Nat /\ v.stamp[k] <= v.content
    BY <1>1
  <2>2. CASE touched = {}
    BY <1>1, <1>2, <2>1, <2>2
  <2>3. CASE touched # {}
    <3>1. w.stamp[k] = IF k \in touched THEN v.content + 1 ELSE v.stamp[k]
      BY <1>2, <2>3
    <3> QED BY <1>1, <1>2, <2>1, <2>3, <3>1
  <2> QED BY <2>2, <2>3
<1>4. ChangedSince(w, v.content) = touched
  BY <1>2, <1>3 DEF ChangedSince
<1>5. w.content = v.content <=> touched = {}
  BY <1>1, <1>2
<1> QED BY <1>3, <1>4, <1>5

\* The view after an update is in order.
LEMMA SyncOK ==
  ASSUME NEW b, BeliefOK(b), LogOK(b), NEW v, ViewOK(b, v)
  PROVE  /\ ViewOK(b, Sync(v, b)) /\ Sync(v, b).synced = b.plan /\ Sync(v, b).profile = v.profile
         /\ AllRight(b, Sync(v, b)) /\ Counts(v, Sync(v, b), TouchedBy(v, b))
         /\ ByCells(v, b) => TouchedBy(v, b) = Differing(v, Sync(v, b))
<1> DEFINE w == Sync(v, b)
           touched == TouchedBy(v, b)
<1>1. /\ w \in ViewState /\ w.synced = b.plan /\ w.profile = v.profile /\ Fits(w)
      /\ AllRight(b, w)
  BY SyncRight
<1>3. Counts(v, w, touched) /\ (ByCells(v, b) => touched = Differing(v, w))
  BY SyncRight
<1>4. v \in ViewState /\ \A k \in Chunks : v.stamp[k] <= v.content
  BY DEF ViewOK
<1>5. \A k \in Chunks : w.stamp[k] <= w.content
  <2> HIDE DEF w, touched
  <2> QED BY <1>1, <1>3, <1>4, CountsBounds
<1>6. ViewOK(b, w)
  <2> HIDE DEF w
  <2> QED BY <1>1, <1>5, RightIsOK
<1> QED BY <1>1, <1>3, <1>6

\* A view that is built anew is in order.
LEMMA BuiltOK ==
  ASSUME NEW b, BeliefOK(b), NEW p \in Profiles
  PROVE  ViewOK(b, Built(b, p)) /\ Built(b, p).synced = b.plan /\ Built(b, p).profile = p
<1> DEFINE v == Built(b, p)
           open == {c \in Cells : Open(b, c)}
           pass == {c \in Cells : Inflated(open, c)}
<1>1. /\ v.profile = p /\ v.open = open /\ v.pass = pass /\ v.unknown = Unknown(b)
      /\ v.synced = b.plan /\ v.content = 0 /\ v.stamp = [k \in Chunks |-> 0]
      /\ v = [profile |-> p, open |-> open, pass |-> pass, unknown |-> Unknown(b),
              synced |-> b.plan, content |-> 0, stamp |-> [k \in Chunks |-> 0]]
  BY DEF Built
<1>2. open \in SUBSET Cells
  OBVIOUS
<1>3. \A c \in Cells : c \in open <=> Open(b, c)
  OBVIOUS
<1>5. pass \in SUBSET Cells /\ \A c \in Cells : c \in pass <=> Inflated(open, c)
  OBVIOUS
<1> HIDE DEF v, open, pass
<1>4. v \in ViewState
  BY <1>1, <1>2, <1>5 DEF ViewState, BeliefOK, Unknown
<1>6. Fits(v)
  <2>1. \A c \in Cells : Inflated(open, c) <=> MaskAt(open, c)
    BY <1>2, InflationsAgree
  <2>2. pass = {c \in Cells : MaskAt(open, c)}
    BY <1>5, <2>1
  <2> QED BY <1>1, <2>2 DEF Fits
<1>7. AllRight(b, v)
  BY <1>1, <1>3 DEF AllRight, BaseRight, Unknown
<1>8. \A k \in Chunks : v.stamp[k] <= v.content
  BY <1>1
<1>9. ViewOK(b, v)
  BY <1>1, <1>4, <1>6, <1>7, <1>8, RightIsOK
<1> QED BY <1>1, <1>9 DEF v

\* An up-to-date view is the view of the map as it is.
LEMMA CurrentView ==
  ASSUME NEW b, BeliefOK(b), NEW v, ViewOK(b, v), v.synced = b.plan
  PROVE  /\ AllRight(b, v)
         /\ v.open = {c \in Cells : Open(b, c)} /\ v.pass = Passable(b) /\ v.unknown = Unknown(b)
<1>1. v \in ViewState /\ Fits(v)
  BY DEF ViewOK
<1>2. \A k \in Chunks : Unstamped(b, v.synced, k)
  BY DEF Unstamped, BeliefOK
<1>3. ASSUME NEW c \in Cells PROVE BaseRight(b, v, c)
  BY <1>2, NearCells DEF ViewOK
<1>4. v.open = {c \in Cells : Open(b, c)} /\ v.unknown = Unknown(b)
  BY <1>1, <1>3 DEF ViewState, BaseRight, Unknown
<1>5. v.pass = Passable(b)
  <2>1. \A c \in Cells : MaskAt(v.open, c) <=> Open(b, c) /\ c \notin Rim /\ \A d \in Footprint[c] : Open(b, d)
    <3> SUFFICES ASSUME NEW c \in Cells
                 PROVE  MaskAt(v.open, c) <=> Open(b, c) /\ c \notin Rim /\ \A d \in Footprint[c] : Open(b, d)
      OBVIOUS
    <3>1. Footprint[c] \subseteq Cells
      BY NearCells
    <3>2. Footprint[c] \subseteq v.open <=> \A d \in Footprint[c] : Open(b, d)
      BY <1>4, <3>1
    <3>3. c \in v.open <=> Open(b, c)
      BY <1>4
    <3> QED BY <3>2, <3>3 DEF MaskAt
  <2> QED BY <1>1, <2>1 DEF Fits, Passable
<1> QED BY <1>3, <1>4, <1>5 DEF AllRight

(***************************************************************************)
(* The memos                                                               *)
(***************************************************************************)
\* A waypoint depends on the classes of its region's cells and on its counts.
LEMMA SameWaypoint ==
  ASSUME NEW b, NEW d, NEW l, NEW m, NEW r \in Regions,
         \A k \in Chunks : RegionOf[k] = r => m.free[k] = l.free[k],
         \A c \in Cells : RegionOf[ChunkOf[c]] = r => Class(d, c) = Class(b, c)
  PROVE  WaypointOf(d, m, r) = WaypointOf(b, l, r)
<1>1. RegionCells[r] = {c \in Cells : RegionOf[ChunkOf[c]] = r}
  BY DEF RegionCells
<1>2. \A c \in RegionCells[r] : Free(d, c) <=> Free(b, c)
  BY <1>1 DEF Free
<1>3. (\E k \in Chunks : RegionOf[k] = r /\ m.free[k] > 0) <=> (\E k \in Chunks : RegionOf[k] = r /\ l.free[k] > 0)
  OBVIOUS
<1> DEFINE f == \E k \in Chunks : RegionOf[k] = r /\ l.free[k] > 0
           g == \E k \in Chunks : RegionOf[k] = r /\ m.free[k] > 0
<1>4. WaypointOf(b, l, r) = {c \in RegionCells[r] : f /\ Free(b, c) /\ \A e \in RegionCells[r] : Free(b, e) => Nearer(c, e)}
  BY DEF WaypointOf
<1>5. WaypointOf(d, m, r) = {c \in RegionCells[r] : g /\ Free(d, c) /\ \A e \in RegionCells[r] : Free(d, e) => Nearer(c, e)}
  BY DEF WaypointOf
<1>6. g <=> f
  BY <1>3
<1> HIDE DEF f, g
<1>7. \A c \in RegionCells[r] :
        (g /\ Free(d, c) /\ \A e \in RegionCells[r] : Free(d, e) => Nearer(c, e))
          <=> (f /\ Free(b, c) /\ \A e \in RegionCells[r] : Free(b, e) => Nearer(c, e))
  BY <1>2, <1>6
<1> QED BY <1>4, <1>5, <1>7

\* The pairs across a border are cells, and their chunks' regions are what they join.
LEMMA AcrossPairs ==
  ASSUME NEW p \in Across
  PROVE  /\ p[1] \in Cells /\ p[2] \in Cells /\ EdgeOf(p) \in Edges
         /\ RegionOf[ChunkOf[p[1]]] \in EdgeOf(p) /\ RegionOf[ChunkOf[p[2]]] \in EdgeOf(p)
         /\ EdgeOf(p) \subseteq Regions
<1>1. PICK c \in Cells : p \in {c} \X Sides[c]
  BY DEF Across
<1>2. p[1] \in Cells /\ p[2] \in Cells
  BY <1>1, NearCells
<1>3. EdgeOf(p) \in Edges
  BY DEF Edges
<1>4. EdgeOf(p) \subseteq Regions
  <2>1. \A x \in Cells : RegionOf[ChunkOf[x]] \in Regions
    BY GridAssumption
  <2> QED BY <1>2, <2>1 DEF EdgeOf
<1> QED BY <1>2, <1>3, <1>4 DEF EdgeOf

\* An edge depends on the classes and the masks of the cells along it.
LEMMA SameCrossing ==
  ASSUME NEW b, NEW d, NEW v, NEW w, NEW e,
         \A p \in Across : EdgeOf(p) = e =>
           /\ Class(d, p[1]) = Class(b, p[1]) /\ Class(d, p[2]) = Class(b, p[2])
           /\ p[1] \in w.pass <=> p[1] \in v.pass
           /\ p[2] \in w.pass <=> p[2] \in v.pass
  PROVE  Crossing(d, w, e) = Crossing(b, v, e)
<1> DEFINE P == {p \in Across : EdgeOf(p) = e /\ {p[1], p[2]} \subseteq v.pass}
           Q == {p \in Across : EdgeOf(p) = e /\ {p[1], p[2]} \subseteq w.pass}
<1>1. P = Q
  OBVIOUS
<1>2. \A p \in P : (Free(d, p[1]) <=> Free(b, p[1])) /\ (Free(d, p[2]) <=> Free(b, p[2]))
  BY DEF Free
<1>3. Crossing(b, v, e) = IF \E p \in P : Free(b, p[1]) /\ Free(b, p[2]) THEN "open"
                          ELSE IF P = {} THEN "none" ELSE "unexplored"
  BY DEF Crossing
<1>4. Crossing(d, w, e) = IF \E p \in Q : Free(d, p[1]) /\ Free(d, p[2]) THEN "open"
                          ELSE IF Q = {} THEN "none" ELSE "unexplored"
  BY DEF Crossing
<1> HIDE DEF P, Q
<1> QED BY <1>1, <1>2, <1>3, <1>4

\* What a chunk's cells depend on lies in it and around it.
LEMMA AroundCells ==
  ASSUME NEW c \in Cells
  PROVE  /\ ChunkOf[c] \in Chunks /\ ChunkOf[c] \in Around[ChunkOf[c]]
         /\ \A d \in Footprint[c] \cup {c} : \A s \in Sides[d] \cup {d} :
              ChunkOf[s] \in Chunks /\ ChunkOf[c] \in Around[ChunkOf[s]]
<1>1. c \in Reach[c] /\ ChunkOf[c] \in Chunks
  BY GridAssumption
<1>2. \A d \in Reach[c] : \A s \in Sides[d] \cup {d} : ChunkOf[s] \in Around[ChunkOf[c]]
  BY GridAssumption
<1>3. \A d \in Footprint[c] \cup {c} : d \in Reach[c] /\ d \in Cells
  BY GridAssumption, ShapeAssumption
<1>4. ASSUME NEW d \in Footprint[c] \cup {c}, NEW s \in Sides[d] \cup {d}
      PROVE  ChunkOf[s] \in Chunks /\ ChunkOf[c] \in Around[ChunkOf[s]]
  <2>1. ChunkOf[s] \in Around[ChunkOf[c]]
    BY <1>2, <1>3
  <2>2. Around[ChunkOf[c]] \subseteq Chunks
    BY <1>1, GridAssumption
  <2> QED BY <1>1, <2>1, <2>2, ShapeAssumption
<1> QED BY <1>1, <1>2, <1>4

\* Memos that are not due stay so while the map goes on.
LEMMA MemosGrow ==
  ASSUME NEW b, BeliefOK(b), NEW v, NEW l, LayerOK(b, l), MemosOK(b, v, l), NEW d, Grows(b, d)
  PROVE  MemosOK(d, v, l)
<1>1. l.version \in Nat /\ l.version <= b.plan
  BY DEF LayerOK
<1>2. ASSUME NEW k \in Chunks, Unstamped(d, l.version, k)
      PROVE  Unstamped(b, l.version, k) /\ \A c \in Cells : ChunkOf[c] = k => Class(d, c) = Class(b, c)
  <2>1. Unstamped(b, l.version, k) /\ ~(d.stamp[k] > b.plan)
    BY <1>1, <1>2, UnstampedBefore
  <2> QED BY <2>1 DEF Grows
<1>3. ASSUME NEW r \in Regions \ l.recount, \A k \in Chunks : RegionOf[k] = r => Unstamped(d, l.version, k)
      PROVE  l.waypoint[r] = WaypointOf(d, l, r)
  <2>1. l.waypoint[r] = WaypointOf(b, l, r)
    BY <1>2, <1>3 DEF MemosOK
  <2>2. \A c \in Cells : RegionOf[ChunkOf[c]] = r => Class(d, c) = Class(b, c)
    BY <1>2, <1>3, NearCells
  <2> QED BY <2>1, <2>2, SameWaypoint
<1>4. ASSUME NEW k \in Chunks, k \notin ChunksChangedSince(d, l.version)
      PROVE  Unstamped(d, l.version, k) /\ k \notin ChunksChangedSince(b, l.version)
  <2>1. d.stamp[k] \in Nat /\ b.stamp[k] \in Nat
    BY DEF BeliefOK, Grows
  <2>2. Unstamped(d, l.version, k)
    BY <1>1, <1>4, <2>1 DEF ChunksChangedSince, Unstamped
  <2>3. Unstamped(b, l.version, k)
    BY <1>2, <2>2
  <2> QED BY <1>1, <2>1, <2>2, <2>3 DEF ChunksChangedSince, Unstamped
<1>5. ASSUME NEW e \in Edges \ l.edgeDirty, e \notin EdgesNear(ChunksChangedSince(d, l.version))
      PROVE  l.edge[e] = Crossing(d, v, e)
  <2>1. e \notin EdgesNear(ChunksChangedSince(b, l.version))
    <3>1. ChunksChangedSince(b, l.version) \subseteq ChunksChangedSince(d, l.version)
      BY <1>4 DEF ChunksChangedSince
    <3> QED BY <1>5, <3>1 DEF EdgesNear
  <2>2. l.edge[e] = Crossing(b, v, e)
    BY <2>1 DEF MemosOK
  <2>3. ASSUME NEW c \in Cells, RegionOf[ChunkOf[c]] \in e PROVE Class(d, c) = Class(b, c)
    <3>1. ChunkOf[c] \in Chunks /\ ChunkOf[c] \in Around[ChunkOf[c]]
      BY AroundCells
    <3>2. ChunkOf[c] \notin ChunksChangedSince(d, l.version)
      BY <1>5, <2>3, <3>1 DEF EdgesNear
    <3> QED BY <1>2, <1>4, <3>1, <3>2
  <2>4. \A p \in Across : EdgeOf(p) = e => Class(d, p[1]) = Class(b, p[1]) /\ Class(d, p[2]) = Class(b, p[2])
    BY <2>3, AcrossPairs
  <2> QED BY <2>2, <2>4, SameCrossing
<1> QED BY <1>3, <1>5 DEF MemosOK

(***************************************************************************)
(* Groups                                                                  *)
(***************************************************************************)
\* A flood over some cells holds the cell it starts from and nothing but cells.
LEMMA FloodedCells ==
  ASSUME NEW f \in SUBSET Cells, NEW c \in f
  PROVE  c \in Flooded(f, c) /\ Flooded(f, c) \subseteq Cells
<1> DEFINE Spread(w) == w \cup UNION {Corners[d] \cap f : d \in w}
           V == SUBSET Cells
           F == [w \in V |-> Spread(w)]
           Rec(g) == g = [n \in Nat |-> IF n = 0 THEN {c} ELSE Spread(g[n - 1])]
           wave == CHOOSE g : Rec(g)
<1>1. {c} \in V /\ F \in [V -> V]
  OBVIOUS
<1>2. \A w \in V : F[w] = Spread(w) /\ w \subseteq Spread(w) /\ Spread(w) \in V
  OBVIOUS
<1>3. Flooded(f, c) = wave[Cardinality(f)]
  BY DEF Flooded
<1> HIDE DEF F, Spread, V
<1>4. PICK W : Iterates(W, V, {c}, F)
  BY <1>1, IteratesExist
<1>5. Rec(W)
  <2>1. W = [n \in Nat |-> W[n]]
    BY <1>4 DEF Iterates
  <2>2. ASSUME NEW n \in Nat PROVE W[n] = IF n = 0 THEN {c} ELSE Spread(W[n - 1])
    <3>1. CASE n = 0
      BY <1>4, <3>1 DEF Iterates
    <3>2. CASE n # 0
      <4> DEFINE m == n - 1
      <4>1. m \in Nat /\ m + 1 = n
        BY <3>2
      <4>2. W[m + 1] = F[W[m]] /\ W[m] \in V
        BY <1>4, <4>1 DEF Iterates
      <4>3. W[n] = Spread(W[m])
        BY <1>2, <4>1, <4>2
      <4> QED BY <3>2, <4>3
    <3> QED BY <3>1, <3>2
  <2> QED BY <2>1, <2>2
<1>6. Rec(wave)
  <2> HIDE DEF Rec
  <2> QED BY <1>5
<1> HIDE DEF wave
<1>7. \A n \in Nat : wave[n] = IF n = 0 THEN {c} ELSE Spread(wave[n - 1])
  BY <1>6
<1> DEFINE T == {n \in Nat : wave[n] \in V /\ c \in wave[n]}
<1>8. 0 \in T
  BY <1>1, <1>7
<1>9. ASSUME NEW n \in Nat, n \in T PROVE n + 1 \in T
  <2>1. n + 1 \in Nat /\ n + 1 # 0 /\ (n + 1) - 1 = n
    OBVIOUS
  <2>2. wave[n + 1] = Spread(wave[n])
    BY <1>7, <2>1
  <2> QED BY <1>2, <1>9, <2>1, <2>2
<1>10. Nat \subseteq T
  <2> HIDE DEF T
  <2> QED BY <1>8, <1>9, AllNumbers
<1>11. Cardinality(f) \in Nat
  <2>1. IsFiniteSet(f)
    BY GridAssumption, FS_Subset
  <2> QED BY <2>1, FS_CardinalityType
<1> QED BY <1>3, <1>10, <1>11 DEF V

\* A group is some of the cells, and never none.
LEMMA GroupCells ==
  ASSUME NEW flags \in SUBSET Cells, NEW r, NEW g \in Grouped(flags, r)
  PROVE  g \in SUBSET Cells /\ g # {}
<1> DEFINE f == flags \cap RegionCells[r]
<1>1. PICK c \in f : g = Flooded(f, c)
  BY DEF Grouped
<1>2. f \in SUBSET Cells
  OBVIOUS
<1> HIDE DEF f
<1> QED BY <1>1, <1>2, FloodedCells

\* The first of some groups is one of them.
LEMMA FirstGroupIsOne ==
  ASSUME NEW gs, gs # {}, \A g \in gs : g \in SUBSET Cells /\ g # {}
  PROVE  FirstGroup(gs) \in gs
<1> DEFINE all == UNION gs
<1>1. all \subseteq Nat /\ all # {}
  <2>1. all \subseteq Cells /\ Cells \subseteq Nat
    BY GridAssumption
  <2>2. PICK g \in gs : g # {}
    OBVIOUS
  <2> QED BY <2>1, <2>2
<1>2. PICK m \in all : \A d \in all : m <= d
  BY <1>1, LeastNumber
<1>3. PICK g \in gs : m \in g
  BY <1>2
<1>4. \A h \in gs : \E c \in g : \A d \in h : c <= d
  BY <1>2, <1>3
<1> QED BY <1>4 DEF FirstGroup

\* What a read answers for the groups of a region is what the flags give.
LEMMA GroupsAreRight ==
  ASSUME NEW b, NEW v, NEW l, MemosOK(b, v, l)
  PROVE  /\ \A r \in Regions : GroupsOfRegion(l, r) = Grouped(l.flags, r)
         /\ AllGroups(l) = UNION {Grouped(l.flags, r) : r \in Regions}
<1>1. \A r \in Regions : GroupsOfRegion(l, r) = Grouped(l.flags, r)
  BY DEF MemosOK, GroupsOfRegion
<1> QED BY <1>1 DEF AllGroups

\* Reads fill memos with what is right and leave the rest alone.
LEMMA RegroupedOK ==
  ASSUME NEW b, NEW v, NEW l, LayerFields \subseteq DOMAIN l, MemosOK(b, v, l), NEW rs
  PROVE  /\ MemosOK(b, v, Regrouped(l, rs))
         /\ Regrouped(l, rs).rev = l.rev /\ Regrouped(l, rs).frontierRev = l.frontierRev
<1> DEFINE groups == [r \in Regions |-> IF r \in rs THEN GroupsOfRegion(l, r) ELSE l.groups[r]]
           stale == l.stale \ rs
           m == Regrouped(l, rs)
<1>1. m = [l EXCEPT !.groups = groups, !.stale = stale]
  BY DEF Regrouped
<1>2. \A r \in Regions \ stale : groups[r] = Grouped(l.flags, r)
  <2>1. \A r \in Regions : GroupsOfRegion(l, r) = Grouped(l.flags, r)
    BY GroupsAreRight
  <2>2. \A r \in Regions \ l.stale : l.groups[r] = Grouped(l.flags, r)
    BY DEF MemosOK
  <2> QED BY <2>1, <2>2
<1>3. DOMAIN groups = Regions
  OBVIOUS
<1> HIDE DEF groups, stale, m
<1>4. /\ m.groups = groups /\ m.stale = stale /\ m.version = l.version /\ m.rev = l.rev
      /\ m.frontierRev = l.frontierRev /\ m.waypoint = l.waypoint /\ m.edge = l.edge
      /\ m.flags = l.flags /\ m.free = l.free /\ m.recount = l.recount /\ m.edgeDirty = l.edgeDirty
  BY <1>1 DEF LayerFields
<1>5. \A r : WaypointOf(b, m, r) = WaypointOf(b, l, r)
  BY <1>4 DEF WaypointOf
<1>6. MemosOK(b, v, m)
  BY <1>2, <1>3, <1>4, <1>5 DEF MemosOK
<1> QED BY <1>4, <1>6 DEF m

\* Waypoints that are read are right of the map as it is.
LEMMA WaypointsReadOK ==
  ASSUME NEW b, NEW v, NEW l, LayerFields \subseteq DOMAIN l, MemosOK(b, v, l)
  PROVE  /\ MemosOK(b, v, WaypointsRead(l, b))
         /\ WaypointsRead(l, b).rev = l.rev /\ WaypointsRead(l, b).frontierRev = l.frontierRev
<1> DEFINE waypoint == [r \in Regions |-> Waypoint(l, b, r)]
           m == WaypointsRead(l, b)
<1>1. m = [l EXCEPT !.waypoint = waypoint, !.recount = {}]
  BY DEF WaypointsRead
<1>2. ASSUME NEW r \in Regions, \A k \in Chunks : RegionOf[k] = r => Unstamped(b, l.version, k)
      PROVE  waypoint[r] = WaypointOf(b, l, r)
  BY <1>2 DEF MemosOK, Waypoint
<1>3. DOMAIN waypoint = Regions
  OBVIOUS
<1> HIDE DEF waypoint, m
<1>4. /\ m.waypoint = waypoint /\ m.recount = {} /\ m.version = l.version /\ m.rev = l.rev
      /\ m.frontierRev = l.frontierRev /\ m.groups = l.groups /\ m.edge = l.edge /\ m.stale = l.stale
      /\ m.flags = l.flags /\ m.free = l.free /\ m.edgeDirty = l.edgeDirty
  BY <1>1 DEF LayerFields
<1>5. \A r : WaypointOf(b, m, r) = WaypointOf(b, l, r)
  BY <1>4 DEF WaypointOf
<1>6. MemosOK(b, v, m)
  BY <1>2, <1>3, <1>4, <1>5 DEF MemosOK
<1> QED BY <1>4, <1>6 DEF m

\* So are edges.
LEMMA EdgesReadOK ==
  ASSUME NEW b, NEW v, NEW l, LayerFields \subseteq DOMAIN l, MemosOK(b, v, l)
  PROVE  /\ MemosOK(b, v, EdgesRead(l, b, v))
         /\ EdgesRead(l, b, v).rev = l.rev /\ EdgesRead(l, b, v).frontierRev = l.frontierRev
<1> DEFINE edge == [e \in Edges |-> EdgeClass(l, b, v, e)]
           m == EdgesRead(l, b, v)
<1>1. m = [l EXCEPT !.edge = edge, !.edgeDirty = {}]
  BY DEF EdgesRead
<1>2. ASSUME NEW e \in Edges, e \notin EdgesNear(ChunksChangedSince(b, l.version))
      PROVE  edge[e] = Crossing(b, v, e)
  BY <1>2 DEF MemosOK, EdgeClass
<1>3. DOMAIN edge = Edges
  OBVIOUS
<1> HIDE DEF edge, m
<1>4. /\ m.edge = edge /\ m.edgeDirty = {} /\ m.version = l.version /\ m.rev = l.rev
      /\ m.frontierRev = l.frontierRev /\ m.groups = l.groups /\ m.waypoint = l.waypoint
      /\ m.stale = l.stale /\ m.recount = l.recount /\ m.flags = l.flags /\ m.free = l.free
  BY <1>1 DEF LayerFields
<1>5. \A r : WaypointOf(b, m, r) = WaypointOf(b, l, r)
  BY <1>4 DEF WaypointOf
<1>6. MemosOK(b, v, m)
  BY <1>2, <1>3, <1>4, <1>5 DEF MemosOK
<1> QED BY <1>4, <1>6 DEF m

(***************************************************************************)
(* The memos through an update                                             *)
(***************************************************************************)
MovedBetween(f, g) == {RegionOf[ChunkOf[c]] : c \in (g \ f) \cup (f \ g)}

\* The revisions count the regions whose flags changed.
Moves(l, u) ==
  /\ u.rev = [r \in Regions |-> IF r \in MovedBetween(l.flags, u.flags) THEN l.rev[r] + 1 ELSE l.rev[r]]
  /\ u.frontierRev = l.frontierRev + Cardinality(MovedBetween(l.flags, u.flags))

\* What a revision that has not moved says.
Advances(l, u) ==
  /\ u.rev \in [Regions -> Nat] /\ u.frontierRev \in Nat
  /\ l.frontierRev <= u.frontierRev
  /\ u.frontierRev = l.frontierRev => u.flags = l.flags
  /\ \A r \in Regions : /\ l.rev[r] <= u.rev[r]
                        /\ u.rev[r] = l.rev[r] => Grouped(u.flags, r) = Grouped(l.flags, r)

\* Where no flag changed the groups are what they were.
LEMMA UnmovedGroups ==
  ASSUME NEW f \in SUBSET Cells, NEW g \in SUBSET Cells
  PROVE  /\ MovedBetween(f, g) \in SUBSET Regions
         /\ MovedBetween(f, g) = {} => g = f
         /\ \A r \in Regions \ MovedBetween(f, g) : Grouped(g, r) = Grouped(f, r)
<1> DEFINE D == (g \ f) \cup (f \ g)
<1>1. D \subseteq Cells /\ MovedBetween(f, g) = {RegionOf[ChunkOf[c]] : c \in D}
  BY DEF MovedBetween
<1>2. \A c \in Cells : RegionOf[ChunkOf[c]] \in Regions
  BY GridAssumption
<1>3. MovedBetween(f, g) \in SUBSET Regions
  BY <1>1, <1>2
<1>4. MovedBetween(f, g) = {} => D = {}
  BY <1>1
<1>5. ASSUME NEW r \in Regions \ MovedBetween(f, g) PROVE Grouped(g, r) = Grouped(f, r)
  <2>1. \A c \in D : c \notin RegionCells[r]
    BY <1>1, <1>5 DEF RegionCells
  <2>2. g \cap RegionCells[r] = f \cap RegionCells[r]
    BY <2>1
  <2> QED BY <2>2 DEF Grouped
<1> QED BY <1>3, <1>4, <1>5

\* Revisions that count the regions that moved tell which did not.
LEMMA MovesAdvance ==
  ASSUME NEW l, NEW u, l.flags \in SUBSET Cells, u.flags \in SUBSET Cells,
         l.rev \in [Regions -> Nat], l.frontierRev \in Nat, Moves(l, u)
  PROVE  Advances(l, u)
<1> DEFINE moved == MovedBetween(l.flags, u.flags)
           n == Cardinality(moved)
<1>1. /\ u.rev = [r \in Regions |-> IF r \in moved THEN l.rev[r] + 1 ELSE l.rev[r]]
      /\ u.frontierRev = l.frontierRev + n
  BY DEF Moves
<1>2. /\ moved \in SUBSET Regions /\ (moved = {} => u.flags = l.flags)
      /\ \A r \in Regions \ moved : Grouped(u.flags, r) = Grouped(l.flags, r)
  BY UnmovedGroups
<1> HIDE DEF moved
<1>3. n \in Nat /\ (n = 0 => moved = {})
  <2>1. IsFiniteSet(moved)
    BY <1>2, ShapeAssumption, FS_Subset
  <2> QED BY <2>1, FS_CardinalityType, FS_EmptySet
<1> HIDE DEF n
<1>4. ASSUME NEW r \in Regions
      PROVE  /\ u.rev[r] \in Nat /\ l.rev[r] <= u.rev[r]
             /\ u.rev[r] = l.rev[r] => Grouped(u.flags, r) = Grouped(l.flags, r)
  <2>1. l.rev[r] \in Nat /\ u.rev[r] = IF r \in moved THEN l.rev[r] + 1 ELSE l.rev[r]
    BY <1>1
  <2> QED BY <1>2, <2>1
<1>5. u.rev \in [Regions -> Nat]
  BY <1>1, <1>4
<1>6. u.frontierRev \in Nat /\ l.frontierRev <= u.frontierRev /\ (u.frontierRev = l.frontierRev => u.flags = l.flags)
  BY <1>1, <1>2, <1>3
<1> QED BY <1>4, <1>5, <1>6 DEF Advances

\* Memos that are right but for what some chunks will have changed.
MemosBefore(b, w, l, dirty) ==
  /\ l.rev \in [Regions -> Nat] /\ l.frontierRev \in Nat
  /\ DOMAIN l.groups = Regions /\ DOMAIN l.waypoint = Regions /\ DOMAIN l.edge = Edges
  /\ \A r \in Regions \ l.stale : l.groups[r] = Grouped(l.flags, r)
  /\ \A r \in Regions \ l.recount :
       (\A k \in Chunks : RegionOf[k] = r => k \notin dirty) => l.waypoint[r] = WaypointOf(b, l, r)
  /\ \A e \in Edges \ l.edgeDirty : e \notin EdgesNear(dirty) => l.edge[e] = Crossing(b, w, e)

\* An update makes due what they may have changed.
LEMMA UpdatedFromMemos ==
  ASSUME NEW b, BeliefOK(b), NEW w, w.synced = b.plan, NEW l, LayerFields \subseteq DOMAIN l, l.flags \in SUBSET Cells,
         NEW dirty \in SUBSET Chunks, MemosBefore(b, w, l, dirty), NEW u, u = UpdatedFrom(l, b, dirty)
  PROVE  MemosOK(b, w, u) /\ Advances(l, u) /\ u.flags = Reflagged(l.flags, b, dirty)
<1> DEFINE flags == Reflagged(l.flags, b, dirty)
           moved == MovedBetween(l.flags, flags)
           known == [k \in Chunks |-> IF k \in dirty THEN KnownIn(b, k) ELSE l.known[k]]
           free == [k \in Chunks |-> IF k \in dirty THEN FreeIn(b, k) ELSE l.free[k]]
           rev == [r \in Regions |-> IF r \in moved THEN l.rev[r] + 1 ELSE l.rev[r]]
           stale == l.stale \cup moved
           recount == l.recount \cup {RegionOf[k] : k \in dirty}
           edgeDirty == l.edgeDirty \cup EdgesNear(dirty)
           n == l.frontierRev + Cardinality(moved)
<1>1. u = [l EXCEPT !.version = b.plan, !.flags = flags, !.known = known, !.free = free, !.stale = stale,
                    !.rev = rev, !.frontierRev = n, !.recount = recount, !.edgeDirty = edgeDirty]
  BY DEF UpdatedFrom, MovedBetween
<1>2. flags \in SUBSET Cells
  BY DEF Reflagged, Updated, Recounted, Border
<1>3. /\ moved \in SUBSET Regions
      /\ \A r \in Regions \ moved : Grouped(flags, r) = Grouped(l.flags, r)
  <2> HIDE DEF flags
  <2> QED BY <1>2, UnmovedGroups
<1>4. \A k \in Chunks \ dirty : free[k] = l.free[k]
  OBVIOUS
<1>5. rev = [r \in Regions |-> IF r \in moved THEN l.rev[r] + 1 ELSE l.rev[r]] /\ n = l.frontierRev + Cardinality(moved)
  OBVIOUS
<1>6. moved = MovedBetween(l.flags, flags)
  OBVIOUS
<1> HIDE DEF flags, moved, known, free, rev, stale, recount, edgeDirty, n
<1>7. /\ u.version = b.plan /\ u.flags = flags /\ u.free = free /\ u.stale = stale /\ u.rev = rev
      /\ u.frontierRev = n /\ u.recount = recount /\ u.edgeDirty = edgeDirty
      /\ u.groups = l.groups /\ u.waypoint = l.waypoint /\ u.edge = l.edge
  BY <1>1 DEF LayerFields
<1>8. Advances(l, u)
  <2>1. Moves(l, u)
    BY <1>5, <1>6, <1>7 DEF Moves
  <2>2. l.rev \in [Regions -> Nat] /\ l.frontierRev \in Nat /\ u.flags \in SUBSET Cells
    BY <1>2, <1>7 DEF MemosBefore
  <2> QED BY <2>1, <2>2, MovesAdvance
<1>9. \A r \in Regions \ u.stale : u.groups[r] = Grouped(u.flags, r)
  <2> SUFFICES ASSUME NEW r \in Regions, r \notin u.stale PROVE u.groups[r] = Grouped(u.flags, r)
    OBVIOUS
  <2>1. r \notin l.stale /\ r \notin moved
    BY <1>7 DEF stale
  <2> QED BY <1>3, <1>7, <2>1 DEF MemosBefore
<1>10. ASSUME NEW r \in Regions, r \notin u.recount PROVE u.waypoint[r] = WaypointOf(b, u, r)
  <2>1. r \notin l.recount /\ \A k \in Chunks : RegionOf[k] = r => k \notin dirty
    BY <1>7, <1>10 DEF recount
  <2>2. l.waypoint[r] = WaypointOf(b, l, r)
    BY <2>1 DEF MemosBefore
  <2>3. \A k \in Chunks : RegionOf[k] = r => u.free[k] = l.free[k]
    BY <1>4, <1>7, <2>1
  <2>4. WaypointOf(b, u, r) = WaypointOf(b, l, r)
    BY <2>3, SameWaypoint
  <2> QED BY <1>7, <2>2, <2>4
<1>11. ASSUME NEW e \in Edges, e \notin u.edgeDirty PROVE u.edge[e] = Crossing(b, w, e)
  BY <1>7, <1>11 DEF edgeDirty, MemosBefore
<1>12. /\ u.version = w.synced /\ u.rev \in [Regions -> Nat] /\ u.frontierRev \in Nat
       /\ DOMAIN u.groups = Regions /\ DOMAIN u.waypoint = Regions /\ DOMAIN u.edge = Edges
  BY <1>7, <1>8 DEF Advances, MemosBefore
<1>13. MemosOK(b, w, u)
  BY <1>9, <1>10, <1>11, <1>12 DEF MemosOK
<1> QED BY <1>7, <1>8, <1>13 DEF flags

\* What an edge that is not near a change runs along has its masks as they were.
LEMMA MasksAway ==
  ASSUME NEW b, BeliefOK(b), NEW v, ViewOK(b, v), NEW w \in ViewState, Fits(w), AllRight(b, w),
         NEW e, e \notin EdgesNear(ChunksChangedSince(b, v.synced)), e \in Edges,
         NEW c \in Cells, RegionOf[ChunkOf[c]] \in e
  PROVE  c \in w.pass <=> c \in v.pass
<1>1. v \in ViewState /\ Fits(v) /\ v.synced \in Nat
  BY DEF ViewOK, ViewState
<1>2. ASSUME NEW d \in Footprint[c] \cup {c} PROVE d \in Cells /\ (d \in w.open <=> d \in v.open)
  <2>1. d \in Cells
    BY <1>2, NearCells
  <2>2. ASSUME NEW s \in Sides[d] \cup {d} PROVE Unstamped(b, v.synced, ChunkOf[s])
    <3>1. ChunkOf[s] \in Chunks /\ ChunkOf[c] \in Around[ChunkOf[s]]
      BY AroundCells
    <3>2. ChunkOf[s] \notin ChunksChangedSince(b, v.synced)
      BY <3>1 DEF EdgesNear
    <3>3. b.stamp[ChunkOf[s]] \in Nat
      BY <3>1 DEF BeliefOK
    <3> QED BY <1>1, <3>1, <3>2, <3>3 DEF ChunksChangedSince, Unstamped
  <2>3. BaseRight(b, v, d) /\ BaseRight(b, w, d)
    BY <2>1, <2>2 DEF ViewOK, AllRight
  <2> QED BY <2>1, <2>3 DEF BaseRight
<1>3. MaskAt(w.open, c) <=> MaskAt(v.open, c)
  BY <1>2 DEF MaskAt
<1> QED BY <1>1, <1>3 DEF Fits

\* The memos after an update.
LEMMA UpdateMemos ==
  ASSUME NEW b, BeliefOK(b), LogOK(b), NEW v, ViewOK(b, v), NEW l, LayerOK(b, l), MemosOK(b, v, l),
         NEW w, w = Sync(v, b), NEW u, u = Update(l, b)
  PROVE  MemosOK(b, w, u) /\ Advances(l, u)
<1>1. /\ w \in ViewState /\ w.synced = b.plan /\ Fits(w) /\ AllRight(b, w)
  BY SyncRight
<1>2. /\ l.version = v.synced /\ LayerFields \subseteq DOMAIN l /\ l.flags \in SUBSET Cells
      /\ l.rev \in [Regions -> Nat] /\ l.frontierRev \in Nat
  BY DEF LayerOK, MemosOK
<1>3. CASE l.version = b.plan
  <2>1. w = v /\ u = l
    BY <1>2, <1>3 DEF Sync, Update
  <2>2. Advances(l, l)
    BY <1>2 DEF Advances
  <2> QED BY <2>1, <2>2
<1>4. CASE l.version # b.plan
  <2> DEFINE dirty == ChunksChangedSince(b, l.version)
  <2>1. u = UpdatedFrom(l, b, dirty) /\ dirty \in SUBSET Chunks
    BY <1>4 DEF Update, ChunksChangedSince
  <2>2. \A k \in Chunks : k \notin dirty => Unstamped(b, l.version, k)
    BY DEF ChunksChangedSince, Unstamped, BeliefOK, LayerOK
  <2>3. ASSUME NEW e \in Edges \ l.edgeDirty, e \notin EdgesNear(dirty) PROVE l.edge[e] = Crossing(b, w, e)
    <3>1. l.edge[e] = Crossing(b, v, e)
      BY <2>3 DEF MemosOK
    <3>2. \A c \in Cells : RegionOf[ChunkOf[c]] \in e => (c \in w.pass <=> c \in v.pass)
      BY <1>1, <1>2, <2>3, MasksAway
    <3>3. \A p \in Across : EdgeOf(p) = e =>
            (p[1] \in w.pass <=> p[1] \in v.pass) /\ (p[2] \in w.pass <=> p[2] \in v.pass)
      BY <3>2, AcrossPairs
    <3>4. Crossing(b, w, e) = Crossing(b, v, e)
      BY <3>3, SameCrossing
    <3> QED BY <3>1, <3>4
  <2> HIDE DEF dirty
  <2>4. MemosBefore(b, w, l, dirty)
    BY <2>2, <2>3 DEF MemosBefore, MemosOK
  <2> QED BY <1>1, <1>2, <2>1, <2>4, UpdatedFromMemos
<1> QED BY <1>3, <1>4

\* The memos of a layer that is built anew.
LEMMA NewLayerMemos ==
  ASSUME NEW b, BeliefOK(b), NEW w, w.synced = b.plan
  PROVE  MemosOK(b, w, NewLayer(b))
<1> DEFINE l == EmptyLayer
<1>1. /\ l.rev = [r \in Regions |-> 0] /\ l.frontierRev = 0 /\ l.flags = {} /\ l.stale = {}
      /\ l.groups = [r \in Regions |-> {}] /\ l.waypoint = [r \in Regions |-> {}] /\ l.edge = [e \in Edges |-> "none"]
      /\ l.recount = Regions /\ l.edgeDirty = Edges /\ LayerFields \subseteq DOMAIN l
  BY DEF EmptyLayer, LayerFields
<1>2. \A r : Grouped({}, r) = {}
  BY DEF Grouped
<1> HIDE DEF l
<1>3. MemosBefore(b, w, l, Chunks)
  BY <1>1, <1>2 DEF MemosBefore
<1>4. l.flags \in SUBSET Cells /\ Chunks \in SUBSET Chunks
  BY <1>1
<1>5. MemosOK(b, w, UpdatedFrom(l, b, Chunks))
  BY <1>1, <1>3, <1>4, UpdatedFromMemos
<1> QED BY <1>5 DEF NewLayer, l

(***************************************************************************)
(* The marks                                                               *)
(***************************************************************************)
\* Marks that are made follow the view as it is.
LEMMA MarkedOK ==
  ASSUME NEW view \in ViewState, NEW m, MarksOK(m, view), NEW g \in SUBSET Cells
  PROVE  /\ MarksOK(Marked(m, g, view), view)
         /\ Marked(m, g, view).cells = m.cells \cup g /\ Marked(m, g, view).rev = m.rev + 1
<1>1. m \in [cells : SUBSET Cells, at : Nat, rev : Nat] /\ (m.cells # {} => m.at = view.content) /\ view.content \in Nat
  BY DEF MarksOK, ViewState
<1> DEFINE at == IF m.cells = {} THEN view.content ELSE m.at
           n == Marked(m, g, view)
<1>2. at = view.content
  BY <1>1
<1>3. n = [m EXCEPT !.cells = m.cells \cup g, !.at = at, !.rev = m.rev + 1]
  BY DEF Marked
<1> DEFINE cs == m.cells \cup g
           r == m.rev + 1
<1>5. cs \in SUBSET Cells /\ r \in Nat /\ at \in Nat
  BY <1>1, <1>2
<1>6. n = [m EXCEPT !.cells = cs, !.at = at, !.rev = r] /\ cs = m.cells \cup g /\ r = m.rev + 1
  BY <1>3
<1> HIDE DEF at, n, cs, r
<1>4. n \in [cells : SUBSET Cells, at : Nat, rev : Nat] /\ n.cells = m.cells \cup g /\ n.at = at /\ n.rev = m.rev + 1
  BY <1>1, <1>5, <1>6
<1> QED BY <1>2, <1>4 DEF MarksOK, n

\* Marks that are dropped leave the others following the view.
LEMMA DroppedOK ==
  ASSUME NEW view, NEW m, MarksOK(m, view), NEW g
  PROVE  MarksOK(Dropped(m, g), view) /\ Dropped(m, g).cells = m.cells \ g
<1> DEFINE cs == m.cells \ g
           r == m.rev + 1
           n == [m EXCEPT !.cells = cs, !.rev = r]
<1>1. m \in [cells : SUBSET Cells, at : Nat, rev : Nat] /\ (m.cells # {} => m.at = view.content)
  BY DEF MarksOK
<1>2. cs \in SUBSET Cells /\ r \in Nat /\ cs \subseteq m.cells /\ cs = m.cells \ g
  BY <1>1
<1>3. Dropped(m, g) = IF m.cells \cap g = {} THEN m ELSE n
  BY DEF Dropped
<1> HIDE DEF cs, r
<1>4. n \in [cells : SUBSET Cells, at : Nat, rev : Nat] /\ n.cells = cs /\ n.at = m.at
  BY <1>1, <1>2
<1> HIDE DEF n
<1>5. MarksOK(n, view)
  BY <1>1, <1>2, <1>4 DEF MarksOK
<1>6. m.cells \cap g = {} => m.cells = cs
  BY <1>2
<1> QED BY <1>2, <1>3, <1>4, <1>5, <1>6

\* No marks follow any view.
LEMMA EmptiedOK ==
  ASSUME NEW view, NEW m, MarksOK(m, view)
  PROVE  MarksOK(Emptied(m), view) /\ Emptied(m).cells = {}
<1> DEFINE r == m.rev + 1
           n == [m EXCEPT !.cells = {}, !.rev = r]
<1>1. m \in [cells : SUBSET Cells, at : Nat, rev : Nat]
  BY DEF MarksOK
<1>2. r \in Nat
  BY <1>1
<1>3. Emptied(m) = IF m.cells = {} THEN m ELSE n
  BY DEF Emptied
<1> HIDE DEF r
<1>4. n \in [cells : SUBSET Cells, at : Nat, rev : Nat] /\ n.cells = {}
  BY <1>1, <1>2
<1> HIDE DEF n
<1> QED BY <1>3, <1>4 DEF MarksOK

\* Marks that followed the view go where an update touched it.
LEMMA ClearedOK ==
  ASSUME NEW v \in ViewState, NEW w \in ViewState, NEW touched, Counts(v, w, touched),
         \A k \in Chunks : v.stamp[k] <= v.content, NEW m, MarksOK(m, v)
  PROVE  /\ MarksOK(Cleared(m, w), w)
         /\ Cleared(m, w).cells = {c \in m.cells : Around[ChunkOf[c]] \cap touched = {}}
         /\ m.rev <= Cleared(m, w).rev
         /\ Cleared(m, w).rev = m.rev => Cleared(m, w).cells = m.cells
<1>1. m \in [cells : SUBSET Cells, at : Nat, rev : Nat] /\ (m.cells # {} => m.at = v.content)
  BY DEF MarksOK
<1>2. ChangedSince(w, v.content) = touched /\ (w.content = v.content <=> touched = {}) /\ w.content \in Nat
  BY CountsBounds DEF ViewState
<1>3. CASE m.cells = {}
  <2>1. Cleared(m, w) = m
    BY <1>3 DEF Cleared
  <2> QED BY <1>1, <1>3, <2>1 DEF MarksOK
<1>4. CASE m.cells # {} /\ w.content = v.content
  <2>1. Cleared(m, w) = m
    BY <1>1, <1>4 DEF Cleared
  <2> QED BY <1>1, <1>2, <1>4, <2>1 DEF MarksOK
<1>5. CASE m.cells # {} /\ w.content # v.content
  <2> DEFINE hit == {k \in {ChunkOf[c] : c \in m.cells} : Around[k] \cap touched # {}}
             n == Cardinality(hit)
             cells == {c \in m.cells : ChunkOf[c] \notin hit}
             u == Cleared(m, w)
  <2>1. u = [cells |-> cells, at |-> w.content, rev |-> m.rev + n]
    BY <1>1, <1>2, <1>5 DEF Cleared
  <2>2. n \in Nat /\ (n = 0 => hit = {})
    <3>1. hit \subseteq Chunks
      BY <1>1, NearCells
    <3>2. IsFiniteSet(hit)
      <4> HIDE DEF hit
      <4> QED BY <3>1, ShapeAssumption, FS_Subset
    <3> HIDE DEF hit
    <3> QED BY <3>2, FS_CardinalityType, FS_EmptySet
  <2>3. cells = {c \in m.cells : Around[ChunkOf[c]] \cap touched = {}}
    OBVIOUS
  <2>4. hit = {} => cells = m.cells
    OBVIOUS
  <2>5. cells \in SUBSET Cells
    BY <1>1
  <2> HIDE DEF hit, n, cells, u
  <2>6. /\ u \in [cells : SUBSET Cells, at : Nat, rev : Nat] /\ u.cells = cells /\ u.at = w.content
        /\ u.rev = m.rev + n /\ m.rev \in Nat
    BY <1>1, <1>2, <2>1, <2>2, <2>5
  <2>7. MarksOK(u, w)
    BY <2>6 DEF MarksOK
  <2>8. m.rev <= u.rev /\ (u.rev = m.rev => n = 0)
    BY <2>2, <2>6
  <2> QED BY <2>2, <2>3, <2>4, <2>6, <2>7, <2>8 DEF u
<1> QED BY <1>3, <1>4, <1>5

(***************************************************************************)
(* What is left, and what is told of it                                    *)
(***************************************************************************)
\* A service that differs in its memos and its witness only.
Calm(s, t) ==
  /\ ServiceFields \subseteq DOMAIN t
  /\ t.belief = s.belief /\ t.view = s.view /\ t.marks = s.marks /\ t.temporary = s.temporary
  /\ SameLayer(s.layer, t.layer) /\ MemosOK(t.belief, t.view, t.layer)
  /\ t.layer.rev = s.layer.rev /\ t.layer.frontierRev = s.layer.frontierRev
  /\ WitnessOK(t)

\* Filled memos and a new witness change nothing of what is left or told.
LEMMA CalmChain ==
  ASSUME NEW s, ChainOK(s), NEW t, Calm(s, t)
  PROVE  /\ Left(t) <=> Left(s)
         /\ WatchedOK(t) => ChainOK(t)
         /\ t.had = s.had /\ t.watched = s.watched => WatchedOK(t)
<1>1. Left(t) <=> Left(s)
  BY DEF Calm, SameLayer, Left
<1>2. WatchedOK(t) => ChainOK(t)
  BY DEF Calm, ChainOK
<1>3. ASSUME t.had = s.had, t.watched = s.watched PROVE WatchedOK(t)
  BY <1>1, <1>3 DEF Calm, ChainOK, WatchedOK
<1> QED BY <1>1, <1>2, <1>3

\* What is asked of a service agrees with what is left by the flags.
LEMMA LeftIsFound ==
  ASSUME NEW s, ChainOK(s)
  PROVE  /\ \A r \in Regions : Unmarked(s, r) = {g \in Grouped(s.layer.flags, r) : ~IsMarked(s.marks, g)}
         /\ HasUnmarkedFrontier(s) <=> Left(s)
<1>1. MemosOK(s.belief, s.view, s.layer) /\ WitnessOK(s)
  BY DEF ChainOK
<1>2. \A r \in Regions : GroupsOfRegion(s.layer, r) = Grouped(s.layer.flags, r)
  BY <1>1, GroupsAreRight
<1>3. \A r \in Regions : Unmarked(s, r) = {g \in Grouped(s.layer.flags, r) : ~IsMarked(s.marks, g)}
  BY <1>2 DEF Unmarked
<1>4. WitnessStands(s) => Left(s)
  BY <1>1 DEF WitnessStands, WitnessOK, Left
<1>5. (\E r \in Regions : Unmarked(s, r) # {}) <=> Left(s)
  BY <1>3 DEF Left
<1> QED BY <1>3, <1>4, <1>5 DEF HasUnmarkedFrontier

\* A search leaves a witness that is a group of its region.
LEMMA SearchedCalm ==
  ASSUME NEW s, ServiceOK(s), ChainOK(s)
  PROVE  Calm(s, Searched(s)) /\ Searched(s).had = s.had
<1> DEFINE turn == InTurn(s)
           n == Cardinality(Regions)
           start == IF s.witness = {} THEN 0 ELSE (CHOOSE w \in s.witness : TRUE).region
           having == {i \in DOMAIN turn : Unmarked(s, turn[i]) # {}}
           last == CHOOSE i \in having : \A j \in having : i <= j
<1>0. /\ ServiceFields \subseteq DOMAIN s /\ LayerFields \subseteq DOMAIN s.layer /\ s.layer.flags \in SUBSET Cells
      /\ MemosOK(s.belief, s.view, s.layer) /\ WitnessOK(s)
  BY DEF ServiceOK, LayerOK, ChainOK
<1>1. ASSUME NEW t, NEW rs, ServiceFields \subseteq DOMAIN t, t.belief = s.belief, t.view = s.view, t.marks = s.marks,
             t.temporary = s.temporary, t.had = s.had, t.layer = Regrouped(s.layer, rs),
             \A w \in t.witness : /\ w.region \in Regions /\ w.rev \in Nat /\ w.rev = s.layer.rev[w.region]
                                  /\ w.group \in Grouped(s.layer.flags, w.region)
      PROVE  Calm(s, t) /\ t.had = s.had
  <2>1. /\ MemosOK(s.belief, s.view, t.layer) /\ t.layer.rev = s.layer.rev /\ t.layer.frontierRev = s.layer.frontierRev
        /\ SameLayer(s.layer, t.layer)
    BY <1>0, <1>1, RegroupedOK, MemosKeep
  <2>2. WitnessOK(t)
    BY <1>1, <2>1 DEF WitnessOK, SameLayer
  <2> QED BY <1>1, <2>1, <2>2 DEF Calm
<1>2. CASE having = {}
  <2> DEFINE t == [s EXCEPT !.witness = {}, !.layer = Regrouped(@, Regions)]
  <2>1. Searched(s) = t
    BY <1>2 DEF Searched
  <2>2. /\ ServiceFields \subseteq DOMAIN t /\ t.belief = s.belief /\ t.view = s.view /\ t.marks = s.marks
        /\ t.temporary = s.temporary /\ t.had = s.had /\ t.layer = Regrouped(s.layer, Regions) /\ t.witness = {}
    BY <1>0 DEF ServiceFields
  <2> HIDE DEF t
  <2> QED BY <1>1, <2>1, <2>2
<1>3. CASE having # {}
  <2> DEFINE r == turn[last]
             g == FirstGroup(Unmarked(s, r))
             x == [region |-> r, rev |-> s.layer.rev[r], group |-> g]
             rs == {turn[i] : i \in 0..last}
             y == [s EXCEPT !.witness = {x}]
             t == [y EXCEPT !.layer = Regrouped(s.layer, rs)]
  <2>1. n \in Nat
    BY ShapeAssumption, FS_CardinalityType
  <2>2. turn = [i \in 0..(n - 1) |-> (start + i) % n]
    BY DEF InTurn
  <2>3. start \in Nat
    <3>1. \A w \in s.witness : w.region \in Nat
      BY <1>0, GridAssumption DEF WitnessOK
    <3> QED BY <3>1
  <2>4. last \in having
    <3>1. having \subseteq Nat
      <4> HIDE DEF start
      <4> QED BY <2>1, <2>2
    <3> HIDE DEF having
    <3> QED BY <1>3, <3>1, LeastNumber
  <2>5. last \in 0..(n - 1) /\ Unmarked(s, r) # {}
    <3> HIDE DEF last
    <3>1. last \in DOMAIN turn /\ Unmarked(s, turn[last]) # {}
      BY <2>4
    <3> HIDE DEF turn
    <3> QED BY <2>2, <3>1
  <2>6. r \in Regions
    <3> HIDE DEF last, start, n, turn
    <3>1. r = (start + last) % n /\ n > 0
      BY <2>1, <2>2, <2>5
    <3>2. (start + last) % n \in 0..(n - 1)
      BY <2>1, <2>3, <2>5, <3>1
    <3> QED BY <3>1, <3>2, ShapeAssumption DEF n
  <2> HIDE DEF r
  <2>7. Unmarked(s, r) \subseteq Grouped(s.layer.flags, r)
    BY <2>6, LeftIsFound
  <2>8. g \in Grouped(s.layer.flags, r)
    <3>1. \A h \in Unmarked(s, r) : h \in SUBSET Cells /\ h # {}
      BY <1>0, <2>7, GroupCells
    <3>2. g \in Unmarked(s, r)
      BY <2>5, <3>1, FirstGroupIsOne
    <3> QED BY <2>7, <3>2
  <2>9. Searched(s) = t
    <3>1. Searched(s) = [Witnessed(s, turn[last]) EXCEPT !.layer = Regrouped(@, rs)]
      BY <1>3 DEF Searched
    <3>2. Witnessed(s, turn[last]) = y
      BY DEF Witnessed, r
    <3>3. y.layer = s.layer
      BY <1>0 DEF ServiceFields
    <3> HIDE DEF y, rs
    <3> QED BY <3>1, <3>2, <3>3
  <2>10. x.region = r /\ x.rev = s.layer.rev[r] /\ x.group = g
    OBVIOUS
  <2> HIDE DEF x, g, rs
  <2>11. /\ ServiceFields \subseteq DOMAIN y /\ y.belief = s.belief /\ y.view = s.view /\ y.marks = s.marks
         /\ y.temporary = s.temporary /\ y.had = s.had /\ y.witness = {x}
    BY <1>0 DEF ServiceFields
  <2> HIDE DEF y
  <2>12. /\ ServiceFields \subseteq DOMAIN t /\ t.belief = s.belief /\ t.view = s.view /\ t.marks = s.marks
         /\ t.temporary = s.temporary /\ t.had = s.had /\ t.layer = Regrouped(s.layer, rs) /\ t.witness = {x}
    BY <2>11 DEF ServiceFields
  <2> HIDE DEF t
  <2>13. x.rev \in Nat
    BY <1>0, <2>6, <2>10 DEF MemosOK
  <2>14. \A w \in t.witness : /\ w.region \in Regions /\ w.rev \in Nat /\ w.rev = s.layer.rev[w.region]
                              /\ w.group \in Grouped(s.layer.flags, w.region)
    BY <2>6, <2>8, <2>10, <2>12, <2>13
  <2> QED BY <1>1, <2>9, <2>12, <2>14
<1> QED BY <1>2, <1>3

\* What a service has told after it looked.
HadAfter(s, cell) ==
  IF Left(s) THEN "yes"
  ELSE IF s.had # "yes" THEN s.had
  ELSE IF Class(s.belief, cell) = "unknown" THEN "yes" ELSE "no"

\* After it looked a service has told what it should.
LEMMA WatchedRight ==
  ASSUME NEW s, ServiceOK(s), ChainOK(s), NEW cell, NEW t, t = Watched(s, cell)
  PROVE  Calm(s, t) /\ ChainOK(t) /\ t.had = HadAfter(s, cell)
<1> DEFINE stamp == <<s.layer.frontierRev, s.marks.rev>>
           k == Looked(s)
           w == [k EXCEPT !.watched = stamp]
<1>0. /\ ServiceFields \subseteq DOMAIN s /\ LayerFields \subseteq DOMAIN s.layer
      /\ MemosOK(s.belief, s.view, s.layer) /\ WitnessOK(s) /\ WatchedOK(s)
      /\ s.layer.frontierRev \in Nat /\ s.marks.rev \in Nat
  BY DEF ServiceOK, LayerOK, ChainOK, MemosOK, MarksOK
<1>1. Calm(s, s)
  BY <1>0 DEF Calm, SameLayer
<1>2. Calm(s, k) /\ k.had = s.had
  BY <1>1, SearchedCalm DEF Looked
<1>3. HasUnmarkedFrontier(s) <=> Left(s)
  BY LeftIsFound
<1>4. Watched(s, cell) =
        IF s.watched = stamp THEN s
        ELSE IF HasUnmarkedFrontier(s) THEN [w EXCEPT !.had = "yes"]
        ELSE IF s.had # "yes" THEN w
        ELSE IF Class(s.belief, cell) = "unknown" THEN [w EXCEPT !.watched = <<>>]
        ELSE [w EXCEPT !.had = "no"]
  BY DEF Watched
<1>5. CASE s.watched = stamp
  <2>1. t = s
    BY <1>4, <1>5
  <2>2. Left(s) <=> s.had = "yes"
    <3>1. stamp # <<>>
      OBVIOUS
    <3> QED BY <1>0, <1>5, <3>1 DEF WatchedOK
  <2> QED BY <1>1, <2>1, <2>2 DEF HadAfter
<1>6. CASE s.watched # stamp
  <2>0. stamp \in Nat \X Nat /\ stamp[1] = s.layer.frontierRev /\ stamp[2] = s.marks.rev
    BY <1>0
  <2>1. k.layer.frontierRev = s.layer.frontierRev /\ k.marks.rev = s.marks.rev
    BY <1>2 DEF Calm
  <2> HIDE DEF stamp, k
  <2>2. Calm(s, w) /\ w.had = s.had /\ w.watched = stamp
    BY <1>2 DEF Calm, ServiceFields, WitnessOK
  <2>3. ASSUME NEW h
        PROVE  /\ Calm(s, [w EXCEPT !.had = h]) /\ [w EXCEPT !.had = h].had = h
               /\ [w EXCEPT !.had = h].watched = stamp
               /\ Calm(s, [w EXCEPT !.watched = h]) /\ [w EXCEPT !.watched = h].had = s.had
               /\ [w EXCEPT !.watched = h].watched = h
    <3> HIDE DEF w
    <3> QED BY <2>2 DEF Calm, ServiceFields, WitnessOK
  <2>4. /\ Calm(s, t) /\ t.had = HadAfter(s, cell)
        /\ t.watched = <<>> \/ (t.watched = stamp /\ (Left(s) <=> t.had = "yes"))
    <3> DEFINE p == [w EXCEPT !.had = "yes"]
               q == [w EXCEPT !.watched = <<>>]
               x == [w EXCEPT !.had = "no"]
    <3> HIDE DEF w
    <3>4. /\ Calm(s, p) /\ p.had = "yes" /\ p.watched = stamp
          /\ Calm(s, q) /\ q.had = s.had /\ q.watched = <<>>
          /\ Calm(s, x) /\ x.had = "no" /\ x.watched = stamp
      BY <2>3
    <3>5. t = IF Left(s) THEN p ELSE IF s.had # "yes" THEN w
              ELSE IF Class(s.belief, cell) = "unknown" THEN q ELSE x
      BY <1>3, <1>4, <1>6
    <3> HIDE DEF p, q, x
    <3>1. CASE Left(s)
      BY <3>1, <3>4, <3>5 DEF HadAfter
    <3>2. CASE ~Left(s) /\ s.had # "yes"
      BY <2>2, <3>2, <3>5 DEF HadAfter
    <3>3. CASE ~Left(s) /\ s.had = "yes"
      BY <3>3, <3>4, <3>5 DEF HadAfter
    <3> QED BY <3>1, <3>2, <3>3
  <2>5. Left(t) <=> Left(s)
    BY <2>4, CalmChain
  <2>6. WatchedOK(t)
    <3>1. t.layer.frontierRev = s.layer.frontierRev /\ t.marks.rev = s.marks.rev
      BY <2>4 DEF Calm
    <3> QED BY <1>0, <2>0, <2>4, <2>5, <3>1 DEF WatchedOK
  <2> QED BY <2>4, <2>6, CalmChain
<1> QED BY <1>5, <1>6

(***************************************************************************)
(* The service                                                             *)
(***************************************************************************)
\* A service whose map goes on.
LEMMA BelievesChain ==
  ASSUME NEW s, ServiceOK(s), ChainOK(s), NEW b, Grows(s.belief, b), NEW t, t = [s EXCEPT !.belief = b]
  PROVE  /\ ChainOK(t) /\ t.belief = b
         /\ t.view = s.view /\ t.layer = s.layer /\ t.marks = s.marks /\ t.temporary = s.temporary /\ t.had = s.had
<1>1. /\ ServiceFields \subseteq DOMAIN s /\ BeliefOK(s.belief) /\ LayerOK(s.belief, s.layer)
      /\ LogOK(s.belief) /\ ViewOK(s.belief, s.view) /\ MemosOK(s.belief, s.view, s.layer)
      /\ MarksOK(s.marks, s.view) /\ MarksOK(s.temporary, s.view) /\ WitnessOK(s) /\ WatchedOK(s)
  BY DEF ServiceOK, ChainOK
<1>2. /\ t.belief = b /\ t.view = s.view /\ t.layer = s.layer /\ t.marks = s.marks
      /\ t.temporary = s.temporary /\ t.had = s.had /\ t.witness = s.witness /\ t.watched = s.watched
  BY <1>1 DEF ServiceFields
<1>3. ViewOK(b, t.view) /\ MemosOK(b, t.view, t.layer) /\ LogOK(b)
  BY <1>1, <1>2, ViewGrows, MemosGrow DEF Grows
<1>4. WitnessOK(t) /\ WatchedOK(t)
  BY <1>1, <1>2 DEF WitnessOK, WatchedOK, Left
<1> QED BY <1>1, <1>2, <1>3, <1>4 DEF ChainOK

\* A reading or a contact leaves the chain in order.
LEMMA SensesChain ==
  ASSUME NEW s, ServiceOK(s), ChainOK(s)
  PROVE  /\ \A o \in Readings : ChainOK(Observes(s, o)) /\ Grows(s.belief, Observes(s, o).belief)
         /\ \A c \in {o.cell : o \in Readings} : ChainOK(Bumps(s, c)) /\ Grows(s.belief, Bumps(s, c).belief)
<1>1. \A o \in Readings : o.cell \in Cells
  BY ServiceAssumption
<1>2. BeliefOK(s.belief) /\ LogOK(s.belief)
  BY DEF ServiceOK, ChainOK
<1>3. ASSUME NEW o \in Readings
      PROVE  ChainOK(Observes(s, o)) /\ Grows(s.belief, Observes(s, o).belief)
  <2> DEFINE b == IF o.hit THEN ObserveHit(s.belief, o.cell) ELSE ObserveFree(s.belief, o.cell)
             t == Observes(s, o)
  <2>1. Grows(s.belief, b)
    BY <1>1, <1>2, ReadingsGrow
  <2>2. t = [s EXCEPT !.belief = b]
    BY DEF Observes
  <2> HIDE DEF b, t
  <2>3. ChainOK(t) /\ t.belief = b
    BY <2>1, <2>2, BelievesChain
  <2> QED BY <2>1, <2>3 DEF t
<1>4. ASSUME NEW o \in Readings
      PROVE  ChainOK(Bumps(s, o.cell)) /\ Grows(s.belief, Bumps(s, o.cell).belief)
  <2> DEFINE b == ObserveContact(s.belief, o.cell)
             t == Bumps(s, o.cell)
  <2>1. Grows(s.belief, b)
    BY <1>1, <1>2, ReadingsGrow
  <2>2. t = [s EXCEPT !.belief = b]
    BY DEF Bumps
  <2> HIDE DEF b, t
  <2>3. ChainOK(t) /\ t.belief = b
    BY <2>1, <2>2, BelievesChain
  <2> QED BY <2>1, <2>3 DEF t
<1> QED BY <1>3, <1>4

\* Groups that are filled in.
LEMMA GroupingCalm ==
  ASSUME NEW s, ServiceOK(s), ChainOK(s)
  PROVE  /\ Calm(s, Grouping(s)) /\ Grouping(s).had = s.had /\ Grouping(s).watched = s.watched
         /\ Grouping(s).witness = s.witness
<1> DEFINE l == Regrouped(s.layer, Regions)
           t == Grouping(s)
<1>1. /\ ServiceFields \subseteq DOMAIN s /\ LayerFields \subseteq DOMAIN s.layer
      /\ MemosOK(s.belief, s.view, s.layer) /\ WitnessOK(s)
  BY DEF ServiceOK, LayerOK, ChainOK
<1>2. /\ MemosOK(s.belief, s.view, l) /\ l.rev = s.layer.rev /\ l.frontierRev = s.layer.frontierRev
      /\ SameLayer(s.layer, l)
  BY <1>1, RegroupedOK, MemosKeep
<1>3. t = [s EXCEPT !.layer = l]
  BY DEF Grouping
<1> HIDE DEF l, t
<1>4. /\ ServiceFields \subseteq DOMAIN t /\ t.belief = s.belief /\ t.view = s.view /\ t.marks = s.marks
      /\ t.temporary = s.temporary /\ t.layer = l /\ t.had = s.had /\ t.witness = s.witness /\ t.watched = s.watched
  BY <1>1, <1>3 DEF ServiceFields
<1>5. WitnessOK(t)
  BY <1>1, <1>2, <1>4 DEF WitnessOK, SameLayer
<1>6. Calm(s, t)
  BY <1>2, <1>4, <1>5 DEF Calm
<1> QED BY <1>4, <1>6 DEF t

\* The cells of the groups that hold a cell, by the flags.
Held(flags, c) == UNION {g \in UNION {Grouped(flags, r) : r \in Regions} : c \in g}

\* The group found at a cell is what the flags give.
LEMMA GroupAtHeld ==
  ASSUME NEW s, ServiceOK(s), ChainOK(s), NEW c
  PROVE  GroupAt(s, c) = Held(s.layer.flags, c) /\ GroupAt(s, c) \in SUBSET Cells
<1>1. MemosOK(s.belief, s.view, s.layer) /\ s.layer.flags \in SUBSET Cells
  BY DEF ChainOK, ServiceOK, LayerOK
<1>2. AllGroups(s.layer) = UNION {Grouped(s.layer.flags, r) : r \in Regions}
  BY <1>1, GroupsAreRight
<1>3. \A r \in Regions : \A g \in Grouped(s.layer.flags, r) : g \in SUBSET Cells
  BY <1>1, GroupCells
<1> QED BY <1>2, <1>3 DEF GroupAt, Held

\* A service in which nothing but the marks has changed.
Marking(s, t) ==
  /\ ServiceFields \subseteq DOMAIN t
  /\ t.belief = s.belief /\ t.view = s.view /\ SameLayer(s.layer, t.layer) /\ t.had = s.had

\* A group that is marked: its cells are in the marks, and no longer in those of the iteration.
LEMMA MarksChain ==
  ASSUME NEW s, ServiceOK(s), ChainOK(s), NEW c, NEW t, t = Marks(s, c)
  PROVE  /\ ChainOK(t) /\ Marking(s, t)
         /\ t.marks.cells = s.marks.cells \cup Held(s.layer.flags, c)
         /\ t.temporary.cells = s.temporary.cells \ Held(s.layer.flags, c)
<1> DEFINE g == GroupAt(s, c)
           q == Grouping(s)
           m == Marked(s.marks, g, s.view)
           n == Dropped(s.temporary, g)
<1>1. g = Held(s.layer.flags, c) /\ g \in SUBSET Cells
  BY GroupAtHeld
<1>2. Calm(s, q) /\ q.had = s.had /\ q.watched = s.watched /\ q.witness = s.witness
  BY GroupingCalm
<1>3. ChainOK(q)
  BY <1>2, CalmChain
<1>4. t = IF g = {} THEN q ELSE [q EXCEPT !.marks = Marked(@, g, s.view), !.temporary = Dropped(@, g)]
  BY DEF Marks
<1>5. MarksOK(s.marks, s.view) /\ MarksOK(s.temporary, s.view) /\ s.view \in ViewState
  BY DEF ChainOK, ViewOK
<1> HIDE DEF g, q
<1>6. CASE g = {}
  BY <1>1, <1>2, <1>3, <1>4, <1>6 DEF Calm, Marking
<1>7. CASE g # {}
  <2>1. /\ MarksOK(m, s.view) /\ m.cells = s.marks.cells \cup g /\ m.rev = s.marks.rev + 1
        /\ MarksOK(n, s.view) /\ n.cells = s.temporary.cells \ g
    BY <1>1, <1>5, MarkedOK, DroppedOK
  <2>2. t = [q EXCEPT !.marks = m, !.temporary = n]
    BY <1>2, <1>4, <1>7 DEF Calm
  <2> HIDE DEF m, n
  <2>3. /\ ServiceFields \subseteq DOMAIN t /\ t.belief = q.belief /\ t.view = q.view /\ t.layer = q.layer
        /\ t.marks = m /\ t.temporary = n /\ t.had = q.had /\ t.witness = q.witness /\ t.watched = q.watched
    BY <1>2, <2>2 DEF Calm, ServiceFields
  <2>4. WatchedOK(t)
    <3>1. WatchedOK(q) /\ q.marks = s.marks /\ s.marks.rev \in Nat
      BY <1>2, <1>3, <1>5 DEF ChainOK, Calm, MarksOK
    <3>2. CASE q.watched = <<>>
      BY <2>3, <3>2 DEF WatchedOK
    <3>3. CASE q.watched # <<>>
      <4>1. q.watched \in Nat \X Nat /\ q.watched[1] <= q.layer.frontierRev /\ q.watched[2] <= s.marks.rev
        BY <3>1, <3>3 DEF WatchedOK
      <4>2. q.watched[2] # s.marks.rev + 1 /\ q.watched[2] <= s.marks.rev + 1
        BY <3>1, <4>1
      <4> QED BY <2>1, <2>3, <4>1, <4>2 DEF WatchedOK
    <3> QED BY <3>2, <3>3
  <2>5. WitnessOK(t)
    BY <1>3, <2>3 DEF ChainOK, WitnessOK
  <2>6. ChainOK(t)
    BY <1>2, <1>3, <2>1, <2>3, <2>4, <2>5 DEF ChainOK, Calm
  <2> QED BY <1>1, <1>2, <2>1, <2>3, <2>6 DEF Calm, Marking
<1> QED BY <1>6, <1>7

\* A service in which the marks of the iteration change only.
LEMMA TemporaryChain ==
  ASSUME NEW s, ChainOK(s), ServiceFields \subseteq DOMAIN s, NEW n, MarksOK(n, s.view),
         NEW t, t = [s EXCEPT !.temporary = n]
  PROVE  /\ ChainOK(t) /\ ServiceFields \subseteq DOMAIN t /\ t.belief = s.belief /\ t.view = s.view
         /\ t.layer = s.layer /\ t.had = s.had /\ t.marks = s.marks /\ t.temporary = n
<1>1. /\ ServiceFields \subseteq DOMAIN t /\ t.belief = s.belief /\ t.view = s.view /\ t.layer = s.layer
      /\ t.marks = s.marks /\ t.temporary = n /\ t.had = s.had /\ t.witness = s.witness /\ t.watched = s.watched
  BY DEF ServiceFields
<1>2. WitnessOK(t) /\ WatchedOK(t)
  BY <1>1 DEF ChainOK, WitnessOK, WatchedOK, Left
<1> QED BY <1>1, <1>2 DEF ChainOK

\* A group that is marked for the iteration.
LEMMA MarksForNowChain ==
  ASSUME NEW s, ServiceOK(s), ChainOK(s), NEW c, NEW t, t = MarksForNow(s, c)
  PROVE  /\ ChainOK(t) /\ Marking(s, t) /\ t.marks.cells = s.marks.cells
         /\ t.temporary.cells = s.temporary.cells \cup Held(s.layer.flags, c)
<1> DEFINE g == GroupAt(s, c)
           q == Grouping(s)
           n == Marked(s.temporary, g, s.view)
<1>1. g = Held(s.layer.flags, c) /\ g \in SUBSET Cells
  BY GroupAtHeld
<1>2. Calm(s, q) /\ q.had = s.had /\ q.watched = s.watched
  BY GroupingCalm
<1>3. ChainOK(q)
  BY <1>2, CalmChain
<1>4. t = IF g = {} THEN q ELSE [q EXCEPT !.temporary = Marked(@, g, s.view)]
  BY DEF MarksForNow
<1>5. MarksOK(s.temporary, s.view) /\ s.view \in ViewState
  BY DEF ChainOK, ViewOK
<1> HIDE DEF g, q
<1>6. CASE g = {}
  BY <1>1, <1>2, <1>3, <1>4, <1>6 DEF Calm, Marking
<1>7. CASE g # {}
  <2>1. MarksOK(n, s.view) /\ n.cells = s.temporary.cells \cup g
    BY <1>1, <1>5, MarkedOK
  <2>2. t = [q EXCEPT !.temporary = n] /\ q.view = s.view /\ ServiceFields \subseteq DOMAIN q
    BY <1>2, <1>4, <1>7 DEF Calm
  <2> HIDE DEF n
  <2>3. /\ ChainOK(t) /\ ServiceFields \subseteq DOMAIN t /\ t.belief = q.belief /\ t.view = q.view
        /\ t.layer = q.layer /\ t.had = q.had /\ t.marks = q.marks /\ t.temporary = n
    BY <1>3, <2>1, <2>2, TemporaryChain
  <2> QED BY <1>1, <1>2, <2>1, <2>3 DEF Calm, Marking
<1> QED BY <1>6, <1>7

\* The end of an iteration empties its marks.
LEMMA EndsIterationChain ==
  ASSUME NEW s, ServiceOK(s), ChainOK(s), NEW t, t = EndsIteration(s)
  PROVE  /\ ChainOK(t) /\ Marking(s, t) /\ t.marks.cells = s.marks.cells /\ t.temporary.cells = {}
<1> DEFINE n == Emptied(s.temporary)
<1>1. MarksOK(s.temporary, s.view) /\ ServiceFields \subseteq DOMAIN s /\ LayerFields \subseteq DOMAIN s.layer
  BY DEF ChainOK, ServiceOK, LayerOK
<1>2. MarksOK(n, s.view) /\ n.cells = {}
  BY <1>1, EmptiedOK
<1>3. t = [s EXCEPT !.temporary = n]
  BY DEF EndsIteration
<1> HIDE DEF n
<1>4. /\ ChainOK(t) /\ ServiceFields \subseteq DOMAIN t /\ t.belief = s.belief /\ t.view = s.view
      /\ t.layer = s.layer /\ t.had = s.had /\ t.marks = s.marks /\ t.temporary = n
  BY <1>1, <1>2, <1>3, TemporaryChain
<1> QED BY <1>1, <1>2, <1>4 DEF Marking, SameLayer

\* Reads fill memos and change nothing else.
LEMMA ReadsChain ==
  ASSUME NEW s, ServiceOK(s), ChainOK(s), NEW t, t = Reads(s)
  PROVE  ChainOK(t) /\ Marking(s, t) /\ t.marks = s.marks /\ t.temporary = s.temporary
<1> DEFINE q == Grouping(s)
           w == WaypointsRead(q.layer, s.belief)
           e == EdgesRead(w, s.belief, s.view)
<1>1. Calm(s, q) /\ q.had = s.had /\ q.watched = s.watched /\ q.witness = s.witness
  BY GroupingCalm
<1>2. ChainOK(q) /\ SameLayer(s.layer, q.layer) /\ q.belief = s.belief /\ q.view = s.view
  BY <1>1, CalmChain DEF Calm
<1>3. /\ MemosOK(s.belief, s.view, q.layer) /\ LayerFields \subseteq DOMAIN q.layer
      /\ q.layer.rev = s.layer.rev /\ q.layer.frontierRev = s.layer.frontierRev
  BY <1>1, <1>2 DEF Calm, SameLayer
<1> HIDE DEF q
<1>4. MemosOK(s.belief, s.view, w) /\ SameLayer(q.layer, w) /\ w.rev = s.layer.rev /\ w.frontierRev = s.layer.frontierRev
  BY <1>3, WaypointsReadOK, MemosKeep
<1>5. LayerFields \subseteq DOMAIN w
  BY <1>4 DEF SameLayer
<1> HIDE DEF w
<1>6. MemosOK(s.belief, s.view, e) /\ SameLayer(w, e) /\ e.rev = s.layer.rev /\ e.frontierRev = s.layer.frontierRev
  BY <1>4, <1>5, EdgesReadOK, MemosKeep
<1>7. t = [q EXCEPT !.layer = e]
  BY DEF Reads, q, w
<1> HIDE DEF e
<1>8. SameLayer(s.layer, e)
  BY <1>2, <1>4, <1>6 DEF SameLayer
<1>9. /\ ServiceFields \subseteq DOMAIN t /\ t.belief = s.belief /\ t.view = s.view /\ t.marks = s.marks
      /\ t.temporary = s.temporary /\ t.layer = e /\ t.had = s.had /\ t.witness = s.witness /\ t.watched = s.watched
  BY <1>1, <1>7 DEF ServiceFields, Calm
<1>10. WitnessOK(t)
  BY <1>6, <1>8, <1>9 DEF ChainOK, WitnessOK, SameLayer
<1>11. Calm(s, t)
  BY <1>6, <1>8, <1>9, <1>10 DEF Calm
<1>12. ChainOK(t)
  BY <1>9, <1>11, CalmChain
<1> QED BY <1>8, <1>9, <1>12 DEF Marking

\* The cells of marks an update leaves.
Spared(cells, touched) == {c \in cells : Around[ChunkOf[c]] \cap touched = {}}

\* The end of a tick.
LEMMA UpdatesChain ==
  ASSUME NEW s, ServiceOK(s), ChainOK(s), NEW c, NEW b, b = Taken(s.belief),
         NEW t, t = Updates([s EXCEPT !.belief = Taken(@)], c)
  PROVE  /\ ChainOK(t) /\ t.belief = b /\ t.view = Sync(s.view, b)
         /\ t.layer.version = b.plan /\ t.layer.flags = Update(s.layer, b).flags
         /\ t.marks.cells = Spared(s.marks.cells, TouchedBy(s.view, b))
         /\ t.temporary.cells = Spared(s.temporary.cells, TouchedBy(s.view, b))
         /\ t.had = IF Left(t) THEN "yes" ELSE IF s.had # "yes" THEN s.had
                    ELSE IF Class(b, c) = "unknown" THEN "yes" ELSE "no"
<1> DEFINE s0 == [s EXCEPT !.belief = b]
           view == Sync(s.view, b)
           l == Update(s.layer, b)
           touched == TouchedBy(s.view, b)
           m == Cleared(s.marks, view)
           n == Cleared(s.temporary, view)
           u == [s0 EXCEPT !.view = view, !.layer = l, !.marks = m, !.temporary = n]
<1>1. /\ ServiceFields \subseteq DOMAIN s /\ BeliefOK(s.belief) /\ LayerOK(s.belief, s.layer)
      /\ LogOK(s.belief) /\ ViewOK(s.belief, s.view) /\ MemosOK(s.belief, s.view, s.layer)
      /\ MarksOK(s.marks, s.view) /\ MarksOK(s.temporary, s.view) /\ WitnessOK(s) /\ WatchedOK(s)
  BY DEF ServiceOK, ChainOK
<1>2. /\ ServiceFields \subseteq DOMAIN s0 /\ s0.belief = b
      /\ s0.view = s.view /\ s0.layer = s.layer /\ s0.marks = s.marks /\ s0.temporary = s.temporary
      /\ s0.had = s.had /\ s0.witness = s.witness /\ s0.watched = s.watched
  BY <1>1 DEF ServiceFields
<1>3. t = Watched(u, c)
  BY <1>1, <1>2 DEF Updates, ServiceFields
<1>4. Grows(s.belief, b) /\ BeliefOK(b) /\ LogOK(b)
  BY <1>1, TakenGrows DEF Grows
<1>5. ViewOK(b, s.view) /\ MemosOK(b, s.view, s.layer) /\ LayerOK(b, s.layer)
  BY <1>1, <1>4, ViewGrows, MemosGrow, TakenLayer
<1> HIDE DEF s0
<1>6. ViewOK(b, view) /\ Counts(s.view, view, touched)
  <2> DEFINE v == s.view
  <2>1. BeliefOK(b) /\ LogOK(b) /\ ViewOK(b, v)
    BY <1>4, <1>5
  <2> HIDE DEF v
  <2>2. ViewOK(b, Sync(v, b)) /\ Counts(v, Sync(v, b), TouchedBy(v, b))
    BY <2>1, SyncOK
  <2> QED BY <2>2 DEF v
<1>7. MemosOK(b, view, l) /\ Advances(s.layer, l)
  BY <1>4, <1>5, UpdateMemos
<1>8. LayerOK(b, l) /\ l.version = b.plan
  BY <1>4, <1>5, UpdateIsRight
<1> HIDE DEF view, l, touched
<1>9. /\ s.view \in ViewState /\ view \in ViewState /\ \A k \in Chunks : s.view.stamp[k] <= s.view.content
  BY <1>5, <1>6 DEF ViewOK
<1>10. /\ MarksOK(m, view) /\ m.cells = Spared(s.marks.cells, touched)
       /\ s.marks.rev <= m.rev /\ (m.rev = s.marks.rev => m.cells = s.marks.cells)
  BY <1>1, <1>6, <1>9, ClearedOK DEF Spared
<1>11. MarksOK(n, view) /\ n.cells = Spared(s.temporary.cells, touched)
  BY <1>1, <1>6, <1>9, ClearedOK DEF Spared
<1> HIDE DEF m, n
<1>12. /\ ServiceFields \subseteq DOMAIN u /\ u.belief = b /\ u.view = view /\ u.layer = l /\ u.marks = m
       /\ u.temporary = n /\ u.had = s.had /\ u.witness = s.witness /\ u.watched = s.watched
  BY <1>2 DEF ServiceFields
<1> HIDE DEF u
<1>13. WitnessOK(u)
  <2> SUFFICES ASSUME NEW w \in s.witness
               PROVE  /\ w.region \in Regions /\ w.rev \in Nat /\ w.rev <= l.rev[w.region]
                      /\ w.rev = l.rev[w.region] => w.group \in Grouped(l.flags, w.region)
    BY <1>12 DEF WitnessOK
  <2>1. /\ w.region \in Regions /\ w.rev \in Nat /\ w.rev <= s.layer.rev[w.region]
        /\ w.rev = s.layer.rev[w.region] => w.group \in Grouped(s.layer.flags, w.region)
    BY <1>1 DEF WitnessOK
  <2>2. s.layer.rev[w.region] \in Nat /\ l.rev[w.region] \in Nat
    BY <1>5, <1>7, <2>1 DEF MemosOK, Advances
  <2>3. /\ s.layer.rev[w.region] <= l.rev[w.region]
        /\ l.rev[w.region] = s.layer.rev[w.region] => Grouped(l.flags, w.region) = Grouped(s.layer.flags, w.region)
    BY <1>7, <2>1 DEF Advances
  <2>4. w.rev <= l.rev[w.region] /\ (w.rev = l.rev[w.region] => w.rev = s.layer.rev[w.region])
    BY <2>1, <2>2, <2>3
  <2> QED BY <2>1, <2>3, <2>4
<1>14. WatchedOK(u)
  <2>1. CASE s.watched = <<>>
    BY <1>12, <2>1 DEF WatchedOK
  <2>2. CASE s.watched # <<>>
    <3>1. /\ s.watched \in Nat \X Nat
          /\ s.watched[1] <= s.layer.frontierRev /\ s.watched[2] <= s.marks.rev
          /\ s.watched = <<s.layer.frontierRev, s.marks.rev>> => (Left(s) <=> s.had = "yes")
      BY <1>1, <2>2 DEF WatchedOK
    <3>2. /\ s.layer.frontierRev \in Nat /\ l.frontierRev \in Nat /\ s.layer.frontierRev <= l.frontierRev
          /\ s.marks.rev \in Nat /\ m.rev \in Nat /\ s.marks.rev <= m.rev
      BY <1>1, <1>5, <1>7, <1>10 DEF MemosOK, Advances, MarksOK
    <3>3. s.watched[1] <= l.frontierRev /\ s.watched[2] <= m.rev
      BY <3>1, <3>2
    <3>4. ASSUME s.watched = <<l.frontierRev, m.rev>> PROVE Left(u) <=> u.had = "yes"
      <4>1. s.watched[1] = l.frontierRev /\ s.watched[2] = m.rev
        BY <3>4
      <4>2. l.frontierRev = s.layer.frontierRev /\ m.rev = s.marks.rev
        BY <3>1, <3>2, <4>1
      <4>3. l.flags = s.layer.flags /\ m.cells = s.marks.cells
        BY <1>7, <1>10, <4>2 DEF Advances
      <4>4. Left(u) <=> Left(s)
        BY <1>12, <4>3 DEF Left, IsMarked
      <4> QED BY <1>12, <3>1, <3>4, <4>2, <4>4
    <3> QED BY <1>12, <3>1, <3>3, <3>4 DEF WatchedOK
  <2> QED BY <2>1, <2>2
<1>15. ServiceOK(u) /\ ChainOK(u)
  BY <1>4, <1>6, <1>7, <1>8, <1>10, <1>11, <1>12, <1>13, <1>14 DEF ServiceOK, ChainOK
<1>16. Calm(u, t) /\ ChainOK(t) /\ t.had = HadAfter(u, c)
  BY <1>3, <1>15, WatchedRight
<1>17. Left(t) <=> Left(u)
  BY <1>15, <1>16, CalmChain
<1>18. t.had = IF Left(t) THEN "yes" ELSE IF s.had # "yes" THEN s.had
               ELSE IF Class(b, c) = "unknown" THEN "yes" ELSE "no"
  BY <1>12, <1>16, <1>17 DEF HadAfter
<1>19. /\ t.belief = b /\ t.view = view /\ t.marks = m /\ t.temporary = n
       /\ t.layer.version = l.version /\ t.layer.flags = l.flags
  BY <1>12, <1>16 DEF Calm, SameLayer
<1> QED BY <1>8, <1>10, <1>11, <1>16, <1>18, <1>19 DEF view, l, touched

\* A service starts without marks.
LEMMA NoMarksOK ==
  ASSUME NEW view PROVE MarksOK(NoMarks, view) /\ NoMarks.cells = {}
BY DEF NoMarks, MarksOK

\* A service that is assembled.
LEMMA AssembledChain ==
  ASSUME NEW b, BeliefOK(b), LogOK(b), NEW p \in Profiles, NEW c, NEW t, t = Assembled(b, p, c)
  PROVE  /\ ChainOK(t) /\ t.belief = b /\ t.view.profile = p /\ t.layer.version = b.plan
         /\ Left(t) => t.had = "yes"
         /\ ~Left(t) => t.had # "yes"
<1> DEFINE s == [belief |-> b, view |-> Built(b, p), layer |-> NewLayer(b), marks |-> NoMarks,
                 temporary |-> NoMarks, had |-> "never", witness |-> {}, watched |-> <<>>]
<1>1. /\ ServiceFields \subseteq DOMAIN s /\ s.belief = b /\ s.view = Built(b, p) /\ s.layer = NewLayer(b)
      /\ s.marks = NoMarks /\ s.temporary = NoMarks /\ s.had = "never" /\ s.witness = {} /\ s.watched = <<>>
  BY DEF ServiceFields
<1>2. t = Watched(s, c)
  BY DEF Assembled
<1> HIDE DEF s
<1>3. ServiceOK(s)
  BY <1>1, NewLayerIsRight DEF ServiceOK
<1>4. ViewOK(b, s.view) /\ s.view.synced = b.plan /\ s.view.profile = p
  BY <1>1, BuiltOK
<1>5. MemosOK(b, s.view, s.layer)
  BY <1>1, <1>4, NewLayerMemos
<1>6. s.layer.version = b.plan
  BY <1>4, <1>5 DEF MemosOK
<1>7. ChainOK(s)
  BY <1>1, <1>4, <1>5, NoMarksOK DEF ChainOK, WitnessOK, WatchedOK
<1>8. Calm(s, t) /\ ChainOK(t) /\ t.had = HadAfter(s, c)
  BY <1>2, <1>3, <1>7, WatchedRight
<1>9. Left(t) <=> Left(s)
  BY <1>7, <1>8, CalmChain
<1> QED BY <1>1, <1>4, <1>6, <1>8, <1>9 DEF Calm, SameLayer, HadAfter

\* A service that is restored.
LEMMA RestoredChain ==
  ASSUME NEW s, ServiceOK(s), ChainOK(s), NEW b, BeliefOK(b), LogOK(b), Grows(b, s.belief), NEW t, t = Restored(s, b)
  PROVE  /\ ChainOK(t) /\ t.belief = s.belief /\ t.view.profile = s.view.profile /\ t.view.synced = s.belief.plan
         /\ t.layer.version = s.belief.plan /\ t.layer.flags = Frontier(s.belief)
         /\ t.marks.cells = s.marks.cells /\ t.temporary.cells = s.temporary.cells /\ t.had = s.had
<1> DEFINE built == Built(b, s.view.profile)
           view == Sync(built, s.belief)
           l == NewLayer(s.belief)
           m == [s.marks EXCEPT !.at = view.content]
           n == [s.temporary EXCEPT !.at = view.content]
<1>1. /\ ServiceFields \subseteq DOMAIN s /\ BeliefOK(s.belief) /\ LogOK(s.belief)
      /\ MarksOK(s.marks, s.view) /\ MarksOK(s.temporary, s.view) /\ s.view.profile \in Profiles
  BY DEF ServiceOK, ChainOK, ViewOK, ViewState
<1>2. t = [s EXCEPT !.view = view, !.layer = l, !.marks = m, !.temporary = n, !.witness = {}, !.watched = <<>>]
  BY <1>1 DEF Restored, ServiceFields
<1>3. ViewOK(b, built) /\ built.profile = s.view.profile
  BY <1>1, BuiltOK
<1> HIDE DEF built
<1>4. ViewOK(s.belief, built)
  BY <1>1, <1>3, ViewGrows
<1>5. ViewOK(s.belief, view) /\ view.synced = s.belief.plan /\ view.profile = s.view.profile
  <2> DEFINE d == s.belief
  <2>1. BeliefOK(d) /\ LogOK(d) /\ ViewOK(d, built)
    BY <1>1, <1>4
  <2> HIDE DEF d
  <2>2. ViewOK(d, Sync(built, d)) /\ Sync(built, d).synced = d.plan /\ Sync(built, d).profile = built.profile
    BY <2>1, SyncOK
  <2> QED BY <1>3, <2>2 DEF d
<1> HIDE DEF view
<1>6. MemosOK(s.belief, view, l)
  BY <1>1, <1>5, NewLayerMemos
<1>7. l.version = s.belief.plan
  BY <1>5, <1>6 DEF MemosOK
<1>8. l.flags = Frontier(s.belief)
  <2>1. LayerOK(s.belief, l)
    BY <1>1, NewLayerIsRight
  <2> HIDE DEF l
  <2>2. \A k \in Chunks : Unstamped(s.belief, l.version, k)
    BY <1>1, <1>7 DEF BeliefOK, Unstamped
  <2>3. ASSUME NEW c \in Cells PROVE c \in l.flags <=> IsFrontier(s.belief, c)
    BY <2>1, <2>2, NearCells DEF LayerOK
  <2> QED BY <2>1, <2>3 DEF LayerOK, Frontier
<1> HIDE DEF l
<1>9. view.content \in Nat
  BY <1>5 DEF ViewOK, ViewState
<1>10. MarksOK(m, view) /\ MarksOK(n, view) /\ m.cells = s.marks.cells /\ n.cells = s.temporary.cells
  BY <1>1, <1>9 DEF MarksOK
<1> HIDE DEF m, n
<1>11. /\ t.belief = s.belief /\ t.view = view /\ t.layer = l /\ t.marks = m /\ t.temporary = n
       /\ t.had = s.had /\ t.witness = {} /\ t.watched = <<>>
  BY <1>1, <1>2 DEF ServiceFields
<1>12. ChainOK(t)
  BY <1>1, <1>5, <1>6, <1>10, <1>11 DEF ChainOK, WitnessOK, WatchedOK
<1> QED BY <1>5, <1>7, <1>8, <1>10, <1>11, <1>12

(***************************************************************************)
(* Run and twin                                                            *)
(***************************************************************************)
\* A layer that is up to date has the flags of the map.
LEMMA CurrentFlags ==
  ASSUME NEW b, BeliefOK(b), NEW l, LayerOK(b, l), l.version = b.plan
  PROVE  l.flags = Frontier(b)
<1>1. \A k \in Chunks : Unstamped(b, l.version, k)
  BY DEF BeliefOK, Unstamped
<1>2. ASSUME NEW c \in Cells PROVE c \in l.flags <=> IsFrontier(b, c)
  BY <1>1, NearCells DEF LayerOK
<1> QED BY <1>2 DEF LayerOK, Frontier

\* Views that are up to date with the same map for the same profile.
LEMMA CurrentAlike ==
  ASSUME NEW b, BeliefOK(b), NEW v, ViewOK(b, v), v.synced = b.plan, NEW w, ViewOK(b, w), w.synced = b.plan,
         w.profile = v.profile
  PROVE  SameView(v, w)
<1>1. v.open = {c \in Cells : Open(b, c)} /\ v.pass = Passable(b) /\ v.unknown = Unknown(b)
  BY CurrentView
<1>2. w.open = {c \in Cells : Open(b, c)} /\ w.pass = Passable(b) /\ w.unknown = Unknown(b)
  BY CurrentView
<1> QED BY <1>1, <1>2 DEF SameView

\* A chunk rebuilt in both.
LEMMA ChunkAlike ==
  ASSUME NEW b, NEW v \in ViewState, NEW w \in ViewState, SameView(v, w), NEW k
  PROVE  SameView(SyncChunk(v, b, k), SyncChunk(w, b, k))
<1> DEFINE ring == ChunkCells[k] \cup UNION {Corners[c] : c \in ChunkCells[k]}
           near == UNION {Reach[c] : c \in ring}
           o == Updated(v.open, ring, LAMBDA c : Open(b, c))
           u == Updated(v.unknown, ring, LAMBDA c : Class(b, c) = "unknown")
           p == Updated(v.pass, near, LAMBDA c : Inflated(o, c))
           v1 == [v EXCEPT !.open = o, !.unknown = u]
           w1 == [w EXCEPT !.open = o, !.unknown = u]
<1>1. w.profile = v.profile /\ w.open = v.open /\ w.pass = v.pass /\ w.unknown = v.unknown /\ w.synced = v.synced
  BY DEF SameView
<1>2. Rebased(v, b, ring) = v1 /\ Rebased(w, b, ring) = w1
  BY <1>1 DEF Rebased
<1> HIDE DEF o, u
<1>3. /\ v1.open = o /\ v1.unknown = u /\ v1.pass = v.pass /\ v1.profile = v.profile /\ v1.synced = v.synced
      /\ w1.open = o /\ w1.unknown = u /\ w1.pass = w.pass /\ w1.profile = w.profile /\ w1.synced = w.synced
      /\ "pass" \in DOMAIN v1 /\ "pass" \in DOMAIN w1
  BY DEF ViewState
<1>4. SyncChunk(v, b, k) = [v1 EXCEPT !.pass = p] /\ SyncChunk(w, b, k) = [w1 EXCEPT !.pass = p]
  <2> HIDE DEF ring
  <2>1. SyncChunk(v, b, k) = [Rebased(v, b, ring) EXCEPT
          !.pass = Updated(@, near, LAMBDA c : Inflated(Rebased(v, b, ring).open, c))]
    BY DEF SyncChunk, ring
  <2>2. SyncChunk(w, b, k) = [Rebased(w, b, ring) EXCEPT
          !.pass = Updated(@, near, LAMBDA c : Inflated(Rebased(w, b, ring).open, c))]
    BY DEF SyncChunk, ring
  <2> HIDE DEF near, v1, w1
  <2>3. SyncChunk(v, b, k) = [v1 EXCEPT !.pass = Updated(v1.pass, near, LAMBDA c : Inflated(v1.open, c))]
    BY <1>2, <2>1
  <2>4. SyncChunk(w, b, k) = [w1 EXCEPT !.pass = Updated(w1.pass, near, LAMBDA c : Inflated(w1.open, c))]
    BY <1>2, <2>2
  <2>5. v1.pass = v.pass /\ w1.pass = v.pass
    BY <1>1, <1>3
  <2> QED BY <1>3, <2>3, <2>4, <2>5
<1> HIDE DEF p, v1, w1
<1> QED BY <1>1, <1>3, <1>4 DEF SameView

\* Views that are alike differ alike from views that are.
LEMMA DifferingAlike ==
  ASSUME NEW v, NEW w, SameView(v, w), NEW x, NEW y, SameView(x, y)
  PROVE  Differing(v, x) = Differing(w, y)
BY DEF SameView, Differing

\* Both are brought up to date, and the same chunks are touched.
LEMMA SyncAlike ==
  ASSUME NEW b, BeliefOK(b), LogOK(b), NEW v, ViewOK(b, v), NEW w, ViewOK(b, w), SameView(v, w)
  PROVE  SameView(Sync(v, b), Sync(w, b)) /\ TouchedBy(w, b) = TouchedBy(v, b)
<1>1. v \in ViewState /\ w \in ViewState /\ Fits(v) /\ Fits(w)
  BY DEF ViewOK
<1>2. w.profile = v.profile /\ w.open = v.open /\ w.pass = v.pass /\ w.unknown = v.unknown /\ w.synced = v.synced
  BY DEF SameView
<1>3. SameView(Sync(v, b), Sync(w, b))
  <2> DEFINE x == Sync(v, b)
             y == Sync(w, b)
  <2>1. ViewOK(b, x) /\ x.synced = b.plan /\ x.profile = v.profile
    BY SyncOK
  <2>2. ViewOK(b, y) /\ y.synced = b.plan /\ y.profile = w.profile
    BY SyncOK
  <2> HIDE DEF x, y
  <2>3. SameView(x, y)
    BY <1>2, <2>1, <2>2, CurrentAlike
  <2> QED BY <2>3 DEF x, y
<1>4. CASE v.synced = b.plan
  BY <1>2, <1>3, <1>4 DEF TouchedBy
<1>5. CASE v.synced # b.plan /\ ByCells(v, b)
  <2> DEFINE x == Sync(v, b)
             y == Sync(w, b)
  <2>1. ByCells(w, b) <=> ByCells(v, b)
    BY <1>2 DEF ByCells
  <2>2. TouchedBy(v, b) = Differing(v, x)
    BY <1>5, SyncOK
  <2>3. TouchedBy(w, b) = Differing(w, y)
    BY <1>5, <2>1, SyncOK
  <2> HIDE DEF x, y
  <2>4. Differing(v, x) = Differing(w, y)
    BY <1>3, DifferingAlike DEF x, y
  <2> QED BY <1>3, <2>2, <2>3, <2>4
<1>6. CASE v.synced # b.plan /\ ~ByCells(v, b)
  <2> DEFINE S == ChunksChangedSince(b, v.synced)
  <2>0. S \subseteq Nat /\ S \subseteq Chunks /\ IsFiniteSet(S)
    <3>1. S \subseteq Chunks /\ Chunks \subseteq Nat /\ IsFiniteSet(Chunks)
      BY GridAssumption, ShapeAssumption DEF ChunksChangedSince
    <3> QED BY <3>1, FS_Subset
  <2>1. S = ChunksChangedSince(b, v.synced) /\ S = ChunksChangedSince(b, w.synced)
    BY <1>2
  <2> HIDE DEF S
  <2>2. PICK p : Chunkwise(p, b, v, S) /\ SyncChunks(v, b) = p[S]
    BY <1>1, <2>1, SyncChunksFolds
  <2>3. PICK q : Chunkwise(q, b, w, S) /\ SyncChunks(w, b) = q[S]
    BY <1>1, <2>1, SyncChunksFolds
  <2> DEFINE U == {t \in SUBSET S : SameView(p[t].view, q[t].view) /\ q[t].touched = p[t].touched}
  <2>4. {} \in U
    <3>1. p[{}].view = v /\ p[{}].touched = {} /\ q[{}].view = w /\ q[{}].touched = {}
      BY <2>2, <2>3 DEF Chunkwise
    <3> QED BY <3>1
  <2>5. ASSUME NEW t \in SUBSET S, t # {}, Topmost(t) \in t, t \ {Topmost(t)} \in U PROVE t \in U
    <3> DEFINE k == Topmost(t)
               x == p[t \ {k}]
               y == q[t \ {k}]
               x1 == SyncChunk(x.view, b, k)
               y1 == SyncChunk(y.view, b, k)
    <3>1. p[t] = OneChunk(b, k, x) /\ q[t] = OneChunk(b, k, y) /\ x \in Accumulated /\ y \in Accumulated
      BY <2>2, <2>3, <2>5 DEF Chunkwise
    <3>2. SameView(x.view, y.view) /\ y.touched = x.touched
      BY <2>5
    <3> HIDE DEF k, x, y
    <3>3. x.view \in ViewState /\ y.view \in ViewState
      BY <3>1 DEF Accumulated
    <3>4. SameView(x1, y1)
      BY <3>2, <3>3, ChunkAlike
    <3>5. p[t] = [view |-> x1, touched |-> x.touched \cup Differing(x.view, x1) \cup (IF x1.profile.edges THEN Around[k] ELSE {})]
      BY <3>1 DEF OneChunk
    <3>6. q[t] = [view |-> y1, touched |-> y.touched \cup Differing(y.view, y1) \cup (IF y1.profile.edges THEN Around[k] ELSE {})]
      BY <3>1 DEF OneChunk
    <3> HIDE DEF x1, y1
    <3>7. Differing(x.view, x1) = Differing(y.view, y1) /\ x1.profile = y1.profile
      BY <3>2, <3>4, DifferingAlike DEF SameView
    <3>8. SameView(p[t].view, q[t].view) /\ q[t].touched = p[t].touched
      BY <3>2, <3>4, <3>5, <3>6, <3>7
    <3> QED BY <3>8
  <2> HIDE DEF U
  <2>6. SUBSET S \subseteq U
    BY <2>0, <2>4, <2>5, SetInduction
  <2>7. q[S].touched = p[S].touched
    BY <2>6 DEF U
  <2>8. ~ByCells(w, b)
    BY <1>2, <1>6 DEF ByCells
  <2> QED BY <1>2, <1>3, <1>6, <2>2, <2>3, <2>7, <2>8 DEF TouchedBy
<1> QED BY <1>4, <1>5, <1>6

\* Services that are alike do alike.
LEMMA BelievesAlike ==
  ASSUME NEW s, ServiceOK(s), NEW t, ServiceOK(t), Alike(s, t), NEW b
  PROVE  Alike([s EXCEPT !.belief = b], [t EXCEPT !.belief = b])
<1> DEFINE x == [s EXCEPT !.belief = b]
           y == [t EXCEPT !.belief = b]
<1>1. /\ x.belief = b /\ x.view = s.view /\ x.layer = s.layer /\ x.marks = s.marks
      /\ x.temporary = s.temporary /\ x.had = s.had
      /\ y.belief = b /\ y.view = t.view /\ y.layer = t.layer /\ y.marks = t.marks
      /\ y.temporary = t.temporary /\ y.had = t.had
  BY DEF ServiceOK, ServiceFields
<1> HIDE DEF x, y
<1>2. Alike(x, y)
  BY <1>1 DEF Alike
<1> QED BY <1>2 DEF x, y

\* Services that are alike and marked alike stay so.
LEMMA MarkingAlike ==
  ASSUME NEW s, NEW t, Alike(s, t), NEW x, Marking(s, x), NEW y, Marking(t, y),
         y.marks.cells = x.marks.cells, y.temporary.cells = x.temporary.cells
  PROVE  Alike(x, y)
BY DEF Alike, Marking, SameLayer

\* The actions of a tick leave two services alike.
LEMMA ActionsAlike ==
  ASSUME NEW s, ServiceOK(s), ChainOK(s), NEW t, ServiceOK(t), ChainOK(t), Alike(s, t)
  PROVE  /\ \A o : Alike(Observes(s, o), Observes(t, o))
         /\ \A c : /\ Alike(Bumps(s, c), Bumps(t, c)) /\ Alike(Marks(s, c), Marks(t, c))
                   /\ Alike(MarksForNow(s, c), MarksForNow(t, c))
         /\ Alike(EndsIteration(s), EndsIteration(t)) /\ Alike(Reads(s), Reads(t))
<1>0. /\ t.belief = s.belief /\ t.layer.flags = s.layer.flags
      /\ t.marks.cells = s.marks.cells /\ t.temporary.cells = s.temporary.cells
  BY DEF Alike
<1>1. ASSUME NEW o PROVE Alike(Observes(s, o), Observes(t, o))
  BY <1>0, BelievesAlike DEF Observes
<1>2. ASSUME NEW c PROVE Alike(Bumps(s, c), Bumps(t, c))
  BY <1>0, BelievesAlike DEF Bumps
<1>3. ASSUME NEW c PROVE Alike(Marks(s, c), Marks(t, c))
  <2> DEFINE x == Marks(s, c)
             y == Marks(t, c)
  <2>1. /\ Marking(s, x) /\ x.marks.cells = s.marks.cells \cup Held(s.layer.flags, c)
        /\ x.temporary.cells = s.temporary.cells \ Held(s.layer.flags, c)
    BY MarksChain
  <2>2. /\ Marking(t, y) /\ y.marks.cells = t.marks.cells \cup Held(t.layer.flags, c)
        /\ y.temporary.cells = t.temporary.cells \ Held(t.layer.flags, c)
    BY MarksChain
  <2> HIDE DEF x, y
  <2>3. Alike(x, y)
    BY <1>0, <2>1, <2>2, MarkingAlike
  <2> QED BY <2>3 DEF x, y
<1>4. ASSUME NEW c PROVE Alike(MarksForNow(s, c), MarksForNow(t, c))
  <2> DEFINE x == MarksForNow(s, c)
             y == MarksForNow(t, c)
  <2>1. /\ Marking(s, x) /\ x.marks.cells = s.marks.cells
        /\ x.temporary.cells = s.temporary.cells \cup Held(s.layer.flags, c)
    BY MarksForNowChain
  <2>2. /\ Marking(t, y) /\ y.marks.cells = t.marks.cells
        /\ y.temporary.cells = t.temporary.cells \cup Held(t.layer.flags, c)
    BY MarksForNowChain
  <2> HIDE DEF x, y
  <2>3. Alike(x, y)
    BY <1>0, <2>1, <2>2, MarkingAlike
  <2> QED BY <2>3 DEF x, y
<1>5. Alike(EndsIteration(s), EndsIteration(t))
  <2> DEFINE x == EndsIteration(s)
             y == EndsIteration(t)
  <2>1. Marking(s, x) /\ x.marks.cells = s.marks.cells /\ x.temporary.cells = {}
    BY EndsIterationChain
  <2>2. Marking(t, y) /\ y.marks.cells = t.marks.cells /\ y.temporary.cells = {}
    BY EndsIterationChain
  <2> HIDE DEF x, y
  <2>3. Alike(x, y)
    BY <1>0, <2>1, <2>2, MarkingAlike
  <2> QED BY <2>3 DEF x, y
<1>6. Alike(Reads(s), Reads(t))
  <2> DEFINE x == Reads(s)
             y == Reads(t)
  <2>1. Marking(s, x) /\ x.marks = s.marks /\ x.temporary = s.temporary
    BY ReadsChain
  <2>2. Marking(t, y) /\ y.marks = t.marks /\ y.temporary = t.temporary
    BY ReadsChain
  <2> HIDE DEF x, y
  <2>3. Alike(x, y)
    BY <1>0, <2>1, <2>2, MarkingAlike
  <2> QED BY <2>3 DEF x, y
<1> QED BY <1>1, <1>2, <1>3, <1>4, <1>5, <1>6

\* So does the update that ends it.
LEMMA UpdatesAlike ==
  ASSUME NEW s, ServiceOK(s), ChainOK(s), NEW t, ServiceOK(t), ChainOK(t), Alike(s, t), NEW c,
         NEW x, x = Updates([s EXCEPT !.belief = Taken(@)], c), NEW y, y = Updates([t EXCEPT !.belief = Taken(@)], c)
  PROVE  Alike(x, y)
<1> DEFINE b == Taken(s.belief)
<1>1. /\ t.belief = s.belief /\ b = Taken(t.belief) /\ SameView(s.view, t.view)
      /\ t.marks.cells = s.marks.cells /\ t.temporary.cells = s.temporary.cells /\ t.had = s.had
  BY DEF Alike
<1>2. b = Taken(s.belief)
  OBVIOUS
<1>3. BeliefOK(b) /\ LogOK(b) /\ Grows(s.belief, b)
  BY TakenGrows DEF ServiceOK, ChainOK, Grows
<1> HIDE DEF b
<1>4. /\ x.belief = b /\ x.view = Sync(s.view, b)
      /\ x.layer.version = b.plan /\ x.layer.flags = Update(s.layer, b).flags
      /\ x.marks.cells = Spared(s.marks.cells, TouchedBy(s.view, b))
      /\ x.temporary.cells = Spared(s.temporary.cells, TouchedBy(s.view, b))
      /\ x.had = IF Left(x) THEN "yes" ELSE IF s.had # "yes" THEN s.had
                 ELSE IF Class(b, c) = "unknown" THEN "yes" ELSE "no"
  BY <1>2, UpdatesChain
<1>5. /\ y.belief = b /\ y.view = Sync(t.view, b)
      /\ y.layer.version = b.plan /\ y.layer.flags = Update(t.layer, b).flags
      /\ y.marks.cells = Spared(t.marks.cells, TouchedBy(t.view, b))
      /\ y.temporary.cells = Spared(t.temporary.cells, TouchedBy(t.view, b))
      /\ y.had = IF Left(y) THEN "yes" ELSE IF t.had # "yes" THEN t.had
                 ELSE IF Class(b, c) = "unknown" THEN "yes" ELSE "no"
  BY <1>1, UpdatesChain
<1>6. ViewOK(b, s.view) /\ ViewOK(b, t.view)
  BY <1>1, <1>3, ViewGrows DEF ServiceOK, ChainOK
<1>7. SameView(x.view, y.view) /\ TouchedBy(t.view, b) = TouchedBy(s.view, b)
  BY <1>1, <1>3, <1>4, <1>5, <1>6, SyncAlike
<1>8. LayerOK(b, s.layer) /\ LayerOK(b, t.layer)
  BY <1>1, <1>2, TakenLayer DEF ServiceOK
<1>9. Update(s.layer, b).flags = Frontier(b) /\ Update(t.layer, b).flags = Frontier(b)
  <2>1. LayerOK(b, Update(s.layer, b)) /\ Update(s.layer, b).version = b.plan
    BY <1>3, <1>8, UpdateIsRight
  <2>2. LayerOK(b, Update(t.layer, b)) /\ Update(t.layer, b).version = b.plan
    BY <1>3, <1>8, UpdateIsRight
  <2> QED BY <1>3, <2>1, <2>2, CurrentFlags
<1>10. Left(y) <=> Left(x)
  BY <1>1, <1>4, <1>5, <1>7, <1>9 DEF Left, IsMarked
<1> QED BY <1>1, <1>4, <1>5, <1>7, <1>9, <1>10 DEF Alike

\* A service that is up to date goes on alike when it is restored.
LEMMA RestoredAlike ==
  ASSUME NEW s, ServiceOK(s), ChainOK(s), s.layer.version = s.belief.plan,
         NEW b, BeliefOK(b), LogOK(b), Grows(b, s.belief), NEW t, t = Restored(s, b)
  PROVE  Alike(s, t)
<1>1. /\ ChainOK(t) /\ t.belief = s.belief /\ t.view.profile = s.view.profile /\ t.view.synced = s.belief.plan
      /\ t.layer.version = s.belief.plan /\ t.layer.flags = Frontier(s.belief)
      /\ t.marks.cells = s.marks.cells /\ t.temporary.cells = s.temporary.cells /\ t.had = s.had
  BY RestoredChain
<1>2. s.layer.flags = Frontier(s.belief)
  BY CurrentFlags DEF ServiceOK
<1>3. ViewOK(s.belief, s.view) /\ s.view.synced = s.belief.plan /\ ViewOK(s.belief, t.view) /\ BeliefOK(s.belief)
  BY <1>1 DEF ChainOK, MemosOK, ServiceOK
<1>4. SameView(s.view, t.view)
  BY <1>1, <1>3, CurrentAlike
<1> QED BY <1>1, <1>2, <1>4 DEF Alike

(***************************************************************************)
(* The steps of the chain                                                  *)
(***************************************************************************)
\* The service that is made first has its chain in order.
LEMMA ChainInit == Init => ChainInv
<1> SUFFICES ASSUME Init PROVE ChainInv
  OBVIOUS
<1>1. BeliefOK(NewBelief) /\ LogOK(NewBelief)
  BY BeliefAssumption DEF NewBelief, BeliefOK, BeliefFields, LogOK
<1>2. prior = NewBelief /\ pc = "prior" /\ twin = {}
  BY DEF Init
<1>3. PICK p \in Profiles, c \in Posts : run = Assembled(NewBelief, p, c)
  BY DEF Init
<1>4. ChainOK(run)
  <2> DEFINE b == NewBelief
  <2>1. BeliefOK(b) /\ LogOK(b) /\ run = Assembled(b, p, c)
    BY <1>1, <1>3
  <2> HIDE DEF b
  <2> QED BY <2>1, AssembledChain
<1> QED BY <1>1, <1>2, <1>4 DEF ChainInv, Services

\* A step within a tick: the run's map goes on, and a twin stays like it.
LEMMA ActingStep ==
  ASSUME IInv, ChainInv, pc # "prior", pc' \in {"acting", "sensing"}, prior' = prior,
         ChainOK(run'), Grows(run.belief, run'.belief), \A t \in twin' : ChainOK(t) /\ Alike(run', t)
  PROVE  ChainInv'
<1>1. BeliefOK(prior) /\ Grows(prior, run.belief)
  BY DEF IInv, ChainInv
<1>2. Grows(prior, run'.belief)
  <2> DEFINE b == run.belief
             d == run'.belief
  <2>1. Grows(prior, b) /\ Grows(b, d)
    BY <1>1
  <2> HIDE DEF b, d
  <2>2. Grows(prior, d)
    BY <1>1, <2>1, GrowsOn
  <2> QED BY <2>2 DEF d
<1>3. LogOK(prior)
  BY DEF ChainInv
<1> QED BY <1>2, <1>3 DEF ChainInv, Services

\* Every step keeps the chain in order.
LEMMA ChainStep == IInv /\ ChainInv /\ [Next]_vars => ChainInv'
<1> SUFFICES ASSUME IInv, ChainInv, [Next]_vars PROVE ChainInv'
  OBVIOUS
<1>1. /\ ServiceOK(run) /\ ChainOK(run) /\ BeliefOK(prior) /\ LogOK(prior) /\ Grows(run.belief, run.belief)
      /\ \A s \in twin : ServiceOK(s) /\ ChainOK(s) /\ Alike(run, s)
      /\ BeliefOK(run.belief) /\ LogOK(run.belief)
  BY GrowsItself DEF IInv, ChainInv, Services, ServiceOK, ChainOK
<1>2. ASSUME NEW c \in Cells, Know(c) PROVE ChainInv'
  <2>1. /\ prior' = SetLevel(prior, c, -Threshold) /\ -Threshold \in Int
        /\ run' = run /\ twin' = twin /\ pc' = pc /\ pc = "prior"
    BY <1>2, BeliefAssumption DEF Know
  <2>2. LogOK(prior')
    BY <1>1, <2>1, SetLevelGrows DEF Grows
  <2> QED BY <1>1, <2>1, <2>2 DEF ChainInv, Services
<1>3. CASE Assemble
  <2>1. /\ pc = "prior" /\ pc' = "between" /\ prior' = Taken(prior) /\ twin' = twin
        /\ run' = Assembled(prior', run.view.profile, post) /\ run.view.profile \in Profiles
    BY <1>1, <1>3 DEF Assemble, ChainOK, ViewOK, ViewState
  <2>2. BeliefOK(prior') /\ LogOK(prior') /\ Grows(prior', prior')
    BY <1>1, <2>1, TakenGrows, GrowsItself DEF Grows
  <2>3. /\ ChainOK(run') /\ run'.belief = prior' /\ run'.layer.version = prior'.plan
        /\ Left(run') <=> run'.had = "yes"
    BY <2>1, <2>2, AssembledChain
  <2>4. twin' = {}
    BY <2>1 DEF ChainInv
  <2>5. SettledOK(run', post')
    BY <2>3 DEF SettledOK
  <2> QED BY <2>1, <2>2, <2>3, <2>4, <2>5 DEF ChainInv, Services
<1>4. ASSUME NEW c \in {o.cell : o \in Readings}, Bump(c) PROVE ChainInv'
  <2>1. /\ run' = Bumps(run, c) /\ twin' = {Bumps(s, c) : s \in twin}
        /\ pc' = "acting" /\ pc # "prior" /\ prior' = prior
    BY <1>4 DEF Bump, Act, Both, ChainInv
  <2>2. ChainOK(run') /\ Grows(run.belief, run'.belief)
    BY <1>1, <2>1, SensesChain
  <2>3. ASSUME NEW s \in twin PROVE ChainOK(Bumps(s, c)) /\ Alike(run', Bumps(s, c))
    BY <1>1, <2>1, SensesChain, ActionsAlike
  <2> QED BY <2>1, <2>2, <2>3, ActingStep
<1>5. ASSUME NEW c, Mark(c) PROVE ChainInv'
  <2>1. /\ run' = Marks(run, c) /\ twin' = {Marks(s, c) : s \in twin}
        /\ pc' = "acting" /\ pc # "prior" /\ prior' = prior
    BY <1>5 DEF Mark, Act, Both
  <2>2. ChainOK(run') /\ run'.belief = run.belief
    BY <1>1, <2>1, MarksChain DEF Marking
  <2>3. ASSUME NEW s \in twin PROVE ChainOK(Marks(s, c)) /\ Alike(run', Marks(s, c))
    BY <1>1, <2>1, MarksChain, ActionsAlike
  <2> QED BY <1>1, <2>1, <2>2, <2>3, ActingStep
<1>6. ASSUME NEW c, MarkForNow(c) PROVE ChainInv'
  <2>1. /\ run' = MarksForNow(run, c) /\ twin' = {MarksForNow(s, c) : s \in twin}
        /\ pc' = "acting" /\ pc # "prior" /\ prior' = prior
    BY <1>6 DEF MarkForNow, Act, Both
  <2>2. ChainOK(run') /\ run'.belief = run.belief
    BY <1>1, <2>1, MarksForNowChain DEF Marking
  <2>3. ASSUME NEW s \in twin PROVE ChainOK(MarksForNow(s, c)) /\ Alike(run', MarksForNow(s, c))
    BY <1>1, <2>1, MarksForNowChain, ActionsAlike
  <2> QED BY <1>1, <2>1, <2>2, <2>3, ActingStep
<1>7. CASE EndIteration
  <2>1. /\ run' = EndsIteration(run) /\ twin' = {EndsIteration(s) : s \in twin}
        /\ pc' = "acting" /\ pc # "prior" /\ prior' = prior
    BY <1>7 DEF EndIteration, Act, Both
  <2>2. ChainOK(run') /\ run'.belief = run.belief
    BY <1>1, <2>1, EndsIterationChain DEF Marking
  <2>3. ASSUME NEW s \in twin PROVE ChainOK(EndsIteration(s)) /\ Alike(run', EndsIteration(s))
    BY <1>1, <2>1, EndsIterationChain, ActionsAlike
  <2> QED BY <1>1, <2>1, <2>2, <2>3, ActingStep
<1>8. CASE Read
  <2>1. /\ run' = Reads(run) /\ twin' = {Reads(s) : s \in twin}
        /\ pc' = "acting" /\ pc # "prior" /\ prior' = prior
    BY <1>8 DEF Read, Act, Both
  <2>2. ChainOK(run') /\ run'.belief = run.belief
    BY <1>1, <2>1, ReadsChain DEF Marking
  <2>3. ASSUME NEW s \in twin PROVE ChainOK(Reads(s)) /\ Alike(run', Reads(s))
    BY <1>1, <2>1, ReadsChain, ActionsAlike
  <2> QED BY <1>1, <2>1, <2>2, <2>3, ActingStep
<1>9. ASSUME NEW o \in Readings, Observe(o) PROVE ChainInv'
  <2>1. /\ run' = Observes(run, o) /\ twin' = {Observes(s, o) : s \in twin}
        /\ pc' = "sensing" /\ pc # "prior" /\ prior' = prior
    BY <1>9 DEF Observe, Both
  <2>2. ChainOK(run') /\ Grows(run.belief, run'.belief)
    BY <1>1, <2>1, SensesChain
  <2>3. ASSUME NEW s \in twin PROVE ChainOK(Observes(s, o)) /\ Alike(run', Observes(s, o))
    BY <1>1, <2>1, SensesChain, ActionsAlike
  <2> QED BY <2>1, <2>2, <2>3, ActingStep
<1>10. ASSUME NEW c \in Posts, Settle(c) PROVE ChainInv'
  <2> DEFINE U(s) == Updates([s EXCEPT !.belief = Taken(@)], c)
  <2>1. /\ run' = U(run) /\ twin' = {U(s) : s \in twin}
        /\ pc' = "between" /\ pc # "prior" /\ prior' = prior /\ post' = c
    BY <1>10 DEF Settle, Both
  <2>2. ASSUME NEW s, ServiceOK(s), ChainOK(s)
        PROVE  /\ ChainOK(U(s)) /\ U(s).belief = Taken(s.belief)
               /\ SettledOK(U(s), c)
    <3> DEFINE t == U(s)
    <3>1. /\ ChainOK(t) /\ t.belief = Taken(s.belief) /\ t.layer.version = Taken(s.belief).plan
          /\ t.had = IF Left(t) THEN "yes" ELSE IF s.had # "yes" THEN s.had
                     ELSE IF Class(Taken(s.belief), c) = "unknown" THEN "yes" ELSE "no"
      BY <2>2, UpdatesChain
    <3> HIDE DEF t
    <3>2. SettledOK(t, c)
      BY <3>1 DEF SettledOK
    <3> QED BY <3>1, <3>2 DEF t
  <2>3. ASSUME NEW s \in twin PROVE ChainOK(U(s)) /\ Alike(run', U(s)) /\ SettledOK(U(s), c)
    <3>1. Alike(U(run), U(s))
      BY <1>1, UpdatesAlike
    <3> HIDE DEF U
    <3> QED BY <1>1, <2>1, <2>2, <3>1
  <2>4. Grows(prior, run'.belief)
    <3> DEFINE b == run.belief
    <3>1. BeliefOK(b) /\ LogOK(b) /\ Grows(prior, b) /\ run'.belief = Taken(b)
      BY <1>1, <2>1, <2>2 DEF ChainInv
    <3> HIDE DEF b
    <3>2. Grows(b, Taken(b))
      BY <3>1, TakenGrows
    <3> QED BY <1>1, <3>1, <3>2, GrowsOn
  <2> HIDE DEF U
  <2>5. ChainOK(run') /\ SettledOK(run', post')
    BY <1>1, <2>1, <2>2
  <2> QED BY <1>1, <2>1, <2>3, <2>4, <2>5 DEF ChainInv, Services
<1>11. CASE Fork
  <2>1. /\ twin' = {Restored(run, prior)} /\ run' = run /\ prior' = prior /\ pc' = pc /\ post' = post
        /\ pc = "between" /\ SettledOK(run, post) /\ Grows(prior, run.belief)
    BY <1>11 DEF Fork, ChainInv, Services
  <2> DEFINE t == Restored(run, prior)
  <2>2. /\ ChainOK(t) /\ t.belief = run.belief /\ t.layer.version = run.belief.plan
        /\ t.layer.flags = Frontier(run.belief) /\ t.marks.cells = run.marks.cells /\ t.had = run.had
    BY <1>1, <2>1, RestoredChain
  <2>3. Alike(run, t)
    BY <1>1, <2>1, RestoredAlike DEF SettledOK
  <2> HIDE DEF t
  <2>4. Left(t) <=> Left(run)
    BY <2>2, <2>3 DEF Alike, Left, IsMarked
  <2>5. SettledOK(t, post)
    BY <2>1, <2>2, <2>4 DEF SettledOK
  <2>6. SettledOK(t, post') /\ SettledOK(run', post')
    BY <2>1, <2>5 DEF SettledOK
  <2> QED BY <1>1, <2>1, <2>2, <2>3, <2>6 DEF ChainInv, Services, t
<1>12. CASE UNCHANGED vars
  BY <1>1, <1>12 DEF vars, ChainInv, Services, SettledOK
<1> QED BY <1>2, <1>3, <1>4, <1>5, <1>6, <1>7, <1>8, <1>9, <1>10, <1>11, <1>12 DEF Next

\* The chain of view, layer, marks and report is in order in every run.
THEOREM ChainInvariant == Spec => [](IInv /\ ChainInv)
BY InitOK, StepOK, ChainInit, ChainStep, PTL DEF Spec

\* Every view the run or its twin has brought up to date, cell by cell or chunk by chunk,
\* is the one a new view would be (search-space.ts, sync).
THEOREM ViewsStayCurrent == Spec => []ViewIsCurrent
<1>1. ASSUME NEW s, ServiceOK(s), ChainOK(s), s.view.synced = s.belief.plan
      PROVE  /\ s.view.open = {c \in Cells : Open(s.belief, c)}
             /\ s.view.pass = Passable(s.belief) /\ s.view.unknown = Unknown(s.belief)
  <2> DEFINE b == s.belief
             v == s.view
  <2>1. BeliefOK(b) /\ ViewOK(b, v) /\ v.synced = b.plan
    BY <1>1 DEF ServiceOK, ChainOK
  <2> HIDE DEF b, v
  <2>2. v.open = {c \in Cells : Open(b, c)} /\ v.pass = Passable(b) /\ v.unknown = Unknown(b)
    BY <2>1, CurrentView
  <2> QED BY <2>2 DEF b, v
<1>2. IInv /\ ChainInv => ViewIsCurrent
  BY <1>1 DEF IInv, ChainInv, Services, ViewIsCurrent
<1> QED BY <1>2, ChainInvariant, PTL

\* What a read answers from a layer that is up to date is what a layer built over the
\* map as it is would answer.
FreshReads(s) ==
  LET new == [EmptyLayer EXCEPT !.flags = Frontier(s.belief), !.free = [k \in Chunks |-> FreeIn(s.belief, k)], !.stale = Regions]
  IN
  /\ \A r \in Regions : GroupsOfRegion(s.layer, r) = Grouped(new.flags, r)
  /\ \A r \in Regions : Waypoint(s.layer, s.belief, r) = WaypointOf(s.belief, new, r)
  /\ \A e \in Edges : EdgeClass(s.layer, s.belief, s.view, e) = Crossing(s.belief, s.view, e)
  /\ HasUnmarkedFrontier(s) <=> \E g \in AllGroups(new) : ~IsMarked(s.marks, g)

\* A layer that is up to date is read right.
LEMMA CurrentReads ==
  ASSUME NEW s, ServiceOK(s), ChainOK(s), s.layer.version = s.belief.plan
  PROVE  FreshReads(s)
<1> DEFINE b == s.belief
           l == s.layer
           v == s.view
           free == [k \in Chunks |-> FreeIn(b, k)]
           new == [EmptyLayer EXCEPT !.flags = Frontier(b), !.free = free, !.stale = Regions]
<1>1. BeliefOK(b) /\ LayerOK(b, l) /\ MemosOK(b, v, l) /\ l.version = b.plan
  BY DEF ServiceOK, ChainOK
<1>2. new.flags = Frontier(b) /\ new.free = free /\ new.stale = Regions
  BY DEF EmptyLayer
<1> HIDE DEF b, l, v, new
<1>3. l.flags = Frontier(b)
  BY <1>1, CurrentFlags
<1>4. \A k \in Chunks : Unstamped(b, l.version, k)
  BY <1>1 DEF BeliefOK, Unstamped
<1>5. \A r \in Regions : GroupsOfRegion(l, r) = Grouped(Frontier(b), r)
  BY <1>1, <1>3, GroupsAreRight
<1>6. ASSUME NEW r \in Regions PROVE Waypoint(l, b, r) = WaypointOf(b, new, r)
  <2>1. Waypoint(l, b, r) = WaypointOf(b, l, r)
    BY <1>1, <1>4 DEF Waypoint, MemosOK
  <2>2. \A k \in Chunks : new.free[k] = l.free[k]
    BY <1>1, <1>2, <1>4 DEF LayerOK
  <2>3. WaypointOf(b, new, r) = WaypointOf(b, l, r)
    BY <2>2, SameWaypoint
  <2> QED BY <2>1, <2>3
<1>7. ASSUME NEW e \in Edges PROVE EdgeClass(l, b, v, e) = Crossing(b, v, e)
  <2>1. ChunksChangedSince(b, l.version) = {}
    BY <1>1, <1>4 DEF ChunksChangedSince, Unstamped, BeliefOK
  <2>2. e \notin EdgesNear({})
    BY DEF EdgesNear
  <2> QED BY <1>1, <2>1, <2>2 DEF EdgeClass, MemosOK
<1>8. HasUnmarkedFrontier(s) <=> \E g \in AllGroups(new) : ~IsMarked(s.marks, g)
  <2>1. HasUnmarkedFrontier(s) <=> Left(s)
    BY LeftIsFound
  <2>2. Left(s) <=> \E r \in Regions : \E g \in Grouped(Frontier(b), r) : ~IsMarked(s.marks, g)
    BY <1>3 DEF Left, l
  <2>3. AllGroups(new) = UNION {Grouped(Frontier(b), r) : r \in Regions}
    BY <1>2 DEF AllGroups, GroupsOfRegion
  <2> QED BY <2>1, <2>2, <2>3
<1> QED BY <1>2, <1>5, <1>6, <1>7, <1>8 DEF FreshReads, b, l, v, new

\* Groups, waypoints, edges and whether a frontier is left: filled when they are asked
\* for and kept until they are due, they are never out of date (topology.ts).
THEOREM ReadsStayFresh == Spec => []ReadsAreFresh
<1>1. IInv /\ ChainInv => \A s \in Services : s.layer.version = s.belief.plan => FreshReads(s)
  BY CurrentReads DEF IInv, ChainInv, Services
<1>2. (\A s \in Services : s.layer.version = s.belief.plan => FreshReads(s)) => ReadsAreFresh
  BY DEF ReadsAreFresh, FreshReads
<1> QED BY <1>1, <1>2, ChainInvariant, PTL

\* At the end of a tick a service has told that frontiers are exhausted just when they
\* are, but on an unknown cell (assemble/topology.ts, watchFrontiers).
THEOREM ExhaustionStaysTold == Spec => []ExhaustionIsTold
<1>1. ASSUME NEW s, ServiceOK(s), SettledOK(s, post)
      PROVE  LET left == \E g \in UNION {Grouped(Frontier(s.belief), r) : r \in Regions} : ~IsMarked(s.marks, g) IN
             /\ left => s.had = "yes"
             /\ s.had = "yes" /\ ~left => Class(s.belief, post) = "unknown"
  <2>1. s.layer.flags = Frontier(s.belief)
    BY <1>1, CurrentFlags DEF ServiceOK, SettledOK
  <2>2. Left(s) <=> \E g \in UNION {Grouped(Frontier(s.belief), r) : r \in Regions} : ~IsMarked(s.marks, g)
    BY <2>1 DEF Left
  <2> QED BY <1>1, <2>2 DEF SettledOK
<1>2. IInv /\ ChainInv => ExhaustionIsTold
  BY <1>1 DEF IInv, ChainInv, Services, ExhaustionIsTold
<1> QED BY <1>2, ChainInvariant, PTL

\* A run restored from a snapshot goes on as the run it is of, whatever both did before
\* and do after, and no snapshot between ticks is refused (assemble/topology.ts,
\* snapshot and restore).
THEOREM RestoredRunsGoOn == Spec => []RestoredRunGoesOn
<1>1. ASSUME NEW s, ChainOK(s) PROVE ~SnapshotRefused(s)
  BY <1>1 DEF ChainOK, MarksOK, SnapshotRefused
<1>2. ASSUME NEW s, ChainOK(s), ChainOK(run), Alike(run, s)
      PROVE  /\ s.marks.cells = run.marks.cells /\ s.temporary.cells = run.temporary.cells
             /\ Candidates(s) = Candidates(run) /\ s.had = run.had
  <2>1. /\ s.marks.cells = run.marks.cells /\ s.temporary.cells = run.temporary.cells
        /\ s.layer.flags = run.layer.flags /\ s.had = run.had
    BY <1>2 DEF Alike
  <2>2. /\ AllGroups(s.layer) = UNION {Grouped(s.layer.flags, r) : r \in Regions}
        /\ AllGroups(run.layer) = UNION {Grouped(run.layer.flags, r) : r \in Regions}
    BY <1>2, GroupsAreRight DEF ChainOK
  <2>3. \A g : (IsMarked(s.marks, g) <=> IsMarked(run.marks, g)) /\ (IsMarked(s.temporary, g) <=> IsMarked(run.temporary, g))
    BY <2>1 DEF IsMarked
  <2>4. {h \in AllGroups(s.layer) : ~IsMarked(s.marks, h)} = {h \in AllGroups(run.layer) : ~IsMarked(run.marks, h)}
    BY <2>1, <2>2, <2>3
  <2>5. Candidates(s) = Candidates(run)
    <3> DEFINE H == {h \in AllGroups(s.layer) : ~IsMarked(s.marks, h)}
    <3>1. Candidates(run) = {[group |-> g, temporary |-> IsMarked(run.temporary, g)] : g \in H}
      BY <2>4 DEF Candidates
    <3>2. Candidates(s) = {[group |-> g, temporary |-> IsMarked(s.temporary, g)] : g \in H}
      BY DEF Candidates
    <3>3. \A g : IsMarked(s.temporary, g) = IsMarked(run.temporary, g)
      BY <2>1 DEF IsMarked
    <3> HIDE DEF H
    <3> QED BY <3>1, <3>2, <3>3
  <2> QED BY <2>1, <2>5
<1>3. IInv /\ ChainInv => RestoredRunGoesOn
  BY <1>1, <1>2 DEF ChainInv, Services, RestoredRunGoesOn
<1> QED BY <1>3, ChainInvariant, PTL

\* What an update leaves of marks in a chunk, by what it counts as touched.
LEMMA SparedInChunk ==
  ASSUME NEW cells \in SUBSET Cells, NEW touched, NEW k \in Chunks
  PROVE  /\ Around[k] \cap touched # {} => Spared(cells, touched) \cap ChunkCells[k] = {}
         /\ Spared(cells, touched) \cap ChunkCells[k] # cells \cap ChunkCells[k] => Around[k] \cap touched # {}
BY DEF Spared, ChunkCells

\* In an update, marks go just where the view changed, and stay everywhere else when it
\* is updated cell by cell (assemble/topology.ts, clearMarks).
THEOREM MarksFollow == Spec => MarksFollowTheView
<1> DEFINE A == ticks' # ticks =>
             LET differing == Differing(run.view, run'.view) IN
             \A k \in Chunks : \A m \in {"marks", "temporary"} :
               LET before == run[m].cells \cap ChunkCells[k]
                   after == run'[m].cells \cap ChunkCells[k]
                   turned == Around[k] \cap differing # {}
               IN before # {} => /\ turned => after = {}
                                 /\ after # before => turned \/ ~ByCells(run.view, run.belief)
<1>1. ASSUME IInv, ChainInv, NEW c \in Posts, Settle(c) PROVE A
  <2> DEFINE b == Taken(run.belief)
             v == run.view
             touched == TouchedBy(v, b)
  <2>1. /\ ServiceOK(run) /\ ChainOK(run) /\ BeliefOK(run.belief) /\ LogOK(run.belief) /\ ViewOK(run.belief, v)
        /\ MarksOK(run.marks, v) /\ MarksOK(run.temporary, v)
    BY <1>1 DEF IInv, ChainInv, Services, ServiceOK, ChainOK
  <2>2. run' = Updates([run EXCEPT !.belief = Taken(@)], c)
    BY <1>1 DEF Settle, Both
  <2>3. /\ run'.view = Sync(v, b)
        /\ run'.marks.cells = Spared(run.marks.cells, touched)
        /\ run'.temporary.cells = Spared(run.temporary.cells, touched)
    BY <2>1, <2>2, UpdatesChain
  <2>4. Grows(run.belief, b) /\ BeliefOK(b) /\ LogOK(b)
    BY <2>1, TakenGrows DEF Grows
  <2>5. ByCells(v, b) <=> ByCells(v, run.belief)
    BY <2>1 DEF ByCells, LogReaches, Taken, BeliefOK, BeliefFields
  <2>6. ViewOK(b, v)
    BY <2>1, <2>4, ViewGrows
  <2> HIDE DEF b, v
  <2>7. Counts(v, Sync(v, b), touched) /\ (ByCells(v, b) => touched = Differing(v, Sync(v, b)))
    BY <2>4, <2>6, SyncOK
  <2> DEFINE differing == Differing(v, run'.view)
  <2>8. differing \subseteq touched /\ (ByCells(v, b) => touched = differing)
    BY <2>3, <2>7 DEF Counts
  <2> HIDE DEF touched, differing
  <2>9. ASSUME NEW k \in Chunks, NEW m \in {"marks", "temporary"}
        PROVE  /\ Around[k] \cap differing # {} => run'[m].cells \cap ChunkCells[k] = {}
               /\ run'[m].cells \cap ChunkCells[k] # run[m].cells \cap ChunkCells[k] =>
                    Around[k] \cap differing # {} \/ ~ByCells(v, run.belief)
    <3>1. run'[m].cells = Spared(run[m].cells, touched) /\ run[m].cells \in SUBSET Cells
      BY <2>1, <2>3, <2>9 DEF MarksOK
    <3>2. /\ Around[k] \cap touched # {} => Spared(run[m].cells, touched) \cap ChunkCells[k] = {}
          /\ Spared(run[m].cells, touched) \cap ChunkCells[k] # run[m].cells \cap ChunkCells[k] => Around[k] \cap touched # {}
      BY <3>1, SparedInChunk
    <3> QED BY <2>5, <2>8, <3>1, <3>2
  <2> QED BY <2>9 DEF differing, v
<1>2. ASSUME IInv, ChainInv, [Next]_vars PROVE A \/ UNCHANGED vars
  <2>1. CASE ticks' = ticks
    BY <2>1
  <2>2. CASE ticks' # ticks
    <3>1. ~UNCHANGED vars
      BY <2>2 DEF vars
    <3>2. PICK c \in Posts : Settle(c)
      BY <1>2, <2>2, <3>1 DEF Next, Know, Assemble, Bump, Mark, MarkForNow, EndIteration, Read, Act, Observe, Fork
    <3> QED BY <1>1, <1>2, <3>2
  <2> QED BY <2>1, <2>2
<1>3. IInv /\ ChainInv /\ [Next]_vars => [A]_vars
  BY <1>2
<1>4. MarksFollowTheView <=> [][A]_vars
  BY DEF MarksFollowTheView
<1> HIDE DEF A
<1> QED BY <1>3, <1>4, ChainInvariant, PTL DEF Spec
=============================================================================
