----------------------------- MODULE Frontiers -----------------------------
(***************************************************************************)
(* The topology service of one agent                                       *)
(* (packages/scenarios/src/assemble/topology.ts) over its belief map, its  *)
(* planning view and its topological layer, tick by tick as the run calls  *)
(* them (packages/scenarios/src/assemble/run.ts): the actions of a tick    *)
(* bump into things, read the layer and mark frontiers unreachable; then   *)
(* the sensors read, the view syncs and the service updates. Between ticks *)
(* a snapshot may be restored in another run, the twin.                    *)
(***************************************************************************)
EXTENDS TopologyLayer

CONSTANTS
  Priors,       \* what the agent may know at tick 0: free cells
  Readings,     \* [cell, hit] a sensor may report
  Posts,        \* where the agent may be
  MaxTicks, MaxReadings, MaxActs

ASSUME ServiceAssumption ==
  /\ \A p \in Priors : p \subseteq Cells
  /\ \A o \in Readings : o.cell \in Cells /\ o.hit \in BOOLEAN
  /\ Posts \subseteq Cells

VARIABLES
  run,      \* the service of the run
  twin,     \* the services restored from its snapshots: none or one
  prior,    \* the belief map both were assembled with
  replica,  \* the belief map rebuilt from the run's recorded deltas
  post,     \* the cell the agent was on at the last update
  pc,       \* "prior", "between", "acting", "sensing"
  ticks, readings, acts

vars == <<run, twin, prior, replica, post, pc, ticks, readings, acts>>

(***************************************************************************)
(* Marks                                                                   *)
(***************************************************************************)
NoMarks == [cells |-> {}, at |-> 0, rev |-> 0]

\* (Marked: the first mark does not start from the view as it is.)
MarkedFromBefore(m, group, view) == [m EXCEPT !.cells = @ \cup group, !.rev = @ + 1]

\* Changes of the view are followed only while there are marks.
Marked(m, group, view) ==
  [m EXCEPT !.cells = @ \cup group, !.at = IF m.cells = {} THEN view.content ELSE @, !.rev = @ + 1]

Dropped(m, group) == IF m.cells \cap group = {} THEN m ELSE [m EXCEPT !.cells = @ \ group, !.rev = @ + 1]

Emptied(m) == IF m.cells = {} THEN m ELSE [m EXCEPT !.cells = {}, !.rev = @ + 1]

\* Marks go, chunk by chunk, where the view changed in the chunk or around it.
Cleared(m, view) ==
  LET hit == {k \in {ChunkOf[c] : c \in m.cells} : Around[k] \cap ChangedSince(view, m.at) # {}} IN
  IF m.cells = {} \/ view.content = m.at THEN m
  ELSE [cells |-> {c \in m.cells : ChunkOf[c] \notin hit}, at |-> view.content, rev |-> m.rev + Cardinality(hit)]

\* A group is marked when all its cells are.
IsMarked(m, group) == group \subseteq m.cells

(***************************************************************************)
(* Whether an unmarked frontier is left: asked of a witness first, then of  *)
(* region after region until one has a group that is not marked.           *)
(***************************************************************************)
Unmarked(s, r) == {g \in GroupsOfRegion(s.layer, r) : ~IsMarked(s.marks, g)}

\* (WitnessStands: a witness that was marked since still stands.)
WitnessMarked(s) == \E w \in s.witness : s.layer.rev[w.region] = w.rev

WitnessStands(s) ==
  \E w \in s.witness : s.layer.rev[w.region] = w.rev /\ ~IsMarked(s.marks, w.group)

\* The regions from the witness's on, round.
InTurn(s) ==
  LET n == Cardinality(Regions)
      start == IF s.witness = {} THEN 0 ELSE (CHOOSE w \in s.witness : TRUE).region
  IN [i \in 0..(n - 1) |-> (start + i) % n]

\* The group of a region with the lowest cell comes first.
FirstGroup(gs) == CHOOSE g \in gs : \A h \in gs : \E c \in g : \A d \in h : c <= d

Witnessed(s, r) ==
  [s EXCEPT !.witness = {[region |-> r, rev |-> s.layer.rev[r], group |-> FirstGroup(Unmarked(s, r))]}]

Searched(s) ==
  LET turn == InTurn(s)
      having == {i \in DOMAIN turn : Unmarked(s, turn[i]) # {}}
      last == CHOOSE i \in having : \A j \in having : i <= j
  IN IF having = {}
     THEN [s EXCEPT !.witness = {}, !.layer = Regrouped(@, Regions)]
     ELSE [Witnessed(s, turn[last]) EXCEPT !.layer = Regrouped(@, {turn[i] : i \in 0..last})]

Looked(s) == IF WitnessStands(s) THEN s ELSE Searched(s)

\* What is found is the witness.
HasUnmarkedFrontier(s) == WitnessStands(s) \/ \E r \in Regions : Unmarked(s, r) # {}

\* Once per change of the groups or the marks; again while the agent's own cell is unknown.
Watched(s, cell) ==
  LET stamp == <<s.layer.frontierRev, s.marks.rev>>
      w == [Looked(s) EXCEPT !.watched = stamp]
  IN IF s.watched = stamp THEN s
     ELSE IF HasUnmarkedFrontier(s) THEN [w EXCEPT !.had = "yes"]
     ELSE IF s.had # "yes" THEN w
     ELSE IF Class(s.belief, cell) = "unknown" THEN [w EXCEPT !.watched = <<>>]
     ELSE [w EXCEPT !.had = "no"]

(***************************************************************************)
(* The service through a tick                                              *)
(***************************************************************************)
\* Everything is brought up to date after the readings.
Updates(s, cell) ==
  LET view == Sync(s.view, s.belief)
      l == Update(s.layer, s.belief)
  IN Watched([s EXCEPT !.view = view, !.layer = l, !.marks = Cleared(@, view), !.temporary = Cleared(@, view)], cell)

Observes(s, o) == [s EXCEPT !.belief = IF o.hit THEN ObserveHit(@, o.cell) ELSE ObserveFree(@, o.cell)]

Bumps(s, c) == [s EXCEPT !.belief = ObserveContact(@, c)]

\* The group that holds a cell; all regions are grouped to find it.
GroupAt(s, c) == UNION {g \in AllGroups(s.layer) : c \in g}

Grouping(s) == [s EXCEPT !.layer = Regrouped(@, Regions)]

\* What is marked for good is no longer marked for the iteration only.
Marks(s, c) ==
  LET g == GroupAt(s, c) IN
  IF g = {} THEN Grouping(s)
  ELSE [Grouping(s) EXCEPT !.marks = Marked(@, g, s.view), !.temporary = Dropped(@, g)]

MarksForNow(s, c) ==
  LET g == GroupAt(s, c) IN
  IF g = {} THEN Grouping(s) ELSE [Grouping(s) EXCEPT !.temporary = Marked(@, g, s.view)]

EndsIteration(s) == [s EXCEPT !.temporary = Emptied(@)]

\* A mind's view, the overlay and the actions ask for everything.
Reads(s) == [Grouping(s) EXCEPT !.layer = EdgesRead(WaypointsRead(@, s.belief), s.belief, s.view)]

Candidates(s) ==
  {[group |-> g, temporary |-> IsMarked(s.temporary, g)] : g \in {h \in AllGroups(s.layer) : ~IsMarked(s.marks, h)}}

(***************************************************************************)
(* Assembly and restore                                                    *)
(***************************************************************************)
\* The service updates once when it is made.
Assembled(b, profile, cell) ==
  Watched([belief |-> b, view |-> Built(b, profile), layer |-> NewLayer(b), marks |-> NoMarks,
           temporary |-> NoMarks, had |-> "never", witness |-> {}, watched |-> <<>>], cell)

SnapshotRefused(s) ==
  \E m \in {s.marks, s.temporary} : m.cells # {} /\ s.view.content # m.at

\* (Restored: the marks are based on the view before it has caught up.)
BasedTooEarly(s, b) ==
  [s EXCEPT !.view = Sync(Built(b, s.view.profile), s.belief), !.layer = NewLayer(s.belief),
            !.marks.at = 0, !.temporary.at = 0, !.witness = {}, !.watched = <<>>]

\* A fresh run's view catches up with the restored map; its layer is built again; the
\* marks are based on the view as it is now, and the caches start empty.
Restored(s, b) ==
  LET view == Sync(Built(b, s.view.profile), s.belief)
      based(m) == [m EXCEPT !.at = view.content]
  IN [s EXCEPT !.view = view, !.layer = NewLayer(s.belief), !.marks = based(@), !.temporary = based(@),
               !.witness = {}, !.watched = <<>>]

(***************************************************************************)
(* Actions                                                                 *)
(***************************************************************************)
Init ==
  /\ prior = NewBelief /\ pc = "prior"
  /\ \E p \in Profiles, c \in Posts : run = Assembled(NewBelief, p, c) /\ post = c
  /\ twin = {} /\ replica = NewBelief
  /\ ticks = 0 /\ readings = 0 /\ acts = 0

\* The prior is written into the map before anything reads it.
Know(c) ==
  /\ pc = "prior" /\ c \notin prior.touched
  /\ \E p \in Priors : prior.touched \cup {c} \subseteq p /\ \A d \in p : d < c => d \in prior.touched
  /\ prior' = SetLevel(prior, c, -Threshold)
  /\ UNCHANGED <<run, twin, replica, post, pc, ticks, readings, acts>>

Assemble ==
  /\ pc = "prior" /\ prior.touched \in Priors
  /\ pc' = "between" /\ prior' = Taken(prior) /\ replica' = prior
  /\ run' = Assembled(prior', run.view.profile, post)
  /\ UNCHANGED <<twin, post, ticks, readings, acts>>

\* Run and twin do the same.
Both(F(_)) == run' = F(run) /\ twin' = {F(s) : s \in twin}

Act(F(_)) ==
  /\ pc \in {"between", "acting"} /\ ticks < MaxTicks /\ acts < MaxActs
  /\ pc' = "acting" /\ acts' = acts + 1
  /\ Both(F)
  /\ UNCHANGED <<prior, replica, post, ticks, readings>>

Bump(c) == Act(LAMBDA s : Bumps(s, c))

Mark(c) == Act(LAMBDA s : Marks(s, c))

MarkForNow(c) == Act(LAMBDA s : MarksForNow(s, c))

EndIteration == run.temporary.cells # {} /\ Act(LAMBDA s : EndsIteration(s))

Read == Reads(run) # run /\ Act(LAMBDA s : Reads(s))

Observe(o) ==
  /\ pc # "prior" /\ ticks < MaxTicks /\ readings < MaxReadings
  /\ pc' = "sensing" /\ readings' = readings + 1
  /\ Both(LAMBDA s : Observes(s, o))
  /\ UNCHANGED <<prior, replica, post, ticks, acts>>

\* The update after sensing ends the tick, and the recording takes what changed.
Settle(c) ==
  /\ pc # "prior" /\ ticks < MaxTicks
  /\ pc' = "between" /\ ticks' = ticks + 1 /\ post' = c
  /\ replica' = ApplyCellDelta(replica, CellDelta(run.belief))
  /\ Both(LAMBDA s : Updates([s EXCEPT !.belief = Taken(@)], c))
  /\ UNCHANGED <<prior, readings, acts>>

\* A snapshot is taken and restored in a fresh run, which goes on beside the first.
Fork ==
  /\ pc = "between" /\ ticks > 0 /\ twin = {} /\ ~SnapshotRefused(run)
  /\ twin' = {Restored(run, prior)}
  /\ UNCHANGED <<run, prior, replica, post, pc, ticks, readings, acts>>

Next ==
  \/ \E c \in Cells : Know(c)
  \/ Assemble
  \/ \E c \in {o.cell : o \in Readings} : Bump(c)
  \/ \E c \in UNION AllGroups(run.layer) : Mark(c) \/ MarkForNow(c)
  \/ EndIteration
  \/ Read
  \/ \E o \in Readings : Observe(o)
  \/ \E c \in Posts : Settle(c)
  \/ Fork

Spec == Init /\ [][Next]_vars
=============================================================================
