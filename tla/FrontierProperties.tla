------------------------- MODULE FrontierProperties -------------------------
(***************************************************************************)
(* What must hold of a chain of structures that are each kept from what    *)
(* changed in the one before: the view, the layer, the marks and the       *)
(* report that the frontiers are exhausted.                                *)
(***************************************************************************)
EXTENDS Frontiers

Services == {run} \cup twin

\* A view that was brought up to date, cell by cell or chunk by chunk, is the
\* view a new one would be: the inflation of two ways agrees, no cell next to a
\* change is forgotten, a log that was cut is not trusted (search-space.ts: "Equal
\* to a chunk rebuild").
ViewIsCurrent ==
  \A s \in Services : s.view.synced = s.belief.plan =>
    /\ s.view.open = {c \in Cells : Open(s.belief, c)}
    /\ s.view.pass = Passable(s.belief)
    /\ s.view.unknown = Unknown(s.belief)

\* A layer that was brought up to date has the flags and the counts a full scan
\* would give: what a change in one chunk does to the next one is not missed
\* (topology.ts: "its 4-neighbours only along the line of cells next to it").
LayerIsCurrentFor(s) ==
  s.layer.version = s.belief.plan =>
    /\ s.layer.flags = Frontier(s.belief)
    /\ \A k \in Chunks : s.layer.known[k] = KnownIn(s.belief, k) /\ s.layer.free[k] = FreeIn(s.belief, k)

LayerIsCurrent == \A s \in Services : LayerIsCurrentFor(s)

\* What a read answers from the memos of a current layer is what a layer built
\* now would answer: groups, waypoints, edges, and whether an unmarked frontier is
\* left (ADR-0039: "laziness is observationally pure").
ReadsAreFresh ==
  \A s \in Services : s.layer.version = s.belief.plan /\ s.view.synced = s.belief.plan =>
    LET new == [EmptyLayer EXCEPT !.flags = Frontier(s.belief), !.free = [k \in Chunks |-> FreeIn(s.belief, k)], !.stale = Regions]
    IN
    /\ \A r \in Regions : GroupsOfRegion(s.layer, r) = Grouped(new.flags, r)
    /\ \A r \in Regions : Waypoint(s.layer, s.belief, r) = WaypointOf(s.belief, new, r)
    /\ \A e \in Edges : EdgeClass(s.layer, s.belief, s.view, e) = Crossing(s.belief, s.view, e)
    /\ HasUnmarkedFrontier(s) <=> \E g \in AllGroups(new) : ~IsMarked(s.marks, g)

\* A mark that is there before an update is gone after it when the view has changed in
\* its chunk or around it in that update, and only then when the view is updated cell
\* by cell: marks that are made, cleared and made again never meet a change from before
\* them, and other changes of the belief leave them alone (assemble/topology.ts,
\* clearMarks: "never on other belief updates"). A profile with edge constraints counts
\* every changed chunk; chunk by chunk, what one chunk's rebuild changed and the next
\* one's changed back counts too.
MarksFollowTheView ==
  [][ticks' # ticks =>
       LET differing == Differing(run.view, run'.view) IN
       \A k \in Chunks : \A m \in {"marks", "temporary"} :
         LET before == run[m].cells \cap ChunkCells[k]
             after == run'[m].cells \cap ChunkCells[k]
             turned == Around[k] \cap differing # {}
         IN before # {} => /\ turned => after = {}
                           /\ after # before => turned \/ ~ByCells(run.view, run.belief)]_vars

\* At the end of a tick the service knows of a frontier just when there is one that
\* is not marked; it has told that they are exhausted otherwise, unless the agent
\* stands where its map is unknown (assemble/topology.ts, watchFrontiers).
ExhaustionIsTold ==
  \A s \in Services : pc = "between" =>
    LET left == \E g \in UNION {Grouped(Frontier(s.belief), r) : r \in Regions} : ~IsMarked(s.marks, g) IN
    /\ left => s.had = "yes"
    /\ s.had = "yes" /\ ~left => Class(s.belief, post) = "unknown"

\* A run restored from a snapshot goes on as the run the snapshot is of: same marks,
\* same candidates, same reports; and a snapshot between ticks is never refused.
RestoredRunGoesOn ==
  /\ pc = "between" => \A s \in Services : ~SnapshotRefused(s)
  /\ \A s \in twin : /\ s.marks.cells = run.marks.cells
                     /\ s.temporary.cells = run.temporary.cells
                     /\ Candidates(s) = Candidates(run)
                     /\ s.had = run.had

\* The map a replay rebuilds from the recorded deltas is the run's.
DeltasRebuildTheMap ==
  pc = "between" => replica.level = run.belief.level /\ replica.measured = run.belief.measured
=============================================================================
