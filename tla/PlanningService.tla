-------------------------- MODULE PlanningService --------------------------
(***************************************************************************)
(* The planning service of a run                                           *)
(* (packages/algorithms/src/planning/planning-service.ts) with its         *)
(* searches (grid/grid-search.ts, hpa/hpa-query.ts), the strategies that   *)
(* choose them (planning/strategy/runner.ts) and what a snapshot keeps.    *)
(*                                                                         *)
(* A map is a row of chunks. The terrain of a chunk is the expansions it   *)
(* takes to cross it, a Wall cannot be crossed, and a search crosses the   *)
(* chunks from its start to its goal in turn: that is what tells a search  *)
(* that found a path from one that did not, what it cost and which chunks  *)
(* it read. Every agent plans on the same view. Operators take the record  *)
(* of a service, or of a query, and give it back changed.                  *)
(***************************************************************************)
EXTENDS Integers, Sequences, FiniteSets, SequencesExt, Folds

CONSTANTS
  Agents,        \* numbers: agents are advanced in the order of their ids
  Chunks,        \* the map is 1..Chunks
  PerTick,       \* onboardComputeExpansionsPerTick of an agent
  StageBudget,   \* the budget of the first stage of a fallback
  CacheSize      \* results the cache keeps

ASSUME PlanningAssumption ==
  /\ Agents \in SUBSET Nat /\ IsFiniteSet(Agents) /\ Chunks \in Nat
  /\ PerTick \in [Agents -> Nat \ {0}]
  /\ StageBudget \in Nat \ {0} /\ CacheSize \in Nat

Wall == 0
Max2(x, y) == IF x > y THEN x ELSE y
Least(x, y) == IF x < y THEN x ELSE y
Lowest(S) == CHOOSE k \in S : \A j \in S : k <= j
SumOf(s) == FoldLeft(+, 0, s)

(***************************************************************************)
(* A search                                                                *)
(***************************************************************************)
Grid(from, to) == [alg |-> "grid", coarse |-> FALSE, from |-> from, to |-> to]
Hpa(from, to)  == [alg |-> "hpa", coarse |-> FALSE, from |-> from, to |-> to]
Coarse(from, to) == [Hpa(from, to) EXCEPT !.coarse = TRUE]

Walls(m, spec) == {k \in spec.from..spec.to : m[k] = Wall}
LastRead(m, spec) == IF Walls(m, spec) = {} THEN spec.to ELSE Lowest(Walls(m, spec))
CostBefore(m, spec, k) == SumOf([i \in 1..(k - spec.from) |-> m[spec.from + i - 1]])
Length(m, spec) ==
  CostBefore(m, spec, IF Walls(m, spec) = {} THEN spec.to + 1 ELSE LastRead(m, spec))

\* The chunks read after n expansions (the start's from the beginning).
ReadAfter(m, spec, n) ==
  {k \in spec.from..LastRead(m, spec) : CostBefore(m, spec, k) <= n}

\* A search that ends has a result. It is late when its end is noticed one call
\* after an expansion that took the last of a call's budget: an engine notices
\* in time that it stands at the goal and nothing else, and an HPA* query that
\* looks for cells has to refine its path first.
SearchEnd(spec, status, n, reads) ==
  [status |-> status, expansions |-> n, reads |-> IF spec.alg = "hpa" THEN {} ELSE reads,
   late |-> status # "found" \/ (spec.alg = "hpa" /\ ~spec.coarse)]

\* What a cached result has for it.
NeedsExtraIteration(spec, status) == spec.alg = "hpa" \/ status # "found"

\* How a search over the terrain m ends, from a cold start.
Run(m, spec, cap) ==
  LET n == Least(Length(m, spec), cap)
      status == IF Length(m, spec) > cap THEN "budget_exceeded"
                ELSE IF Walls(m, spec) = {} THEN "found" ELSE "not_found"
  IN  SearchEnd(spec, status, n, ReadAfter(m, spec, n))

\* With nothing left to spend a search ends without an engine.
Synthesized == [status |-> "budget_exceeded", expansions |-> 0, reads |-> {}, late |-> FALSE]

(***************************************************************************)
(* The searches of a request                                               *)
(***************************************************************************)
\* kind: "grid" and "hpa" (one search), "gridThenGrid" and "gridThenHpa" (a
\* fallback: a grid search with a budget, then one with all that is left),
\* "refine" (a lazy refine: a coarse path, then one leg after the other).
Request(kind, from, to, total) == [kind |-> kind, from |-> from, to |-> to, total |-> total]

IsFallback(req) == req.kind \in {"gridThenGrid", "gridThenHpa"}
IsStrategy(req) == IsFallback(req) \/ req.kind = "refine"
Failed(done) == done # <<>> /\ Last(done).status # "found"
NoSpec == [spec |-> [alg |-> "none"], budget |-> 0]

\* The search that follows the completed ones, with its stage budget.
NextSearch(req, done) ==
  LET n == Len(done)
      Ask(spec) == [spec |-> spec, budget |-> req.total]
  IN  CASE req.kind = "grid" /\ n = 0 -> Ask(Grid(req.from, req.to))
        [] req.kind = "hpa" /\ n = 0 -> Ask(Hpa(req.from, req.to))
        [] IsFallback(req) /\ n = 0 -> [Ask(Grid(req.from, req.to)) EXCEPT !.budget = StageBudget]
        [] IsFallback(req) /\ n = 1 /\ Failed(done) ->
             Ask(IF req.kind = "gridThenHpa" THEN Hpa(req.from, req.to) ELSE Grid(req.from, req.to))
        [] req.kind = "refine" /\ n = 0 -> Ask(Coarse(req.from, req.to))
        [] req.kind = "refine" /\ n \in 1..(req.to - req.from) /\ ~Failed(done) ->
             Ask(Grid(req.from + n - 1, req.from + n))
        [] OTHER -> NoSpec

MaxSearches == Max2(2, Chunks)

(***************************************************************************)
(* A query and the service                                                 *)
(***************************************************************************)
NoHit    == [status |-> "none"]
NoSearch == [spec |-> NoSpec.spec, cap |-> 0, charged |-> 0, seen |-> <<>>, hit |-> NoHit]
NoCarry  == [chunks |-> {}, read |-> {}]
NoQuery  == [id |-> 0]
NoLegs   == [id |-> 0]
Nothing  == [legs |-> <<>>, status |-> "none"]

Active(q) == q # NoQuery
NewService(caching) ==
  [caching |-> caching, queries |-> [a \in Agents |-> NoQuery], legs |-> [a \in Agents |-> NoLegs],
   cache |-> <<>>, out |-> <<>>,
   handed |-> [a \in Agents |-> Nothing]]

\* A completed search, with the tick of the query in which it ended.
WithEnd(result, tick) ==
  [status |-> result.status, expansions |-> result.expansions, reads |-> result.reads, ended |-> tick]

CompletedCharge(q) == SumOf([i \in DOMAIN q.done |-> q.done[i].expansions])
Charged(q) == CompletedCharge(q) + q.search.charged

\* What a search goes by: a cached result, or the terrain as it read it and
\* the view where it has not been yet.
Terrain(s, map) == [k \in 1..Chunks |-> IF k \in DOMAIN s.seen THEN s.seen[k] ELSE map.content[k]]
Result(s, map) == IF s.hit # NoHit THEN s.hit ELSE Run(Terrain(s, map), s.spec, s.cap)

\* (A cached result counts with all that its search read.)
ReadOf(s) == IF s.hit # NoHit THEN s.hit.reads ELSE IF s.spec.alg = "grid" THEN DOMAIN s.seen ELSE {}
ReadByQuery(q) ==
  (UNION {q.done[i].reads : i \in DOMAIN q.done}) \cup ReadOf(q.search) \cup q.carry.read

\* The key of a result: the version of the view, the search and its cap.
Key(q, map, s) == <<IsStrategy(q.req), map.version, s.spec, s.cap>>
Cacheable(svc, q) == svc.caching /\ (IsStrategy(q.req) \/ q.spent = 0)
Lookup(svc, key) ==
  IF \E i \in DOMAIN svc.cache : svc.cache[i].key = key
  THEN svc.cache[CHOOSE i \in DOMAIN svc.cache : svc.cache[i].key = key].result
  ELSE NoHit

\* The seen terrain of an engine after n expansions: an HPA* query goes by
\* the graph as it was when it started.
SeenBy(m, spec, n) ==
  IF spec.alg = "hpa" THEN m ELSE [k \in ReadAfter(m, spec, n) |-> m[k]]

\* Starts the next search of the query: from the cache, or with an engine.
BeginSearch(svc, q, map) ==
  LET next == NextSearch(q.req, q.done)
      cap  == Least(next.budget, q.req.total - q.spent - CompletedCharge(q))
      cold == [spec |-> next.spec, cap |-> cap, charged |-> 0, hit |-> NoHit,
               seen |-> SeenBy(map.content, next.spec, 0)]
      hit  == IF cap <= 0 THEN Synthesized
              ELSE IF Cacheable(svc, q) THEN Lookup(svc, Key(q, map, cold)) ELSE NoHit
  IN  [q EXCEPT !.usedHpa = @ \/ next.spec.alg = "hpa",
                !.search = IF hit = NoHit THEN cold ELSE [cold EXCEPT !.seen = <<>>, !.hit = hit]]

\* One attempt of a query from its first search.
Attempt(svc, q, map) ==
  BeginSearch(svc, [q EXCEPT !.done = <<>>, !.search = NoSearch, !.usedHpa = FALSE, !.carry = NoCarry,
                             !.seen = map.version, !.seenGraph = map.version], map)

\* (`work` is history: what all its searches have spent.)
NewQuery(id, req) ==
  [id |-> id, req |-> req, age |-> 0, restarts |-> 0, continuations |-> 0, spent |-> 0, usedHpa |-> FALSE,
   seen |-> 0, seenGraph |-> 0, carry |-> NoCarry, done |-> <<>>, search |-> NoSearch, work |-> 0]
LegsOf(id) == [id |-> id, pending |-> <<>>, produced |-> 0, done |-> FALSE, status |-> "none"]

\* A new query replaces the agent's, and the legs it left behind.
Submitted(svc, a, id, req, map) ==
  [svc EXCEPT !.queries[a] = Attempt(svc, NewQuery(id, req), map),
              !.legs[a] = IF req.kind = "refine" THEN LegsOf(id) ELSE NoLegs]

Cancelled(svc, a) == [svc EXCEPT !.queries[a] = NoQuery, !.legs[a] = NoLegs]

(***************************************************************************)
(* The end of a query                                                      *)
(***************************************************************************)
Outcome(q, a, status, charge) ==
  [id |-> q.id, agent |-> a, req |-> q.req, status |-> status, charge |-> charge, spent |-> q.spent, age |-> q.age, work |-> q.work,
   restarts |-> q.restarts, continuations |-> q.continuations,
   trace |-> [i \in DOMAIN q.done |-> [expansions |-> q.done[i].expansions, ended |-> q.done[i].ended]]]

\* (`out` is what takeCompleted has for the adapter.)
Completed(svc, a, q, status, charge) ==
  [svc EXCEPT !.queries[a] = NoQuery,
              !.legs[a] = IF @ = NoLegs THEN @ ELSE [@ EXCEPT !.done = TRUE, !.status = status],
              !.out = Append(@, Outcome(q, a, status, charge))]

\* A lazy query of which a leg was handed out ends where it is.
Interrupted(svc, a) ==
  [svc EXCEPT !.queries[a] = NoQuery,
              !.legs[a] = [@ EXCEPT !.pending = <<>>, !.done = TRUE, !.status = "interrupted"]]

(***************************************************************************)
(* The slice of a query in a tick                                          *)
(***************************************************************************)
ChangedFor(q, map) == {k \in 1..Chunks : map.stamp[k] > q.seen} \cup q.carry.chunks
GraphMoved(q, map) == q.usedHpa /\ q.seenGraph # map.version

\* Whether the query depends on what has changed since its last slice.
\* (OnlyTheCurrent: the searches it has completed are forgotten.)
OnlyTheCurrent(q, map) ==
  GraphMoved(q, map) \/ ChangedFor(q, map) \cap (ReadOf(q.search) \cup q.carry.read) # {}
MustRestart(q, map) == GraphMoved(q, map) \/ ChangedFor(q, map) \cap ReadByQuery(q) # {}

Continued(q, map) ==
  [q EXCEPT !.seen = map.version, !.carry = NoCarry,
            !.seenGraph = IF q.usedHpa THEN map.version ELSE @,
            !.continuations = IF ChangedFor(q, map) # {} /\ ReadByQuery(q) # {} THEN @ + 1 ELSE @]

\* What a finished search leaves in the cache, under the view as it is now; the
\* oldest results are evicted.
Evicted(cache) == SubSeq(cache, Max2(1, Len(cache) - CacheSize + 1), Len(cache))

Stored(svc, q, map, result) ==
  LET key   == Key(q, map, q.search)
      entry == [key |-> key, result |-> [result EXCEPT !.late = NeedsExtraIteration(q.search.spec, result.status)]]
      put   == IF Lookup(svc, key) = NoHit THEN Append(svc.cache, entry)
               ELSE [i \in DOMAIN svc.cache |-> IF svc.cache[i].key = key THEN entry ELSE svc.cache[i]]
  IN  IF q.search.hit # NoHit \/ ~Cacheable(svc, q) THEN svc
      ELSE [svc EXCEPT !.cache = Evicted(put)]

\* A leg of a lazy refine is ready when its search has found it.
WithLeg(legs, q, result) ==
  IF q.req.kind = "refine" /\ q.done # <<>> /\ result.status = "found"
  THEN [legs EXCEPT !.pending = Append(@, [index |-> Len(q.done), from |-> q.search.spec.from, to |-> q.search.spec.to]),
                    !.produced = @ + 1]
  ELSE legs

\* What n expansions make of the query: its search goes on, or it has ended.
GoesOn(q, map, n) ==
  [q EXCEPT !.search.charged = n, !.work = @ + n - q.search.charged,
            !.search.seen = IF q.search.hit = NoHit THEN SeenBy(Terrain(q.search, map), q.search.spec, n) ELSE @]
HasEnded(q, result) ==
  [q EXCEPT !.done = Append(@, WithEnd(result, q.age)), !.search = NoSearch,
            !.work = @ + result.expansions - q.search.charged]

\* With a search the query ends, or it goes on to the next with what is left.
AfterSearch(t, a, svc, after, status, left) ==
  IF NextSearch(after.req, after.done) = NoSpec
  THEN [t EXCEPT !.q = NoQuery, !.on = FALSE,
                 !.svc = Completed(svc, a, after, status, after.spent + CompletedCharge(after))]
  ELSE [svc |-> svc, q |-> after, left |-> left, on |-> left > 0]

Spend(t, a, map, q, result, used) ==
  IF \/ q.search.charged + used < result.expansions
     \/ result.late /\ used >= t.left
  THEN [t EXCEPT !.q = GoesOn(q, map, q.search.charged + used), !.on = FALSE]
  ELSE AfterSearch(t, a, [Stored(t.svc, q, map, result) EXCEPT !.legs[a] = WithLeg(@, q, result)],
                   HasEnded(q, result), result.status, t.left - used)

\* One turn of a slice with `left` to spend: the next search begins if there is
\* none, and spends.
InSearch(t, a, map, q, result) ==
  Spend(t, a, map, q, result, Least(t.left, result.expansions - q.search.charged))
WithSearch(t, a, map, q) == InSearch(t, a, map, q, Result(q.search, map))
Turn(t, a, map) ==
  WithSearch(t, a, map, IF t.q.search = NoSearch THEN BeginSearch(t.svc, t.q, map) ELSE t.q)

Slice(svc, a, q, map) ==
  LET t == FoldLeft(LAMBDA u, i : IF u.on THEN Turn(u, a, map) ELSE u,
                    [svc |-> svc, q |-> q, left |-> PerTick[a], on |-> TRUE],
                    [i \in 1..MaxSearches |-> i])
  IN  [t.svc EXCEPT !.queries[a] = t.q]

\* (ChargeForgotten: a restart gives the query its whole budget again.)
ChargeForgotten(q) == [q EXCEPT !.restarts = @ + 1]
Again(q) == [q EXCEPT !.restarts = @ + 1, !.spent = @ + Charged(q)]

HandedOut(svc, a) == svc.legs[a] # NoLegs /\ svc.legs[a].produced > 0

\* The planning phase for one agent: the check of what changed, and the slice.
Advance(svc, a, map) ==
  LET q     == [svc.queries[a] EXCEPT !.age = @ + 1]
      again == Again(q)
  IN  IF ~Active(svc.queries[a]) THEN svc
      ELSE IF ~MustRestart(q, map) THEN Slice(svc, a, Continued(q, map), map)
      ELSE IF HandedOut(svc, a) THEN Interrupted(svc, a)
      ELSE IF again.spent >= q.req.total
           THEN Completed(svc, a, again, "budget_exceeded", again.spent)
      ELSE Slice(svc, a, Attempt(svc, again, map), map)

Ticked(svc, map) ==
  MapThenFoldSet(LAMBDA a, s : Advance(s, a, map), svc, LAMBDA a : a,
                 LAMBDA S : CHOOSE a \in S : \A b \in S : b <= a, Agents)

\* The action takes the legs that are ready (`handed` is what it got in this
\* tick); with the last of them the record is forgotten.
LegsTaken(svc) ==
  LET l == svc.legs
  IN  [svc EXCEPT
         !.handed = [a \in Agents |-> IF l[a] = NoLegs THEN Nothing ELSE [legs |-> l[a].pending, status |-> l[a].status]],
         !.legs = [a \in Agents |-> IF l[a] = NoLegs THEN NoLegs ELSE IF l[a].done THEN NoLegs
                                    ELSE [l[a] EXCEPT !.pending = <<>>]]]

\* The outcomes are taken in the tick they come.
Emptied(svc) == [svc EXCEPT !.out = <<>>, !.handed = [a \in Agents |-> Nothing]]

(***************************************************************************)
(* Snapshot and restore                                                    *)
(***************************************************************************)
\* The completed searches are run again, on the map as it is.
Replayed(q, map) ==
  FoldLeft(LAMBDA r, i : LET b == BeginSearch(NewService(FALSE), r, map)
                         IN  IF NextSearch(r.req, r.done) = NoSpec THEN r
                             ELSE [b EXCEPT !.done = Append(@, WithEnd(Result(b.search, map), q.done[i].ended)),
                                           !.search = NoSearch],
           [q EXCEPT !.done = <<>>, !.search = NoSearch, !.usedHpa = FALSE], [i \in DOMAIN q.done |-> i])

\* The restore throws if one of them does not cost what it cost, or if another
\* search follows them than the one that was in progress.
Reproduces(q, map) ==
  LET r == Replayed(q, map)
      legs(d) == {i \in DOMAIN d : q.req.kind = "refine" /\ i > 1 /\ d[i].status = "found"}
  IN  /\ Len(r.done) = Len(q.done)
      /\ \A i \in DOMAIN q.done : r.done[i].expansions = q.done[i].expansions
      /\ q.search # NoSearch => NextSearch(r.req, r.done) # NoSpec
      /\ legs(r.done) = legs(q.done)

\* The change a query has not examined goes with the snapshot, with what it has
\* read. (ChangeDropped: it does not.)
ChangeDropped(q, map) == NoCarry
Carried(q, map) ==
  LET chunks == ChangedFor(q, map)
  IN  IF chunks = {} THEN NoCarry
      ELSE [chunks |-> chunks, read |-> IF q.carry # NoCarry THEN q.carry.read ELSE ReadByQuery(q)]

\* The search in progress is run again to what it had been charged.
QueryRestored(q, map) ==
  LET before == Replayed(q, map)
      r      == BeginSearch(NewService(FALSE), before, map)
      n      == Least(q.search.charged, Result(r.search, map).expansions)
      rerun  == [r EXCEPT !.search.charged = IF IsStrategy(q.req) THEN n ELSE q.search.charged,
                          !.search.seen = IF r.search.hit = NoHit THEN SeenBy(map.content, r.search.spec, n) ELSE @]
  IN  [(IF q.search = NoSearch THEN before ELSE rerun)
       EXCEPT !.seen = map.version,
              !.seenGraph = IF q.seenGraph # map.version THEN -1 ELSE map.version,
              !.carry = Carried(q, map)]

Restorable(svc, map) == \A a \in Agents : Active(svc.queries[a]) => Reproduces(svc.queries[a], map)
Restored(svc, map) ==
  [NewService(svc.caching) EXCEPT
     !.queries = [a \in Agents |-> IF Active(svc.queries[a]) THEN QueryRestored(svc.queries[a], map) ELSE NoQuery],
     !.legs = [a \in Agents |-> IF Active(svc.queries[a]) THEN svc.legs[a] ELSE NoLegs]]
=============================================================================
