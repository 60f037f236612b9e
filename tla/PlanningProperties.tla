------------------------- MODULE PlanningProperties -------------------------
(***************************************************************************)
(* What planning promises: its limits (PlanningConfig), the fresh answers  *)
(* of ADR-0024, and that caches and snapshots do not show                  *)
(* (packages/algorithms/src/planning/planning-service.ts).                 *)
(***************************************************************************)
EXTENDS PlanningTwins

Queries(x) == {service[x].queries[a] : a \in {b \in Agents : Active(service[x].queries[b])}}
Answers(x) == {service[x].out[i] : i \in DOMAIN service[x].out}

\* What the actions of a run can see of its planner.
Shown(x) ==
  [out |-> service[x].out, handed |-> service[x].handed, planning |-> {a \in Agents : Active(service[x].queries[a])}]

\* "Caches save wall time only ... results and completion ticks are identical
\* with caches on or off, any cache size" (class comment): unless a change
\* comes between what a cached search will read and what it has read, or a
\* coarse search ends with the last expansion of its slice.
CachesAreInvisible ==
  excused \cap {"ahead", "coarse"} = {} => Shown("cached") = Shown("cold")

\* "... and after a snapshot restore": unless, moreover, a strategy is restored
\* on a map that changed under what it had read.
RestoredGoesOn == excused = {} => ~thrown /\ Shown("restored") = Shown("cached")

\* Neither shows: two agents' actions are told the same, caches or not, restored or not.
TwinsShowTheSame == CachesAreInvisible /\ RestoredGoesOn

\* An answer is the answer of a cold run on the view as it is now, and costs
\* what that run costs and what the attempts before it have spent: a query that
\* continues over changes has not missed one that matters to it.
ColdRun(req, left) ==
  FoldLeft(LAMBDA done, i :
             LET next == NextSearch(req, done)
                 cap  == Least(next.budget, left - SumOf([j \in DOMAIN done |-> done[j].expansions]))
             IN  IF next = NoSpec THEN done
                 ELSE Append(done, IF cap <= 0 THEN Synthesized ELSE Run(map.content, next.spec, cap)),
           <<>>, [i \in 1..MaxSearches |-> i])
OutcomesAreCurrent ==
  \A x \in Services : \A o \in Answers(x) :
    LET cold == ColdRun(o.req, o.req.total - o.spent)
    IN  \/ o.status = "budget_exceeded" /\ o.charge = o.spent /\ o.spent >= o.req.total
        \/ o.status = Last(cold).status /\ o.charge = o.spent + SumOf([i \in DOMAIN cold |-> cold[i].expansions])

\* A leg that is handed out can be driven on the view as it is now.
LegsAreCurrent ==
  \A x \in Services, a \in Agents : \A i \in DOMAIN service[x].handed[a].legs :
    LET l == service[x].handed[a].legs[i] IN \A k \in l.from..l.to : map.content[k] # Wall

\* What the planner gives an action, whole paths and legs, holds on the view of
\* the tick in which it gives it.
AnswersAreCurrent == OutcomesAreCurrent /\ LegsAreCurrent

\* All the searches of a query together, of its attempts too, spend no more than
\* its total nor than its agent can compute in the ticks it has had, and what it
\* says they cost is what they spent, whatever it restarts, continues or takes
\* from a cache (and when it is restored, but for a strategy on a changed map).
Accounted(x) == x = "restored" => "replay" \notin excused
WithinBudget ==
  \A x \in Services : Accounted(x) =>
    /\ \A a \in Agents : LET q == service[x].queries[a] IN
         Active(q) => /\ q.work <= Least(q.req.total, PerTick[a] * q.age)
                      /\ q.spent + Charged(q) = q.work
    /\ \A o \in Answers(x) : o.charge = o.work /\ o.work <= Least(o.req.total, PerTick[o.agent] * o.age)

\* A query ends within the ticks its agent takes to compute its total, and one
\* more, however often its map changes (with the same exception).
QueryEndsInTime ==
  \A x \in Services, a \in Agents :
    LET q == service[x].queries[a] IN Active(q) /\ Accounted(x) => PerTick[a] * (q.age - 1) <= q.req.total

\* Budgets hold: what is spent is charged and bounded, and queries end in time.
BudgetHolds == WithinBudget /\ QueryEndsInTime
=============================================================================
