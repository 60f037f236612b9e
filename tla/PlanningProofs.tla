--------------------------- MODULE PlanningProofs ---------------------------
(***************************************************************************)
(* Proofs about the planning service, for every map, request, budget,      *)
(* agent, cache and restore: a query that has missed no change has done    *)
(* what a cold run on the map as it is would have, or it is going to be    *)
(* restarted (`QueryOK`); a slice, turn by turn, keeps that and what was   *)
(* paid (`TurnOK`); so outcomes and legs are those of the map they are     *)
(* handed over on, and budgets hold. First what a search is: what it reads *)
(* decides how it ends (`SameRun`), and a list of completed searches is    *)
(* known by the map (`ColdUnique`). Last the services side by side: two    *)
(* whose queries have done the same work and are told of the same changes  *)
(* (`SameQuery`) stay so, turn by turn, but for what is excused            *)
(* (`TwinInv`), so the actions are told the same by each.                  *)
(***************************************************************************)
EXTENDS PlanningProperties, SequenceFolds

(***************************************************************************)
(* Types                                                                   *)
(***************************************************************************)
Row      == 1..Chunks
Content  == [Row -> Nat]
MapState == [content : Content, version : Nat, stamp : [Row -> Nat]]
Kinds    == {"grid", "hpa", "gridThenGrid", "gridThenHpa", "refine"}
Statuses == {"found", "not_found", "budget_exceeded"}

RequestState ==
  {r \in [kind : Kinds, from : Row, to : Row, total : Nat] : r.from <= r.to /\ (r.kind = "refine" => r.from < r.to)}
SpecState    == {s \in [alg : {"grid", "hpa"}, coarse : BOOLEAN, from : Row, to : Row] : s.from <= s.to}
EndState     == [status : Statuses, expansions : Nat, reads : SUBSET Row, late : BOOLEAN]
DoneState    == [status : Statuses, expansions : Nat, reads : SUBSET Row, ended : Nat]
SeenState    == UNION {[S -> Nat] : S \in SUBSET Row}
SearchState  == [spec : SpecState, cap : Int, charged : Nat, hit : EndState \cup {NoHit}, seen : SeenState]
CarryState   == [chunks : SUBSET Row, read : SUBSET Row]

QueryState ==
  [id : Nat \ {0}, req : RequestState, age : Nat, restarts : Nat, continuations : Nat, spent : Nat,
   usedHpa : BOOLEAN, seen : Int, seenGraph : Int, carry : CarryState, done : Seq(DoneState),
   search : SearchState \cup {NoSearch}, work : Int]

LegStatuses == Statuses \cup {"none", "interrupted"}
Leg         == [index : Nat, from : Row, to : Row]
LegState    == [id : Nat, pending : Seq(Leg), produced : Nat, done : BOOLEAN, status : LegStatuses]
HandedState == [legs : Seq(Leg), status : LegStatuses]
OutcomeState ==
  [id : Nat, agent : Agents, req : RequestState, status : Statuses, charge : Int, spent : Nat, age : Nat,
   work : Int, restarts : Nat, continuations : Nat, trace : Seq([expansions : Nat, ended : Nat])]
KeyState    == BOOLEAN \X Nat \X SpecState \X Int
CacheState  == [key : KeyState, result : EndState]

ServiceState ==
  [caching : BOOLEAN, queries : [Agents -> QueryState \cup {NoQuery}], legs : [Agents -> LegState \cup {NoLegs}],
   cache : Seq(CacheState), out : Seq(OutcomeState), handed : [Agents -> HandedState]]

(***************************************************************************)
(* What a query has to be, on the map as it is                             *)
(***************************************************************************)
SameEnd(d, e) == d.status = e.status /\ d.expansions = e.expansions /\ d.reads = e.reads
Costs(done) == SumOf([i \in DOMAIN done |-> done[i].expansions])
CapOf(req, left, done) == Least(NextSearch(req, done).budget, left - Costs(done))

\* How the search that follows the completed ones ends from a cold start, with `left` for all.
ColdEnd(req, left, done, m) ==
  IF CapOf(req, left, done) <= 0 THEN Synthesized
  ELSE Run(m, NextSearch(req, done).spec, CapOf(req, left, done))
ColdDone(req, left, done, m) ==
  \A i \in 1..Len(done) : LET d == SubSeq(done, 1, i - 1) IN
    NextSearch(req, d) # NoSpec /\ SameEnd(done[i], ColdEnd(req, left, d, m))

Left(q) == q.req.total - q.spent
SearchFits(q, m) ==
  LET s == q.search
      cap == CapOf(q.req, Left(q), q.done)
      cold == ColdEnd(q.req, Left(q), q.done, m)
  IN  /\ s \in SearchState /\ s.spec = NextSearch(q.req, q.done).spec /\ s.cap = cap
      /\ s.charged <= cold.expansions
      /\ s.hit = NoHit => cap > 0 /\ s.seen = SeenBy(m, s.spec, s.charged)
      /\ s.hit # NoHit => /\ SameEnd(s.hit, cold) /\ s.seen = <<>>
                          /\ s.hit.late = (cap > 0 /\ NeedsExtraIteration(s.spec, s.hit.status))
Current(q, m) ==
  /\ NextSearch(q.req, q.done) # NoSpec
  /\ ColdDone(q.req, Left(q), q.done, m)
  /\ q.search # NoSearch => SearchFits(q, m)

\* A change it must not miss.
Stale(q, view) ==
  \/ GraphMoved(q, view)
  \/ ChangedFor(q, view) \cap (IF q.carry = NoCarry THEN ReadByQuery(q) ELSE q.carry.read) # {}

\* A query has used the graph when an HPA* search of it has begun.
HpaAt(req, n) == \/ req.kind = "hpa" /\ n = 0
                 \/ req.kind = "gridThenHpa" /\ n = 1
                 \/ req.kind = "refine" /\ n = 0
Begun(q) == Len(q.done) + (IF q.search = NoSearch THEN 0 ELSE 1)

UsedOK(q) == q.usedHpa <=> \E n \in Nat : n < Begun(q) /\ HpaAt(q.req, n)

QueryOK(q, view) ==
  /\ q \in QueryState
  /\ q.seen <= view.version /\ q.seenGraph <= view.version /\ UsedOK(q)
  /\ Stale(q, view) \/ Current(q, view.content)

\* ... and in its slice, when it has examined what changed.
QueryNow(q, view) ==
  /\ q \in QueryState
  /\ q.seen <= view.version /\ q.seenGraph <= view.version /\ UsedOK(q)
  /\ q.carry = NoCarry /\ Current(q, view.content)

\* What it has spent, with `left` still to spend in this tick.
PaidBut(q, a, left) ==
  q.spent + Charged(q) = q.work /\ q.work <= q.req.total /\ q.work + left = PerTick[a] * q.age
BudgetOK(q, a) == PaidBut(q, a, 0)

\* An outcome is right on the map as it is, and says what was spent.
OutcomeOK(o, m) ==
  \/ o.status = "budget_exceeded" /\ o.charge = o.spent /\ o.spent >= o.req.total
  \/ \E d \in Seq(DoneState) :
       /\ d # <<>> /\ NextSearch(o.req, d) = NoSpec /\ ColdDone(o.req, o.req.total - o.spent, d, m)
       /\ o.status = Last(d).status /\ o.charge = o.spent + Costs(d)
OutcomePaid(o) == o.charge = o.work /\ o.work <= Least(o.req.total, PerTick[o.agent] * o.age)
CacheOK(cache, view) ==
  \A i \in DOMAIN cache : LET e == cache[i] IN
    /\ e.key[2] <= view.version
    /\ e.key[2] = view.version => /\ e.key[4] > 0 /\ SameEnd(e.result, Run(view.content, e.key[3], e.key[4]))
                                 /\ e.result.late = NeedsExtraIteration(e.key[3], e.result.status)
OutsOK(out, m, paid) == \A i \in DOMAIN out : OutcomeOK(out[i], m) /\ (paid => OutcomePaid(out[i]))
LegOK(l, m) == \A k \in l.from..l.to : m[k] # Wall
LegsFor(l, q) ==
  Active(q) => (l # NoLegs => ~l.done) /\ (q.req.kind = "refine" => l # NoLegs)
LegsOK(svc, a) == LegsFor(svc.legs[a], svc.queries[a])
PendingOK(l, m) == l # NoLegs => \A i \in DOMAIN l.pending : LegOK(l.pending[i], m)

MapOK(x) == x \in MapState /\ \A k \in Row : x.stamp[k] <= x.version

\* The slice of an agent: the service, next to what it was when the slice began.
SliceOK(svc, a, view, base, paid) ==
  /\ svc \in ServiceState /\ CacheOK(svc.cache, view) /\ OutsOK(svc.out, view.content, paid)
  /\ PendingOK(svc.legs[a], view.content)
  /\ svc.caching = base.caching /\ svc.handed = base.handed
  /\ \A b \in Agents \ {a} : svc.queries[b] = base.queries[b] /\ svc.legs[b] = base.legs[b]

\* A slice that goes on after n turns has completed as many searches.
TurnState == [svc : ServiceState, q : QueryState \cup {NoQuery}, left : Int, on : BOOLEAN]
TurnOK(t, a, view, base, paid, n) ==
  /\ t \in TurnState /\ SliceOK(t.svc, a, view, base, paid) /\ LegsFor(t.svc.legs[a], t.q)
  /\ Active(t.q) => QueryNow(t.q, view) /\ (paid => PaidBut(t.q, a, IF t.on THEN t.left ELSE 0))
  /\ t.on => Active(t.q) /\ t.left > 0 /\ Len(t.q.done) >= n

\* A service between its operations.
AgentOK(svc, a, view, paid) ==
  /\ LET q == svc.queries[a] IN Active(q) => QueryOK(q, view) /\ (paid => BudgetOK(q, a))
  /\ LegsOK(svc, a) /\ PendingOK(svc.legs[a], view.content)
ServiceOK(svc, view, paid) ==
  /\ svc \in ServiceState /\ CacheOK(svc.cache, view) /\ OutsOK(svc.out, view.content, paid)
  /\ \A a \in Agents : AgentOK(svc, a, view, paid)

\* What the actions have got.
HandedOK(h, m) == \A i \in DOMAIN h.legs : LegOK(h.legs[i], m)

\* Between a plan and the next.
PlannedOK(svc, view, paid) ==
  /\ ServiceOK(svc, view, paid)
  /\ \A a \in Agents : /\ svc.legs[a] # NoLegs => svc.legs[a].pending = <<>>
                       /\ HandedOK(svc.handed[a], view.content)
Examined(svc) == \A a \in Agents : Active(svc.queries[a]) => svc.queries[a].carry = NoCarry
Quiet(svc)    == svc.out = <<>> /\ \A a \in Agents : svc.handed[a] = Nothing

PlanInv ==
  /\ MapOK(map) /\ phase \in {"plan", "act"} /\ nextQuery \in Nat \ {0} /\ restores \in Nat
  /\ DOMAIN service = Services
  /\ \A x \in Services : /\ PlannedOK(service[x], map, Accounted(x))
                         /\ phase = "act" => Examined(service[x])
                         /\ phase = "plan" => Quiet(service[x])

(***************************************************************************)
(* Sums                                                                    *)
(***************************************************************************)
\* A sum, number by number.
SumBy(H, n, s) == H \in [0..n -> Int] /\ H[0] = 0 /\ \A i \in 1..n : H[i] = H[i - 1] + s[i]

LEMMA SumSteps ==
  ASSUME NEW n \in Nat, NEW s \in [1..n -> Int]
  PROVE  \E H : SumBy(H, n, s) /\ SumOf(s) = H[n]
<1> DEFINE V == Int
           F == [i \in 1..n |-> [v \in V |-> v + s[i]]]
           Rec(it) == it = [t \in SUBSET DOMAIN s |-> IF t = {} THEN 0 ELSE it[t \ {Max(t)}] + s[Max(t)]]
           g == CHOOSE it : Rec(it)
<1>1. DOMAIN s = 1..n
  OBVIOUS
<1>2. F \in [1..n -> [V -> V]] /\ 0 \in V /\ \A i \in 1..n, v \in V : F[i][v] = v + s[i]
  OBVIOUS
<1> HIDE DEF F, V
<1>3. ASSUME NEW t \in SUBSET (1..n), t # {}
      PROVE  Max(t) \in 1..n /\ t \ {Max(t)} \in SUBSET (1..n)
  BY <1>3, GreatestIndex
<1>4. PICK it \in [SUBSET (1..n) -> V] : SolvesFold(it, n, V, 0, F)
  BY <1>2, FoldExists
<1>5. Rec(it)
  <2>1. ASSUME NEW t \in SUBSET (1..n), t # {} PROVE it[t] = it[t \ {Max(t)}] + s[Max(t)]
    BY <1>2, <1>3, <1>4, <2>1 DEF SolvesFold
  <2>2. it[{}] = 0
    BY <1>4 DEF SolvesFold
  <2> QED BY <1>1, <2>1, <2>2
<1>6. Rec(g)
  BY <1>5
<1>7. SolvesFold(g, n, V, 0, F)
  <2> HIDE DEF g
  <2>1. ASSUME NEW t \in SUBSET (1..n), t # {}, g[t \ {Max(t)}] \in V
        PROVE  g[t] = F[Max(t)][g[t \ {Max(t)}]]
    BY <1>1, <1>2, <1>3, <1>6, <2>1
  <2>2. g[{}] = 0
    BY <1>1, <1>6
  <2> QED BY <2>1, <2>2 DEF SolvesFold
<1>8. SumOf(s) = FoldValue(g, n)
  BY <1>1 DEF FoldValue, SumOf, FoldLeft, MapThenFoldSet
<1> HIDE DEF g
<1>9. PICK H : StepsOf(H, n, V, 0, F) /\ H[n] = FoldValue(g, n)
  BY <1>2, <1>7, FoldSteps
<1>10. SumBy(H, n, s)
  <2>1. /\ H \in [0..n -> V] /\ H[0] = 0 /\ \A i \in 1..n : H[i] = F[i][H[i - 1]]
    BY <1>9 DEF StepsOf
  <2>2. \A i \in 1..n : H[i - 1] \in V
    BY <2>1
  <2>3. \A i \in 1..n : H[i] = H[i - 1] + s[i]
    BY <1>2, <2>1, <2>2
  <2> QED BY <2>1, <2>3 DEF SumBy, V
<1> QED BY <1>8, <1>9, <1>10

\* Sums of numbers that agree are equal.
LEMMA SumsAgree ==
  ASSUME NEW n \in Nat, NEW s, NEW t, NEW G, NEW H, SumBy(G, n, s), NEW m \in Nat, SumBy(H, m, t), n <= m,
         \A i \in 1..n : s[i] = t[i]
  PROVE  \A i \in 0..n : G[i] = H[i]
<1> DEFINE T == {i \in 0..n : G[i] = H[i]}
<1>1. 0 \in T
  BY DEF SumBy
<1>2. ASSUME NEW i \in 0..n, i \in T, i < n PROVE i + 1 \in T
  <2>1. i + 1 \in 1..n /\ i + 1 \in 1..m /\ (i + 1) - 1 = i
    BY <1>2
  <2> QED BY <1>2, <2>1 DEF SumBy
<1>3. 0..n \subseteq T
  <2> HIDE DEF T
  <2> QED BY <1>1, <1>2, AllIndices
<1> QED BY <1>3

\* The sum of no number, of one more, and of numbers that are not negative.
LEMMA SumOne ==
  ASSUME NEW n \in Nat, NEW s \in [1..n -> Int], NEW t \in [1..(n + 1) -> Int], \A i \in 1..n : t[i] = s[i]
  PROVE  SumOf(t) = SumOf(s) + t[n + 1]
<1>1. PICK G : SumBy(G, n, s) /\ SumOf(s) = G[n]
  BY SumSteps
<1>2. PICK H : SumBy(H, n + 1, t) /\ SumOf(t) = H[n + 1]
  BY SumSteps
<1>3. \A i \in 0..n : G[i] = H[i]
  BY <1>1, <1>2, SumsAgree
<1>4. n + 1 \in 1..(n + 1) /\ (n + 1) - 1 = n /\ n \in 0..n
  OBVIOUS
<1> QED BY <1>1, <1>2, <1>3, <1>4 DEF SumBy

LEMMA SumNone ==
  ASSUME NEW s \in [1..0 -> Int] PROVE SumOf(s) = 0
<1>1. PICK G : SumBy(G, 0, s) /\ SumOf(s) = G[0]
  BY SumSteps
<1> QED BY <1>1 DEF SumBy

LEMMA SumType ==
  ASSUME NEW n \in Nat, NEW s \in [1..n -> Nat] PROVE SumOf(s) \in Nat
<1>1. PICK H : SumBy(H, n, s) /\ SumOf(s) = H[n]
  BY SumSteps
<1> DEFINE T == {i \in 0..n : H[i] \in Nat}
<1>2. 0 \in T
  BY <1>1 DEF SumBy
<1>3. ASSUME NEW i \in 0..n, i \in T, i < n PROVE i + 1 \in T
  <2>1. i + 1 \in 1..n /\ (i + 1) - 1 = i
    BY <1>3
  <2> QED BY <1>1, <1>3, <2>1 DEF SumBy
<1>4. 0..n \subseteq T
  <2> HIDE DEF T
  <2> QED BY <1>2, <1>3, AllIndices
<1> QED BY <1>1, <1>4

\* The costs of the completed searches.
LEMMA CostsType ==
  ASSUME NEW done \in Seq(DoneState) PROVE Costs(done) \in Nat
<1> DEFINE s == [i \in DOMAIN done |-> done[i].expansions]
<1>1. Len(done) \in Nat /\ s \in [1..Len(done) -> Nat]
  <2>1. DOMAIN done = 1..Len(done) /\ Len(done) \in Nat /\ \A i \in 1..Len(done) : done[i] \in DoneState
    OBVIOUS
  <2>2. \A i \in 1..Len(done) : done[i].expansions \in Nat
    BY <2>1 DEF DoneState
  <2> QED BY <2>1, <2>2
<1> HIDE DEF s
<1>2. SumOf(s) \in Nat
  BY <1>1, SumType
<1> QED BY <1>2 DEF Costs, s

\* Whatever they are records of.
Costly(D) == \A x \in D : x.expansions \in Nat

LEMMA CostsNone ==
  ASSUME NEW done, done = <<>> PROVE Costs(done) = 0
<1> DEFINE s == [i \in DOMAIN done |-> done[i].expansions]
<1>1. s \in [1..0 -> Int]
  OBVIOUS
<1> HIDE DEF s
<1>2. SumOf(s) = 0
  BY <1>1, SumNone
<1> QED BY <1>2 DEF Costs, s

LEMMA CostsOne ==
  ASSUME NEW D, Costly(D), NEW done \in Seq(D), NEW x \in D
  PROVE  Costs(Append(done, x)) = Costs(done) + x.expansions
<1> DEFINE n == Len(done)
           more == Append(done, x)
           s == [i \in DOMAIN done |-> done[i].expansions]
           t == [i \in DOMAIN more |-> more[i].expansions]
<1>1. n \in Nat /\ more \in Seq(D) /\ Len(more) = n + 1 /\ more[n + 1] = x /\ \A j \in 1..n : more[j] = done[j]
  BY AppendedOne
<1>2. DOMAIN done = 1..n /\ DOMAIN more = 1..(n + 1)
  BY <1>1
<1> HIDE DEF more, n
<1>3. s \in [1..n -> Int] /\ \A i \in 1..n : s[i] = done[i].expansions
  <2>1. \A i \in 1..n : done[i].expansions \in Int
    <3>1. \A i \in 1..n : done[i] \in D
      BY DEF n
    <3> QED BY <3>1 DEF Costly
  <2> QED BY <1>2, <2>1
<1>4. t \in [1..(n + 1) -> Int] /\ \A i \in 1..(n + 1) : t[i] = more[i].expansions
  <2>1. \A i \in 1..(n + 1) : more[i].expansions \in Int
    BY <1>1, <1>2 DEF Costly
  <2> QED BY <1>2, <2>1
<1>5. \A i \in 1..n : t[i] = s[i] /\ i \in 1..(n + 1)
  BY <1>1, <1>3, <1>4
<1>6. t[n + 1] = x.expansions
  BY <1>1, <1>4
<1> HIDE DEF s, t
<1>7. SumOf(t) = SumOf(s) + t[n + 1]
  BY <1>1, <1>3, <1>4, <1>5, SumOne
<1> QED BY <1>6, <1>7 DEF Costs, s, t, more

LEMMA CostsAgree ==
  ASSUME NEW c, NEW d, DOMAIN c = DOMAIN d, \A i \in DOMAIN c : c[i].expansions = d[i].expansions
  PROVE  Costs(c) = Costs(d)
<1>1. [i \in DOMAIN c |-> c[i].expansions] = [i \in DOMAIN d |-> d[i].expansions]
  OBVIOUS
<1> QED BY <1>1 DEF Costs

(***************************************************************************)
(* A search from a cold start                                              *)
(***************************************************************************)
LEMMA SpecFacts ==
  ASSUME NEW spec \in SpecState
  PROVE  /\ spec.from \in Nat /\ spec.to \in Nat /\ spec.from <= spec.to /\ spec.alg \in {"grid", "hpa"}
         /\ \A k \in spec.from..spec.to : k \in Row /\ k \in Nat
<1>1. spec.from \in 1..Chunks /\ spec.to \in 1..Chunks /\ spec.from <= spec.to /\ spec.alg \in {"grid", "hpa"}
  BY DEF SpecState, Row
<1> QED BY <1>1, PlanningAssumption DEF Row

\* What it costs to come before a chunk.
LEMMA CostSteps ==
  ASSUME NEW m \in Content, NEW spec \in SpecState
  PROVE  /\ CostBefore(m, spec, spec.from) = 0
         /\ \A k \in spec.from..(spec.to + 1) : CostBefore(m, spec, k) \in Nat
         /\ \A k \in spec.from..spec.to : CostBefore(m, spec, k + 1) = CostBefore(m, spec, k) + m[k]
<1> DEFINE f == spec.from
           s(k) == [i \in 1..(k - f) |-> m[f + i - 1]]
<1>0. f \in Nat /\ spec.to \in Nat /\ \A k \in f..spec.to : k \in Row
  BY SpecFacts
<1>1. \A k \in Row : m[k] \in Nat
  BY DEF Content
<1> HIDE DEF f
<1>2. ASSUME NEW k \in f..(spec.to + 1) PROVE k - f \in Nat /\ s(k) \in [1..(k - f) -> Nat]
  <2>1. \A i \in 1..(k - f) : f + i - 1 \in f..spec.to
    BY <1>0
  <2>2. \A i \in 1..(k - f) : m[f + i - 1] \in Nat
    BY <1>0, <1>1, <2>1
  <2> QED BY <1>0, <2>2
<1>3. ASSUME NEW k \in f..(spec.to + 1) PROVE CostBefore(m, spec, k) \in Nat
  <2>1. SumOf(s(k)) \in Nat
    <3> DEFINE t == s(k)
               n == k - f
    <3>1. n \in Nat /\ t \in [1..n -> Nat]
      BY <1>2
    <3> HIDE DEF t, n
    <3>2. SumOf(t) \in Nat
      BY <3>1, SumType
    <3> QED BY <3>2 DEF t
  <2> QED BY <2>1 DEF CostBefore, f
<1>4. ASSUME NEW k \in f..spec.to PROVE CostBefore(m, spec, k + 1) = CostBefore(m, spec, k) + m[k]
  <2> DEFINE t == s(k)
             u == s(k + 1)
             n == k - f
  <2>1. k \in Int /\ k + 1 \in f..(spec.to + 1) /\ k \in f..(spec.to + 1) /\ (k + 1) - f = n + 1
    BY <1>0
  <2>2. n \in Nat /\ t \in [1..n -> Nat] /\ u \in [1..(n + 1) -> Nat]
    BY <1>2, <2>1
  <2>3. \A i \in 1..n : u[i] = t[i]
    <3>1. \A i \in 1..n : i \in 1..((k + 1) - f) /\ i \in 1..(k - f)
      BY <1>0, <2>1
    <3> HIDE DEF n
    <3> QED BY <3>1
  <2>4. u[n + 1] = m[k]
    BY <1>0, <2>1
  <2> HIDE DEF t, u, n
  <2>5. t \in [1..n -> Int] /\ u \in [1..(n + 1) -> Int]
    BY <2>2
  <2>6. SumOf(u) = SumOf(t) + u[n + 1]
    BY <2>2, <2>3, <2>5, SumOne
  <2> QED BY <2>4, <2>6 DEF CostBefore, f, t, u
<1>5. CostBefore(m, spec, f) = 0
  <2> DEFINE t == s(f)
  <2>1. t \in [1..0 -> Int]
    <3>1. f - f = 0
      BY <1>0
    <3> QED BY <3>1
  <2> HIDE DEF t
  <2>2. SumOf(t) = 0
    BY <2>1, SumNone
  <2> QED BY <2>2 DEF CostBefore, f, t
<1> QED BY <1>3, <1>4, <1>5 DEF f

\* It does not get less further on.
LEMMA CostGrows ==
  ASSUME NEW m \in Content, NEW spec \in SpecState, NEW k \in spec.from..(spec.to + 1), NEW l \in k..(spec.to + 1)
  PROVE  CostBefore(m, spec, k) <= CostBefore(m, spec, l)
<1> DEFINE n == spec.to + 1 - k
           T == {i \in 0..n : CostBefore(m, spec, k) <= CostBefore(m, spec, k + i)}
<1>0. spec.from \in Nat /\ spec.to \in Nat /\ k \in Nat /\ l \in Nat /\ n \in Nat
      /\ \A j \in spec.from..spec.to : j \in Row
  BY SpecFacts
<1>1. 0 \in T
  BY <1>0, CostSteps
<1>2. ASSUME NEW i \in 0..n, i \in T, i < n PROVE i + 1 \in T
  <2>1. k + i \in spec.from..spec.to /\ k + i \in spec.from..(spec.to + 1) /\ k + (i + 1) = (k + i) + 1 /\ i + 1 \in 0..n
    BY <1>0, <1>2
  <2>2. m[k + i] \in Nat
    BY <1>0, <2>1 DEF Content
  <2>3. CostBefore(m, spec, k + (i + 1)) = CostBefore(m, spec, k + i) + m[k + i]
    BY <2>1, CostSteps
  <2>4. CostBefore(m, spec, k) \in Nat /\ CostBefore(m, spec, k + i) \in Nat
    BY <2>1, CostSteps
  <2> QED BY <1>2, <2>1, <2>2, <2>3, <2>4
<1> HIDE DEF n
<1>3. 0..n \subseteq T
  <2> HIDE DEF T
  <2> QED BY <1>0, <1>1, <1>2, AllIndices
<1>4. l - k \in 0..n /\ k + (l - k) = l
  BY <1>0 DEF n
<1> QED BY <1>3, <1>4

\* It depends on the chunks before.
LEMMA CostAgrees ==
  ASSUME NEW m \in Content, NEW o \in Content, NEW spec \in SpecState, NEW k \in spec.from..(spec.to + 1),
         \A j \in spec.from..(k - 1) : o[j] = m[j]
  PROVE  CostBefore(o, spec, k) = CostBefore(m, spec, k)
<1>1. spec.from \in Nat /\ spec.to \in Nat
  BY SpecFacts
<1>2. [i \in 1..(k - spec.from) |-> o[spec.from + i - 1]] = [i \in 1..(k - spec.from) |-> m[spec.from + i - 1]]
  <2>1. \A i \in 1..(k - spec.from) : spec.from + i - 1 \in spec.from..(k - 1)
    BY <1>1
  <2> QED BY <2>1
<1> QED BY <1>2 DEF CostBefore

\* Where a search ends: behind its goal, or at the first wall.
Stop(m, spec) == IF Walls(m, spec) = {} THEN spec.to + 1 ELSE LastRead(m, spec)

LEMMA StopFacts ==
  ASSUME NEW m \in Content, NEW spec \in SpecState
  PROVE  /\ Walls(m, spec) = {} => LastRead(m, spec) = spec.to
         /\ Walls(m, spec) # {} => LastRead(m, spec) \in Walls(m, spec) /\ \A j \in Walls(m, spec) : LastRead(m, spec) <= j
         /\ Stop(m, spec) \in spec.from..(spec.to + 1) /\ LastRead(m, spec) \in spec.from..spec.to
         /\ LastRead(m, spec) <= Stop(m, spec) /\ Stop(m, spec) <= LastRead(m, spec) + 1
         /\ Length(m, spec) = CostBefore(m, spec, Stop(m, spec)) /\ Length(m, spec) \in Nat
         /\ \A j \in spec.from..(Stop(m, spec) - 1) : m[j] # Wall
<1> DEFINE W == Walls(m, spec)
<1>0. spec.from \in Nat /\ spec.to \in Nat /\ spec.from <= spec.to
  BY SpecFacts
<1>1. W \subseteq spec.from..spec.to /\ W \subseteq Nat
  BY <1>0 DEF Walls
<1>2. CASE W = {}
  <2>1. LastRead(m, spec) = spec.to /\ Stop(m, spec) = spec.to + 1
    BY <1>2 DEF LastRead, Stop
  <2>2. \A j \in spec.from..spec.to : m[j] # Wall
    BY <1>2 DEF Walls
  <2>3. Length(m, spec) = CostBefore(m, spec, Stop(m, spec))
    BY DEF Length, Stop
  <2>4. Stop(m, spec) \in spec.from..(spec.to + 1)
    BY <1>0, <2>1
  <2>5. Length(m, spec) \in Nat
    BY <2>3, <2>4, CostSteps
  <2> QED BY <1>0, <1>2, <2>1, <2>2, <2>3, <2>4, <2>5
<1>3. CASE W # {}
  <2>1. LastRead(m, spec) = Lowest(W) /\ Stop(m, spec) = LastRead(m, spec)
    BY <1>3 DEF LastRead, Stop
  <2>2. \E x \in W : \A y \in W : x <= y
    <3> HIDE DEF W
    <3> QED BY <1>1, <1>3, LeastNumber
  <2>3. Lowest(W) \in W /\ \A j \in W : Lowest(W) <= j
    <3> HIDE DEF W
    <3> QED BY <2>2 DEF Lowest
  <2>4. Length(m, spec) = CostBefore(m, spec, Stop(m, spec))
    BY DEF Length, Stop
  <2>5. Stop(m, spec) \in spec.from..(spec.to + 1) /\ Stop(m, spec) \in spec.from..spec.to
    BY <1>0, <1>1, <2>1, <2>3
  <2>6. Length(m, spec) \in Nat
    BY <2>4, <2>5, CostSteps
  <2>7. ASSUME NEW j \in spec.from..(Stop(m, spec) - 1) PROVE m[j] # Wall
    <3>1. j \in spec.from..spec.to /\ j < Stop(m, spec) /\ j \in Nat
      BY <1>0, <2>5
    <3>2. j \notin W
      BY <2>1, <2>3, <2>5, <3>1
    <3> QED BY <3>1, <3>2 DEF Walls
  <2> QED BY <1>0, <1>3, <2>1, <2>3, <2>4, <2>5, <2>6, <2>7
<1> QED BY <1>2, <1>3

\* What is read lies between the start and the end.
LEMMA ReadFacts ==
  ASSUME NEW m \in Content, NEW spec \in SpecState, NEW n \in Int
  PROVE  ReadAfter(m, spec, n) \subseteq Row
<1>1. ReadAfter(m, spec, n) \subseteq spec.from..LastRead(m, spec) /\ LastRead(m, spec) \in spec.from..spec.to
  BY StopFacts DEF ReadAfter
<1>2. \A k \in spec.from..spec.to : k \in Row
  BY SpecFacts
<1>3. spec.from \in Nat /\ spec.to \in Nat
  BY SpecFacts
<1> QED BY <1>1, <1>2, <1>3

\* A search has a result, within its cap.
LEMMA RunType ==
  ASSUME NEW m \in Content, NEW spec \in SpecState, NEW cap \in Nat
  PROVE  /\ Run(m, spec, cap) \in EndState /\ Run(m, spec, cap).expansions <= cap
         /\ Run(m, spec, cap).expansions = Least(Length(m, spec), cap)
<1> DEFINE n == Least(Length(m, spec), cap)
<1>1. n \in Nat /\ n <= cap
  BY StopFacts DEF Least
<1>2. ReadAfter(m, spec, n) \in SUBSET Row
  <2> HIDE DEF n
  <2>1. n \in Int
    BY <1>1
  <2> QED BY <2>1, ReadFacts
<1> HIDE DEF n
<1> QED BY <1>1, <1>2 DEF Run, SearchEnd, EndState, Statuses, n

\* What is read when the budget ends before chunk j.
LEMMA ReadUpTo ==
  ASSUME NEW p \in Content, NEW spec \in SpecState, NEW n \in Nat, NEW j \in spec.from..Stop(p, spec),
         CostBefore(p, spec, j) > n, \A k \in spec.from..(j - 1) : CostBefore(p, spec, k) <= n
  PROVE  ReadAfter(p, spec, n) = spec.from..(j - 1) /\ Length(p, spec) > n
<1>0. spec.from \in Nat /\ spec.to \in Nat
  BY SpecFacts
<1>1. /\ Stop(p, spec) \in spec.from..(spec.to + 1) /\ LastRead(p, spec) \in spec.from..spec.to
      /\ Stop(p, spec) <= LastRead(p, spec) + 1
      /\ Length(p, spec) = CostBefore(p, spec, Stop(p, spec))
  BY StopFacts
<1>2. j \in spec.from..(spec.to + 1) /\ j \in Nat
  BY <1>0, <1>1
<1>3. ASSUME NEW k \in j..(spec.to + 1) PROVE CostBefore(p, spec, k) > n
  <2>1. CostBefore(p, spec, j) <= CostBefore(p, spec, k)
    BY <1>2, CostGrows
  <2>2. k \in spec.from..(spec.to + 1)
    BY <1>0, <1>2
  <2>3. CostBefore(p, spec, j) \in Nat /\ CostBefore(p, spec, k) \in Nat
    BY <1>2, <2>2, CostSteps
  <2> QED BY <2>1, <2>3
<1>4. Length(p, spec) > n
  <2>1. Stop(p, spec) \in j..(spec.to + 1)
    BY <1>0, <1>1, <1>2
  <2> QED BY <1>1, <1>3, <2>1
<1>5. ASSUME NEW k \in ReadAfter(p, spec, n) PROVE k \in spec.from..(j - 1)
  <2>1. k \in spec.from..LastRead(p, spec) /\ CostBefore(p, spec, k) <= n
    BY <1>5 DEF ReadAfter
  <2>2. k \in spec.from..(spec.to + 1) /\ k \in Nat
    BY <1>0, <1>1, <2>1
  <2>3. CostBefore(p, spec, k) \in Nat
    BY <2>2, CostSteps
  <2>4. k \notin j..(spec.to + 1)
    BY <1>3, <2>1, <2>3
  <2> QED BY <1>0, <1>2, <2>2, <2>4
<1>6. ASSUME NEW k \in spec.from..(j - 1) PROVE k \in ReadAfter(p, spec, n)
  <2>1. k \in spec.from..LastRead(p, spec)
    BY <1>0, <1>1, <1>2
  <2>2. CostBefore(p, spec, k) <= n
    OBVIOUS
  <2> QED BY <2>1, <2>2 DEF ReadAfter
<1> QED BY <1>4, <1>5, <1>6

\* A search that ends on one map ends the same on every map that agrees on what it has read.
LEMMA SameRun ==
  ASSUME NEW m \in Content, NEW o \in Content, NEW spec \in SpecState, NEW cap \in Nat,
         \A k \in ReadAfter(m, spec, Least(Length(m, spec), cap)) : o[k] = m[k]
  PROVE  /\ Run(o, spec, cap) = Run(m, spec, cap)
         /\ Least(Length(o, spec), cap) = Least(Length(m, spec), cap)
         /\ ReadAfter(o, spec, Least(Length(o, spec), cap)) = ReadAfter(m, spec, Least(Length(m, spec), cap))
<1> DEFINE f == spec.from
           E == Stop(m, spec)
           R == LastRead(m, spec)
           L == Length(m, spec)
<1>0. f \in Nat /\ spec.to \in Nat /\ f <= spec.to
  BY SpecFacts
<1>1. /\ Walls(m, spec) = {} => R = spec.to
      /\ Walls(m, spec) # {} => R \in Walls(m, spec) /\ \A j \in Walls(m, spec) : R <= j
      /\ E \in f..(spec.to + 1) /\ R \in f..spec.to /\ R <= E /\ E <= R + 1
      /\ L = CostBefore(m, spec, E) /\ L \in Nat
      /\ \A j \in f..(E - 1) : m[j] # Wall
  BY StopFacts
<1>2. /\ Walls(o, spec) = {} => LastRead(o, spec) = spec.to
      /\ Walls(o, spec) # {} => LastRead(o, spec) \in Walls(o, spec) /\ \A j \in Walls(o, spec) : LastRead(o, spec) <= j
      /\ Length(o, spec) = CostBefore(o, spec, Stop(o, spec)) /\ Length(o, spec) \in Nat
  BY StopFacts
<1>3. /\ E = (IF Walls(m, spec) = {} THEN spec.to + 1 ELSE R)
      /\ Stop(o, spec) = IF Walls(o, spec) = {} THEN spec.to + 1 ELSE LastRead(o, spec)
  BY DEF Stop
<1> HIDE DEF E, R, L, f
<1>4. /\ \A k : k \in Walls(m, spec) <=> k \in f..spec.to /\ m[k] = Wall
      /\ \A k : k \in Walls(o, spec) <=> k \in f..spec.to /\ o[k] = Wall
  BY DEF Walls, f
<1>5. CASE L <= cap
  <2>1. Least(L, cap) = L
    BY <1>1, <1>5 DEF Least
  <2>2. \A k \in f..R : o[k] = m[k]
    <3> SUFFICES ASSUME NEW k \in f..R PROVE o[k] = m[k]
      OBVIOUS
    <3>1. k \in f..(spec.to + 1) /\ E \in k..(spec.to + 1)
      BY <1>0, <1>1
    <3>2. CostBefore(m, spec, k) <= CostBefore(m, spec, E)
      BY <3>1, CostGrows DEF f
    <3>3. k \in ReadAfter(m, spec, L)
      BY <1>1, <3>2 DEF ReadAfter, f, R
    <3> QED BY <2>1, <3>3 DEF L
  <2>3. (Walls(o, spec) = {} <=> Walls(m, spec) = {}) /\ LastRead(o, spec) = R
    <3>1. CASE Walls(m, spec) = {}
      <4>1. Walls(o, spec) = {}
        BY <1>1, <1>4, <2>2, <3>1
      <4> QED BY <1>1, <1>2, <3>1, <4>1
    <3>2. CASE Walls(m, spec) # {}
      <4>1. R \in f..R /\ R \in f..spec.to
        BY <1>0, <1>1
      <4>2. R \in Walls(o, spec)
        BY <1>1, <1>4, <2>2, <3>2, <4>1
      <4> DEFINE q == LastRead(o, spec)
      <4>3. q \in Walls(o, spec) /\ q <= R
        BY <1>2, <4>2
      <4>4. q \in f..R
        BY <1>0, <1>1, <1>4, <4>3
      <4>5. q \in Walls(m, spec)
        BY <1>4, <2>2, <4>3, <4>4
      <4>6. R <= q
        BY <1>1, <3>2, <4>5
      <4> QED BY <1>0, <1>1, <3>2, <4>2, <4>3, <4>4, <4>6
    <3> QED BY <3>1, <3>2
  <2>4. Stop(o, spec) = E
    BY <1>3, <2>3
  <2>5. \A k \in f..(R + 1) : CostBefore(o, spec, k) = CostBefore(m, spec, k)
    <3> SUFFICES ASSUME NEW k \in f..(R + 1) PROVE CostBefore(o, spec, k) = CostBefore(m, spec, k)
      OBVIOUS
    <3>1. k \in f..(spec.to + 1) /\ \A j \in f..(k - 1) : j \in f..R
      BY <1>0, <1>1
    <3>2. k \in spec.from..(spec.to + 1) /\ \A j \in spec.from..(k - 1) : o[j] = m[j]
      BY <2>2, <3>1 DEF f
    <3> QED BY <3>2, CostAgrees
  <2>6. Length(o, spec) = L
    <3>1. E \in f..(R + 1)
      BY <1>0, <1>1
    <3> QED BY <1>1, <1>2, <2>4, <2>5, <3>1
  <2>7. \A n : ReadAfter(o, spec, n) = ReadAfter(m, spec, n)
    <3> TAKE n
    <3>1. \A k \in f..R : CostBefore(o, spec, k) = CostBefore(m, spec, k)
      <4>1. \A k \in f..R : k \in f..(R + 1)
        BY <1>0, <1>1
      <4> QED BY <2>5, <4>1
    <3> QED BY <2>3, <3>1 DEF ReadAfter, f, R
  <2> QED BY <2>3, <2>6, <2>7 DEF Run, L
<1>6. CASE ~ (L <= cap)
  <2>1. Least(L, cap) = cap /\ L > cap
    BY <1>1, <1>6 DEF Least
  <2> DEFINE T == {k \in f..E : CostBefore(m, spec, k) > cap}
  <2>2. E \in T
    BY <1>0, <1>1, <2>1
  <2>3. T \subseteq Nat
    BY <1>0, <1>1
  <2>4. PICK j \in T : \A k \in T : j <= k
    <3> HIDE DEF T
    <3> QED BY <2>2, <2>3, LeastNumber
  <2>5. j \in f..E /\ CostBefore(m, spec, j) > cap /\ j \in Nat
    BY <2>3, <2>4
  <2>6. \A k \in f..(j - 1) : k \in f..E /\ k \in f..(spec.to + 1) /\ k < j /\ k \in f..(E - 1)
    BY <1>0, <1>1, <2>5
  <2>7. \A k \in f..(j - 1) : CostBefore(m, spec, k) <= cap
    <3> SUFFICES ASSUME NEW k \in f..(j - 1) PROVE CostBefore(m, spec, k) <= cap
      OBVIOUS
    <3>1. k \notin T
      BY <2>3, <2>4, <2>6
    <3>2. CostBefore(m, spec, k) \in Nat
      BY <2>6, CostSteps DEF f
    <3> QED BY <2>6, <3>1, <3>2
  <2>8. ReadAfter(m, spec, cap) = f..(j - 1)
    BY <2>5, <2>7, ReadUpTo DEF f, E
  <2>9. \A k \in f..(j - 1) : o[k] = m[k]
    BY <2>1, <2>8 DEF L
  <2>10. \A k \in f..j : CostBefore(o, spec, k) = CostBefore(m, spec, k)
    <3> SUFFICES ASSUME NEW k \in f..j PROVE CostBefore(o, spec, k) = CostBefore(m, spec, k)
      OBVIOUS
    <3>1. k \in f..(spec.to + 1) /\ \A i \in f..(k - 1) : i \in f..(j - 1)
      BY <1>0, <1>1, <2>5
    <3>2. k \in spec.from..(spec.to + 1) /\ \A i \in spec.from..(k - 1) : o[i] = m[i]
      BY <2>9, <3>1 DEF f
    <3> QED BY <3>2, CostAgrees
  <2>11. j \in f..Stop(o, spec)
    <3>1. CASE Walls(o, spec) = {}
      BY <1>0, <1>1, <1>3, <2>5, <3>1
    <3>2. CASE Walls(o, spec) # {}
      <4> DEFINE q == LastRead(o, spec)
      <4>1. q \in f..spec.to /\ o[q] = Wall /\ Stop(o, spec) = q
        BY <1>2, <1>3, <1>4, <3>2
      <4>2. q \notin f..(j - 1)
        BY <1>1, <2>6, <2>9, <4>1
      <4> QED BY <1>0, <1>1, <2>5, <4>1, <4>2
    <3> QED BY <3>1, <3>2
  <2>12. CostBefore(o, spec, j) > cap /\ \A k \in f..(j - 1) : CostBefore(o, spec, k) <= cap
    <3>1. j \in f..j /\ \A k \in f..(j - 1) : k \in f..j
      BY <1>0, <2>5
    <3>2. CostBefore(o, spec, j) = CostBefore(m, spec, j)
      BY <2>10, <3>1
    <3>3. \A k \in f..(j - 1) : CostBefore(o, spec, k) = CostBefore(m, spec, k)
      BY <2>10, <3>1
    <3> QED BY <2>5, <2>7, <3>2, <3>3
  <2>13. ReadAfter(o, spec, cap) = f..(j - 1) /\ Length(o, spec) > cap
    BY <2>11, <2>12, ReadUpTo DEF f
  <2>14. Least(Length(o, spec), cap) = cap
    BY <1>2, <2>13 DEF Least
  <2> HIDE DEF T
  <2> QED BY <2>1, <2>8, <2>13, <2>14 DEF Run, L
<1> QED BY <1>5, <1>6

(***************************************************************************)
(* The searches of a request                                               *)
(***************************************************************************)
LEMMA RequestFacts ==
  ASSUME NEW req \in RequestState
  PROVE  /\ req.kind \in Kinds /\ req.from \in Row /\ req.to \in Row /\ req.total \in Nat /\ req.from <= req.to
         /\ req.from \in Nat /\ req.to \in Nat /\ req.to <= Chunks /\ 1 <= req.from
<1>1. req.kind \in Kinds /\ req.from \in 1..Chunks /\ req.to \in 1..Chunks /\ req.total \in Nat /\ req.from <= req.to
  BY DEF RequestState, Row
<1> QED BY <1>1, PlanningAssumption DEF Row

\* What follows is a search like that, as long as there is one.
LEMMA NextFacts ==
  ASSUME NEW req \in RequestState, NEW D, NEW done \in Seq(D), NextSearch(req, done) # NoSpec
  PROVE  /\ NextSearch(req, done).spec \in SpecState /\ NextSearch(req, done).budget \in Nat
         /\ Len(done) < MaxSearches
         /\ NextSearch(req, done).spec.alg = "hpa" <=> HpaAt(req, Len(done))
         /\ NextSearch(req, done).budget \in {req.total, StageBudget}
         /\ req.kind \in {"grid", "hpa"} => Len(done) = 0
         /\ req.kind = "refine" /\ Len(done) > 0 =>
              NextSearch(req, done).spec = Grid(req.from + Len(done) - 1, req.from + Len(done))
<1> DEFINE n == Len(done)
           next == NextSearch(req, done)
           Grid1 == Grid(req.from, req.to)
           Hpa1 == Hpa(req.from, req.to)
           CoarseSpec == Coarse(req.from, req.to)
           LegSpec == Grid(req.from + n - 1, req.from + n)
<1>0. n \in Nat /\ StageBudget \in Nat /\ Chunks \in Nat
  BY PlanningAssumption
<1>1. /\ req.kind \in Kinds /\ req.from \in Row /\ req.to \in Row /\ req.total \in Nat /\ req.from <= req.to
      /\ req.from \in Nat /\ req.to \in Nat /\ req.to <= Chunks /\ 1 <= req.from
  BY RequestFacts
<1>2. /\ Grid1 \in SpecState /\ Grid1.alg = "grid" /\ Hpa1 \in SpecState /\ Hpa1.alg = "hpa"
      /\ CoarseSpec \in SpecState /\ CoarseSpec.alg = "hpa"
  BY <1>1 DEF Grid, Hpa, Coarse, SpecState
<1>3. ASSUME n \in 1..(req.to - req.from) PROVE LegSpec \in SpecState /\ LegSpec.alg = "grid" /\ n < Chunks
  <2>1. req.from + n - 1 \in Row /\ req.from + n \in Row /\ req.from + n - 1 <= req.from + n /\ n < Chunks
    BY <1>0, <1>1, <1>3 DEF Row
  <2> HIDE DEF n
  <2> QED BY <2>1 DEF Grid, SpecState
<1>4. MaxSearches \in Nat /\ 2 <= MaxSearches /\ Chunks <= MaxSearches
  BY <1>0 DEF MaxSearches, Max2
<1>5. next # NoSpec
  OBVIOUS
<1>6. \/ req.kind = "grid" /\ n = 0 /\ next = [spec |-> Grid1, budget |-> req.total]
      \/ req.kind = "hpa" /\ n = 0 /\ next = [spec |-> Hpa1, budget |-> req.total]
      \/ IsFallback(req) /\ n = 0 /\ next = [spec |-> Grid1, budget |-> StageBudget]
      \/ req.kind = "gridThenHpa" /\ n = 1 /\ next = [spec |-> Hpa1, budget |-> req.total]
      \/ req.kind = "gridThenGrid" /\ n = 1 /\ next = [spec |-> Grid1, budget |-> req.total]
      \/ req.kind = "refine" /\ n = 0 /\ next = [spec |-> CoarseSpec, budget |-> req.total]
      \/ req.kind = "refine" /\ n \in 1..(req.to - req.from) /\ next = [spec |-> LegSpec, budget |-> req.total]
  <2>1. CASE req.kind = "grid"
    BY <1>5, <2>1 DEF NextSearch, IsFallback
  <2>2. CASE req.kind = "hpa"
    BY <1>5, <2>2 DEF NextSearch, IsFallback
  <2>3. CASE req.kind = "gridThenHpa"
    BY <1>5, <2>3 DEF NextSearch, IsFallback
  <2>4. CASE req.kind = "gridThenGrid"
    BY <1>5, <2>4 DEF NextSearch, IsFallback
  <2>5. CASE req.kind = "refine"
    BY <1>5, <2>5 DEF NextSearch, IsFallback
  <2> QED BY <1>1, <2>1, <2>2, <2>3, <2>4, <2>5 DEF Kinds
<1> HIDE DEF n, next, Grid1, Hpa1, CoarseSpec, LegSpec
<1>7. /\ next.spec \in SpecState /\ next.budget \in Nat /\ n < MaxSearches /\ (next.spec.alg = "hpa" <=> HpaAt(req, n))
      /\ next.budget \in {req.total, StageBudget}
  BY <1>0, <1>1, <1>2, <1>3, <1>4, <1>6 DEF IsFallback, HpaAt
<1>8. /\ req.kind \in {"grid", "hpa"} => n = 0
      /\ req.kind = "refine" /\ n > 0 => next.spec = LegSpec
  BY <1>0, <1>6 DEF IsFallback
<1> QED BY <1>7, <1>8 DEF n, next, LegSpec

\* It depends on how many have ended and how the last one did.
LEMMA NextAgrees ==
  ASSUME NEW req, NEW C, NEW c \in Seq(C), NEW D, NEW d \in Seq(D), Len(c) = Len(d),
         Len(c) > 0 => c[Len(c)].status = d[Len(d)].status
  PROVE  NextSearch(req, c) = NextSearch(req, d)
<1>1. c = <<>> <=> Len(c) = 0
  OBVIOUS
<1>2. d = <<>> <=> Len(d) = 0
  OBVIOUS
<1>3. Len(c) \in Nat
  OBVIOUS
<1>4. Failed(c) <=> Failed(d)
  BY <1>1, <1>2, <1>3 DEF Failed, Last
<1> QED BY <1>4 DEF NextSearch

(***************************************************************************)
(* The beginning of a list                                                 *)
(***************************************************************************)
LEMMA BeginningFacts ==
  ASSUME NEW D, NEW s \in Seq(D), NEW i \in 0..Len(s)
  PROVE  /\ SubSeq(s, 1, i) \in Seq(D) /\ Len(SubSeq(s, 1, i)) = i /\ DOMAIN SubSeq(s, 1, i) = 1..i
         /\ \A j \in 1..i : SubSeq(s, 1, i)[j] = s[j]
OBVIOUS

LEMMA WholeList ==
  ASSUME NEW D, NEW s \in Seq(D) PROVE SubSeq(s, 1, Len(s)) = s
OBVIOUS

LEMMA SameList ==
  ASSUME NEW C, NEW D, NEW s \in Seq(C), NEW t \in Seq(D), Len(s) = Len(t), \A i \in 1..Len(s) : s[i] = t[i]
  PROVE  s = t
<1>1. DOMAIN s = 1..Len(s) /\ DOMAIN t = 1..Len(s)
  OBVIOUS
<1>2. s = [i \in DOMAIN s |-> s[i]] /\ t = [i \in DOMAIN t |-> t[i]]
  OBVIOUS
<1> QED BY <1>1, <1>2

LEMMA BeginningOfMore ==
  ASSUME NEW D, NEW s \in Seq(D), NEW x \in D, NEW i \in 0..Len(s)
  PROVE  SubSeq(Append(s, x), 1, i) = SubSeq(s, 1, i)
<1> DEFINE t == Append(s, x)
<1>1. t \in Seq(D) /\ Len(t) = Len(s) + 1 /\ \A j \in 1..Len(s) : t[j] = s[j]
  BY AppendedOne
<1> HIDE DEF t
<1>2. i \in 0..Len(t) /\ Len(s) \in Nat
  BY <1>1
<1> DEFINE u == SubSeq(t, 1, i)
           v == SubSeq(s, 1, i)
<1>3. u \in Seq(D) /\ Len(u) = i /\ \A j \in 1..i : u[j] = t[j]
  BY <1>1, <1>2, BeginningFacts
<1>4. v \in Seq(D) /\ Len(v) = i /\ \A j \in 1..i : v[j] = s[j]
  BY BeginningFacts
<1> HIDE DEF u, v
<1>5. \A j \in 1..i : u[j] = v[j]
  BY <1>1, <1>2, <1>3, <1>4
<1>6. u = v
  BY <1>3, <1>4, <1>5, SameList
<1> QED BY <1>6 DEF u, v, t

(***************************************************************************)
(* What the completed searches are on a map                                *)
(***************************************************************************)
LEMMA CapFacts ==
  ASSUME NEW req \in RequestState, NEW left \in Int, NEW done \in Seq(DoneState), NextSearch(req, done) # NoSpec
  PROVE  CapOf(req, left, done) \in Int /\ CapOf(req, left, done) <= left - Costs(done)
<1>1. NextSearch(req, done).budget \in Nat
  BY NextFacts
<1>2. Costs(done) \in Nat
  BY CostsType
<1> QED BY <1>1, <1>2 DEF CapOf, Least

LEMMA ColdEndFacts ==
  ASSUME NEW req \in RequestState, NEW left \in Int, NEW done \in Seq(DoneState), NextSearch(req, done) # NoSpec,
         NEW m \in Content
  PROVE  LET e == ColdEnd(req, left, done, m)
             cap == CapOf(req, left, done) IN
         /\ e \in EndState
         /\ cap <= 0 => e = Synthesized /\ e.expansions = 0
         /\ cap > 0 => e = Run(m, NextSearch(req, done).spec, cap) /\ e.expansions <= cap
         /\ Costs(done) <= left => e.expansions <= left - Costs(done)
<1> DEFINE e == ColdEnd(req, left, done, m)
           cap == CapOf(req, left, done)
           spec == NextSearch(req, done).spec
<1>1. cap \in Int /\ cap <= left - Costs(done)
  BY CapFacts
<1>2. Costs(done) \in Nat
  BY CostsType
<1>3. spec \in SpecState
  BY NextFacts
<1>4. e = IF cap <= 0 THEN Synthesized ELSE Run(m, spec, cap)
  BY DEF ColdEnd
<1> HIDE DEF e, cap, spec
<1>5. CASE cap <= 0
  <2>1. e = Synthesized
    BY <1>4, <1>5
  <2>2. e \in EndState /\ e.expansions = 0
    BY <2>1 DEF Synthesized, EndState, Statuses
  <2> QED BY <1>1, <1>2, <1>5, <2>1, <2>2 DEF e, cap, spec
<1>6. CASE cap > 0
  <2>1. e = Run(m, spec, cap)
    BY <1>1, <1>4, <1>6
  <2>2. cap \in Nat
    BY <1>1, <1>6
  <2>3. e \in EndState /\ e.expansions <= cap
    BY <1>3, <2>1, <2>2, RunType
  <2>4. e.expansions \in Nat
    BY <2>3 DEF EndState
  <2> QED BY <1>1, <1>2, <1>6, <2>1, <2>3, <2>4 DEF e, cap, spec
<1> QED BY <1>1, <1>5, <1>6

\* One search more has ended.
LEMMA ColdAppend ==
  ASSUME NEW req, NEW left, NEW m, NEW done \in Seq(DoneState), NEW x \in DoneState,
         NextSearch(req, done) # NoSpec, ColdDone(req, left, done, m), SameEnd(x, ColdEnd(req, left, done, m))
  PROVE  ColdDone(req, left, Append(done, x), m)
<1> DEFINE more == Append(done, x)
           n == Len(done)
<1>1. more \in Seq(DoneState) /\ Len(more) = n + 1 /\ n \in Nat /\ more[n + 1] = x /\ \A j \in 1..n : more[j] = done[j]
  BY AppendedOne
<1>2. \A i \in 0..n : SubSeq(more, 1, i) = SubSeq(done, 1, i)
  BY BeginningOfMore
<1>3. SubSeq(done, 1, n) = done
  BY WholeList
<1> HIDE DEF more, n
<1> SUFFICES ASSUME NEW i \in 1..(n + 1)
             PROVE  /\ NextSearch(req, SubSeq(more, 1, i - 1)) # NoSpec
                    /\ SameEnd(more[i], ColdEnd(req, left, SubSeq(more, 1, i - 1), m))
  BY <1>1 DEF ColdDone, more
<1>4. i - 1 \in 0..n /\ (i = n + 1 \/ i \in 1..n)
  BY <1>1
<1>5. SubSeq(more, 1, i - 1) = SubSeq(done, 1, i - 1)
  BY <1>2, <1>4
<1>6. CASE i = n + 1
  <2>1. i - 1 = n
    BY <1>1, <1>6
  <2> QED BY <1>1, <1>3, <1>5, <1>6, <2>1
<1>7. CASE i \in 1..n
  <2>1. more[i] = done[i]
    BY <1>1, <1>7
  <2> QED BY <1>5, <1>7, <2>1 DEF ColdDone, n
<1> QED BY <1>4, <1>6, <1>7

LEMMA ColdNone == \A req, left, m : ColdDone(req, left, <<>>, m)
  BY DEF ColdDone

\* Lists that agree are followed by the same.
Agree(c, d) == Len(c) = Len(d) /\ \A i \in 1..Len(c) : SameEnd(c[i], d[i])

LEMMA AgreeFacts ==
  ASSUME NEW c \in Seq(DoneState), NEW d \in Seq(DoneState), Agree(c, d)
  PROVE  /\ Costs(c) = Costs(d)
         /\ \A req : NextSearch(req, c) = NextSearch(req, d)
         /\ \A req, left : CapOf(req, left, c) = CapOf(req, left, d)
         /\ \A req, left, m : ColdEnd(req, left, c, m) = ColdEnd(req, left, d, m)
<1>1. DOMAIN c = 1..Len(c) /\ DOMAIN d = 1..Len(d) /\ Len(c) \in Nat
  OBVIOUS
<1>2. Len(c) = Len(d) /\ \A i \in 1..Len(c) : c[i].status = d[i].status /\ c[i].expansions = d[i].expansions
  BY DEF Agree, SameEnd
<1>3. Costs(c) = Costs(d)
  BY <1>1, <1>2, CostsAgree
<1>4. ASSUME NEW req PROVE NextSearch(req, c) = NextSearch(req, d)
  <2>1. Len(c) > 0 => c[Len(c)].status = d[Len(d)].status
    BY <1>1, <1>2
  <2> QED BY <1>2, <2>1, NextAgrees
<1>5. ASSUME NEW req, NEW left PROVE CapOf(req, left, c) = CapOf(req, left, d)
  BY <1>3, <1>4 DEF CapOf
<1>6. ASSUME NEW req, NEW left, NEW m PROVE ColdEnd(req, left, c, m) = ColdEnd(req, left, d, m)
  BY <1>4, <1>5 DEF ColdEnd
<1> QED BY <1>3, <1>4, <1>5, <1>6

LEMMA ColdUnique ==
  ASSUME NEW req, NEW left, NEW m, NEW c \in Seq(DoneState), NEW d \in Seq(DoneState),
         ColdDone(req, left, c, m), ColdDone(req, left, d, m), Len(c) = Len(d)
  PROVE  Agree(c, d)
<1> DEFINE n == Len(c)
           T == {i \in 0..n : \A j \in 1..i : SameEnd(c[j], d[j])}
<1>0. n \in Nat /\ n = Len(d)
  OBVIOUS
<1> HIDE DEF n
<1>1. 0 \in T
  BY <1>0
<1>2. ASSUME NEW i \in 0..n, i \in T, i < n PROVE i + 1 \in T
  <2> DEFINE u == SubSeq(c, 1, i)
             v == SubSeq(d, 1, i)
  <2>1. u \in Seq(DoneState) /\ Len(u) = i /\ \A j \in 1..i : u[j] = c[j]
    BY BeginningFacts DEF n
  <2>2. v \in Seq(DoneState) /\ Len(v) = i /\ \A j \in 1..i : v[j] = d[j]
    BY <1>0, BeginningFacts DEF n
  <2> HIDE DEF u, v
  <2>3. Agree(u, v)
    BY <1>2, <2>1, <2>2 DEF Agree
  <2>4. ColdEnd(req, left, u, m) = ColdEnd(req, left, v, m)
    BY <2>1, <2>2, <2>3, AgreeFacts
  <2>5. i + 1 \in 1..n /\ (i + 1) - 1 = i
    BY <1>0, <1>2
  <2>6. SameEnd(c[i + 1], ColdEnd(req, left, u, m))
    BY <2>5 DEF ColdDone, n, u
  <2>7. SameEnd(d[i + 1], ColdEnd(req, left, v, m))
    BY <1>0, <2>5 DEF ColdDone, v
  <2>8. SameEnd(c[i + 1], d[i + 1])
    BY <2>4, <2>6, <2>7 DEF SameEnd
  <2>9. \A j \in 1..(i + 1) : j = i + 1 \/ j \in 1..i
    BY <1>0
  <2>10. i + 1 \in 0..n
    BY <1>0, <2>5
  <2> QED BY <1>2, <2>8, <2>9, <2>10
<1>3. 0..n \subseteq T
  <2> HIDE DEF T
  <2> QED BY <1>0, <1>1, <1>2, AllIndices
<1>4. n \in T
  BY <1>0, <1>3
<1> QED BY <1>0, <1>4 DEF Agree, n

\* They are as they were on a map that agrees on what they have read, if none of them uses the graph.
LEMMA ColdMoves ==
  ASSUME NEW req \in RequestState, NEW left \in Int, NEW m \in Content, NEW o \in Content, NEW done \in Seq(DoneState),
         ColdDone(req, left, done, m), \A i \in 0..(Len(done) - 1) : ~HpaAt(req, i),
         \A i \in 1..Len(done) : \A k \in done[i].reads : o[k] = m[k]
  PROVE  ColdDone(req, left, done, o)
<1> SUFFICES ASSUME NEW i \in 1..Len(done)
             PROVE  /\ NextSearch(req, SubSeq(done, 1, i - 1)) # NoSpec
                    /\ SameEnd(done[i], ColdEnd(req, left, SubSeq(done, 1, i - 1), o))
  BY DEF ColdDone
<1> DEFINE d == SubSeq(done, 1, i - 1)
           next == NextSearch(req, d)
           cap == CapOf(req, left, d)
<1>1. i - 1 \in 0..Len(done) /\ i - 1 \in 0..(Len(done) - 1)
  OBVIOUS
<1>2. d \in Seq(DoneState) /\ Len(d) = i - 1
  BY <1>1, BeginningFacts
<1>3. next # NoSpec /\ SameEnd(done[i], ColdEnd(req, left, d, m))
  BY DEF ColdDone
<1>4. next.spec \in SpecState /\ next.spec.alg # "hpa"
  BY <1>1, <1>2, <1>3, NextFacts
<1>5. cap \in Int
  BY <1>2, <1>3, CapFacts
<1> HIDE DEF next, cap, d
<1>6. CASE cap <= 0
  BY <1>3, <1>6 DEF ColdEnd, next, cap, d
<1>7. CASE cap > 0
  <2>1. cap \in Nat
    BY <1>5, <1>7
  <2>2. ColdEnd(req, left, d, m) = Run(m, next.spec, cap) /\ ColdEnd(req, left, d, o) = Run(o, next.spec, cap)
    BY <1>5, <1>7 DEF ColdEnd, next, cap
  <2>3. Run(m, next.spec, cap).reads = ReadAfter(m, next.spec, Least(Length(m, next.spec), cap))
    BY <1>4 DEF Run, SearchEnd
  <2>4. \A k \in ReadAfter(m, next.spec, Least(Length(m, next.spec), cap)) : o[k] = m[k]
    BY <1>3, <2>2, <2>3 DEF SameEnd
  <2>5. Run(o, next.spec, cap) = Run(m, next.spec, cap)
    BY <1>4, <2>1, <2>4, SameRun
  <2> QED BY <1>3, <2>2, <2>5 DEF next, d
<1> QED BY <1>5, <1>6, <1>7

(***************************************************************************)
(* The search in progress                                                  *)
(***************************************************************************)
\* What is known of a result tells it from none.
LEMMA NoEnd ==
  /\ \A e \in EndState : e # NoHit
  /\ \A s \in SearchState : s # NoSearch
<1>1. \A e \in EndState : e.status # NoHit.status
  BY DEF EndState, Statuses, NoHit
<1>2. \A s \in SearchState : s.spec.alg # NoSearch.spec.alg
  BY DEF SearchState, SpecState, NoSearch, NoSpec
<1> QED BY <1>1, <1>2

LEMMA SeenFacts ==
  ASSUME NEW m \in Content, NEW spec \in SpecState, NEW n \in Int
  PROVE  /\ SeenBy(m, spec, n) \in SeenState /\ DOMAIN SeenBy(m, spec, n) \subseteq Row
         /\ \A k \in DOMAIN SeenBy(m, spec, n) : SeenBy(m, spec, n)[k] = m[k]
         /\ spec.alg = "grid" => DOMAIN SeenBy(m, spec, n) = ReadAfter(m, spec, n)
         /\ <<>> \in SeenState
<1> DEFINE S == ReadAfter(m, spec, n)
<1>1. S \subseteq Row
  BY ReadFacts
<1>2. \A k \in Row : m[k] \in Nat
  BY DEF Content
<1> HIDE DEF S
<1>3. [k \in S |-> m[k]] \in [S -> Nat] /\ S \in SUBSET Row
  BY <1>1, <1>2
<1>4. [k \in S |-> m[k]] \in SeenState
  BY <1>3 DEF SeenState
<1>5. m \in [Row -> Nat] /\ m \in SeenState /\ DOMAIN m = Row
  <2>1. Row \in SUBSET Row /\ m \in [Row -> Nat]
    BY DEF Content
  <2> QED BY <2>1 DEF SeenState
<1>6. <<>> \in [{} -> Nat] /\ {} \in SUBSET Row
  OBVIOUS
<1>7. <<>> \in SeenState
  BY <1>6 DEF SeenState
<1>8. SeenBy(m, spec, n) = IF spec.alg = "hpa" THEN m ELSE [k \in S |-> m[k]]
  BY DEF SeenBy, S
<1>9. spec.alg \in {"grid", "hpa"}
  BY SpecFacts
<1> QED BY <1>1, <1>4, <1>5, <1>7, <1>8, <1>9 DEF S

\* A search that has seen the map as it is goes by that map.
LEMMA TerrainFits ==
  ASSUME NEW view, view.content \in Content, NEW s, \A k \in DOMAIN s.seen : s.seen[k] = view.content[k]
  PROVE  Terrain(s, view) = view.content
<1> DEFINE m == view.content
<1>1. m = [k \in Row |-> m[k]]
  BY DEF Content
<1>2. Terrain(s, view) = [k \in Row |-> IF k \in DOMAIN s.seen THEN s.seen[k] ELSE m[k]]
  BY DEF Terrain, Row
<1>3. \A k \in Row : (IF k \in DOMAIN s.seen THEN s.seen[k] ELSE m[k]) = m[k]
  OBVIOUS
<1> HIDE DEF m
<1> QED BY <1>1, <1>2, <1>3 DEF m

\* The result of a search in progress.
LEMMA ResultFits ==
  ASSUME NEW view, view.content \in Content, NEW q \in QueryState, Current(q, view.content), q.search # NoSearch
  PROVE  LET r == Result(q.search, view)
             cold == ColdEnd(q.req, Left(q), q.done, view.content) IN
         /\ r \in EndState /\ SameEnd(r, cold) /\ q.search.charged <= r.expansions
         /\ q.search.hit = NoHit => r = cold /\ Terrain(q.search, view) = view.content /\ CapOf(q.req, Left(q), q.done) > 0
<1> DEFINE m == view.content
           s == q.search
           cap == CapOf(q.req, Left(q), q.done)
           cold == ColdEnd(q.req, Left(q), q.done, m)
<1>0. q.req \in RequestState /\ Left(q) \in Int /\ q.done \in Seq(DoneState) /\ m \in Content
  <2>1. q.req \in RequestState /\ q.spent \in Nat /\ q.done \in Seq(DoneState)
    BY DEF QueryState
  <2>2. q.req.total \in Nat
    BY <2>1, RequestFacts
  <2> QED BY <2>1, <2>2 DEF Left
<1>1. SearchFits(q, m) /\ NextSearch(q.req, q.done) # NoSpec
  BY DEF Current
<1>2. cold \in EndState /\ (cap > 0 => cold = Run(m, NextSearch(q.req, q.done).spec, cap))
  BY <1>0, <1>1, ColdEndFacts
<1>3. s \in SearchState /\ s.spec = NextSearch(q.req, q.done).spec /\ s.cap = cap /\ s.charged <= cold.expansions
  BY <1>1 DEF SearchFits
<1>4. s.spec \in SpecState /\ s.charged \in Nat /\ s.hit \in EndState \cup {NoHit}
  BY <1>3 DEF SearchState
<1>5. CASE s.hit = NoHit
  <2>1. cap > 0 /\ s.seen = SeenBy(m, s.spec, s.charged)
    BY <1>1, <1>5 DEF SearchFits
  <2>2. Terrain(s, view) = m
    <3>1. s.charged \in Int
      BY <1>4
    <3>2. \A k \in DOMAIN s.seen : s.seen[k] = m[k]
      BY <1>0, <1>4, <2>1, <3>1, SeenFacts
    <3> QED BY <3>2, TerrainFits
  <2>3. Result(s, view) = Run(m, s.spec, s.cap)
    BY <1>5, <2>2 DEF Result
  <2>4. Result(s, view) = cold
    BY <1>2, <1>3, <2>1, <2>3
  <2> HIDE DEF cold, cap, s
  <2> QED BY <1>2, <1>3, <1>5, <2>1, <2>2, <2>4 DEF SameEnd, cold, cap, s
<1>6. CASE s.hit # NoHit
  <2>1. Result(s, view) = s.hit
    BY <1>6 DEF Result
  <2>2. SameEnd(s.hit, cold) /\ s.hit \in EndState
    BY <1>1, <1>4, <1>6 DEF SearchFits
  <2> HIDE DEF cold, cap, s
  <2> QED BY <1>3, <1>6, <2>1, <2>2 DEF SameEnd, cold, cap, s
<1> QED BY <1>5, <1>6

(***************************************************************************)
(* The cache                                                               *)
(***************************************************************************)
LEMMA KeyFacts ==
  ASSUME NEW q \in QueryState, NEW view \in MapState, NEW s, s.spec \in SpecState, s.cap \in Int
  PROVE  LET k == Key(q, view, s) IN
         k \in KeyState /\ k[2] = view.version /\ k[3] = s.spec /\ k[4] = s.cap
<1>1. view.version \in Nat /\ IsStrategy(q.req) \in BOOLEAN
  BY DEF MapState, IsStrategy
<1> QED BY <1>1 DEF Key, KeyState

LEMMA LookupFacts ==
  ASSUME NEW svc, svc.cache \in Seq(CacheState), NEW key, Lookup(svc, key) # NoHit
  PROVE  \E i \in DOMAIN svc.cache : svc.cache[i].key = key /\ svc.cache[i].result = Lookup(svc, key)
BY DEF Lookup

LEMMA LookupFits ==
  ASSUME NEW svc, svc.cache \in Seq(CacheState), NEW view, CacheOK(svc.cache, view), NEW key,
         key[2] = view.version, Lookup(svc, key) # NoHit
  PROVE  /\ Lookup(svc, key) \in EndState /\ key[4] > 0 /\ SameEnd(Lookup(svc, key), Run(view.content, key[3], key[4]))
         /\ Lookup(svc, key).late = NeedsExtraIteration(key[3], Lookup(svc, key).status)
<1>1. PICK i \in DOMAIN svc.cache : svc.cache[i].key = key /\ svc.cache[i].result = Lookup(svc, key)
  BY LookupFacts
<1>2. svc.cache[i] \in CacheState
  OBVIOUS
<1>3. svc.cache[i].result \in EndState
  BY <1>2 DEF CacheState
<1> QED BY <1>1, <1>3 DEF CacheOK

(***************************************************************************)
(* A search begins                                                         *)
(***************************************************************************)
\* Nothing of a query but its search, and whether it uses the graph, is another.
SameButSearch(b, q) ==
  /\ b.id = q.id /\ b.req = q.req /\ b.age = q.age /\ b.restarts = q.restarts /\ b.continuations = q.continuations
  /\ b.spent = q.spent /\ b.seen = q.seen /\ b.seenGraph = q.seenGraph /\ b.carry = q.carry
  /\ b.done = q.done /\ b.work = q.work

LEMMA BeginFacts ==
  ASSUME NEW svc, svc.cache \in Seq(CacheState), NEW view \in MapState, CacheOK(svc.cache, view),
         NEW q \in QueryState, NextSearch(q.req, q.done) # NoSpec, ColdDone(q.req, Left(q), q.done, view.content)
  PROVE  LET b == BeginSearch(svc, q, view) IN
         /\ b \in QueryState /\ SameButSearch(b, q) /\ Current(b, view.content)
         /\ b.search \in SearchState /\ b.search # NoSearch /\ b.search.charged = 0
         /\ b.search.spec = NextSearch(q.req, q.done).spec /\ b.search.cap = CapOf(q.req, Left(q), q.done)
         /\ b.usedHpa = (q.usedHpa \/ HpaAt(q.req, Len(q.done)))
         /\ b.search.hit # NoHit <=> \/ b.search.cap <= 0
                                     \/ /\ Cacheable(svc, q)
                                        /\ \E i \in DOMAIN svc.cache : svc.cache[i].key = Key(q, view, b.search)
<1> DEFINE next == NextSearch(q.req, q.done)
           cap == CapOf(q.req, Left(q), q.done)
           m == view.content
           coldEnd == ColdEnd(q.req, Left(q), q.done, m)
           cold == [spec |-> next.spec, cap |-> cap, charged |-> 0, hit |-> NoHit, seen |-> SeenBy(m, next.spec, 0)]
           key == Key(q, view, cold)
           hit == IF cap <= 0 THEN Synthesized
                  ELSE IF Cacheable(svc, q) THEN Lookup(svc, key) ELSE NoHit
           s == IF hit = NoHit THEN cold ELSE [cold EXCEPT !.seen = <<>>, !.hit = hit]
           h == q.usedHpa \/ next.spec.alg = "hpa"
           b == BeginSearch(svc, q, view)
<1>0. q.req \in RequestState /\ Left(q) \in Int /\ q.done \in Seq(DoneState) /\ m \in Content /\ q.usedHpa \in BOOLEAN
  <2>1. q.req \in RequestState /\ q.spent \in Nat /\ q.done \in Seq(DoneState) /\ q.usedHpa \in BOOLEAN
    BY DEF QueryState
  <2>2. q.req.total \in Nat
    BY <2>1, RequestFacts
  <2> QED BY <2>1, <2>2 DEF Left, MapState
<1>1. b = [q EXCEPT !.usedHpa = h, !.search = s]
  BY DEF BeginSearch, CapOf, Left, CompletedCharge, Costs
<1>2. next.spec \in SpecState /\ (next.spec.alg = "hpa" <=> HpaAt(q.req, Len(q.done)))
  BY <1>0, NextFacts
<1>3. cap \in Int
  BY <1>0, CapFacts
<1>4. coldEnd \in EndState /\ (cap <= 0 => coldEnd = Synthesized) /\ (cap > 0 => coldEnd = Run(m, next.spec, cap))
  BY <1>0, ColdEndFacts
<1>5. SeenBy(m, next.spec, 0) \in SeenState /\ <<>> \in SeenState
  BY <1>0, <1>2, SeenFacts
<1> HIDE DEF next, cap, m, coldEnd, b
<1>6. cold \in SearchState /\ cold.spec = next.spec /\ cold.cap = cap
  BY <1>2, <1>3, <1>5 DEF SearchState
<1>7. key[2] = view.version /\ key[3] = next.spec /\ key[4] = cap
  <2> HIDE DEF cold
  <2> QED BY <1>2, <1>3, <1>6, KeyFacts
<1>8. hit # NoHit => /\ hit \in EndState /\ SameEnd(hit, coldEnd)
                     /\ hit.late = (cap > 0 /\ NeedsExtraIteration(next.spec, hit.status))
  <2>1. CASE cap <= 0
    <3>1. hit = Synthesized
      BY <2>1
    <3>2. ~(cap > 0) /\ Synthesized.late = FALSE
      BY <1>3, <2>1 DEF Synthesized
    <3> HIDE DEF hit
    <3> QED BY <1>4, <2>1, <3>1, <3>2 DEF SameEnd
  <2>2. CASE cap > 0
    <3>1. hit = IF Cacheable(svc, q) THEN Lookup(svc, key) ELSE NoHit
      BY <1>3, <2>2
    <3> HIDE DEF hit, key
    <3>2. ASSUME hit # NoHit
          PROVE  /\ hit \in EndState /\ SameEnd(hit, Run(m, next.spec, cap))
                 /\ hit.late = NeedsExtraIteration(next.spec, hit.status)
      <4>1. hit = Lookup(svc, key)
        BY <3>1, <3>2
      <4> QED BY <1>7, <3>2, <4>1, LookupFits DEF m
    <3>3. NeedsExtraIteration(next.spec, hit.status) = (cap > 0 /\ NeedsExtraIteration(next.spec, hit.status))
      BY <2>2 DEF NeedsExtraIteration
    <3>4. ASSUME hit # NoHit
          PROVE  /\ hit \in EndState /\ SameEnd(hit, coldEnd)
                 /\ hit.late = (cap > 0 /\ NeedsExtraIteration(next.spec, hit.status))
      BY <1>4, <2>2, <3>2, <3>3, <3>4
    <3> QED BY <3>4
  <2> QED BY <1>3, <2>1, <2>2
<1>9. hit # NoHit <=> \/ cap <= 0
                      \/ Cacheable(svc, q) /\ \E i \in DOMAIN svc.cache : svc.cache[i].key = key
  <2>1. CASE cap <= 0
    <3>1. Synthesized.status # NoHit.status
      BY DEF Synthesized, NoHit
    <3> QED BY <2>1, <3>1
  <2>2. CASE cap > 0
    <3>1. (Lookup(svc, key) # NoHit) <=> \E i \in DOMAIN svc.cache : svc.cache[i].key = key
      <4> HIDE DEF key
      <4>1. ASSUME NEW i \in DOMAIN svc.cache, svc.cache[i].key = key PROVE Lookup(svc, key) # NoHit
        <5> DEFINE j == CHOOSE j \in DOMAIN svc.cache : svc.cache[j].key = key
        <5>1. j \in DOMAIN svc.cache /\ Lookup(svc, key) = svc.cache[j].result
          BY <4>1 DEF Lookup
        <5> HIDE DEF j
        <5>2. svc.cache[j] \in CacheState
          BY <5>1
        <5>3. svc.cache[j].result \in EndState
          BY <5>2 DEF CacheState
        <5> QED BY <5>1, <5>3, NoEnd
      <4> QED BY <4>1 DEF Lookup
    <3> HIDE DEF key
    <3> QED BY <1>3, <2>2, <3>1
  <2> QED BY <1>3, <2>1, <2>2
<1>10. /\ s \in SearchState /\ s.spec = next.spec /\ s.cap = cap /\ s.charged = 0
       /\ hit = NoHit => s.hit = NoHit /\ s.seen = SeenBy(m, next.spec, 0)
       /\ hit # NoHit => s.hit = hit /\ s.seen = <<>>
  <2>1. CASE hit = NoHit
    <3>1. s = cold
      BY <2>1
    <3> HIDE DEF hit, s
    <3> QED BY <1>6, <2>1, <3>1
  <2>2. CASE hit # NoHit
    <3>1. s = [cold EXCEPT !.seen = <<>>, !.hit = hit]
      BY <2>2
    <3>2. hit \in EndState
      BY <1>8, <2>2
    <3>3. s = [spec |-> next.spec, cap |-> cap, charged |-> 0, hit |-> hit, seen |-> <<>>]
      <4> HIDE DEF hit, s
      <4> QED BY <3>1
    <3> HIDE DEF hit, s, cold
    <3>4. s \in SearchState
      BY <1>2, <1>3, <1>5, <3>2, <3>3 DEF SearchState
    <3> QED BY <2>2, <3>3, <3>4
  <2> QED BY <2>1, <2>2
<1>11. s.hit # NoHit <=> hit # NoHit
  BY <1>10
<1>12. key = Key(q, view, s)
  <2> HIDE DEF s, hit
  <2> QED BY <1>10 DEF Key
<1> HIDE DEF s, hit, key, cold
<1>13. h \in BOOLEAN /\ h = (q.usedHpa \/ HpaAt(q.req, Len(q.done)))
  BY <1>0, <1>2
<1> HIDE DEF h
<1>14. b \in QueryState /\ SameButSearch(b, q) /\ b.search = s /\ b.usedHpa = h
  BY <1>1, <1>10, <1>13 DEF QueryState, SameButSearch
<1>15. b.req = q.req /\ b.done = q.done /\ Left(b) = Left(q)
  BY <1>14 DEF SameButSearch, Left
<1>16. s.charged <= coldEnd.expansions
  BY <1>4, <1>10 DEF EndState
<1>17. SearchFits(b, m)
  BY <1>3, <1>8, <1>10, <1>14, <1>15, <1>16, <1>9 DEF SearchFits, cap, coldEnd, next
<1>18. Current(b, m)
  BY <1>15, <1>17 DEF Current, next, m
<1>19. s # NoSearch
  BY <1>10, NoEnd
<1> QED BY <1>9, <1>10, <1>11, <1>12, <1>13, <1>14, <1>18, <1>19 DEF next, cap, m, b

(***************************************************************************)
(* What a search leaves                                                    *)
(***************************************************************************)
\* The results that are kept are some of those there were.
LEMMA EvictedFacts ==
  ASSUME NEW c \in Seq(CacheState), NEW view, CacheOK(c, view)
  PROVE  Evicted(c) \in Seq(CacheState) /\ CacheOK(Evicted(c), view)
<1> DEFINE n == Len(c)
           f == Max2(1, n - CacheSize + 1)
           d == SubSeq(c, f, n)
<1>1. n \in Nat /\ f \in Nat /\ 1 <= f
  BY PlanningAssumption DEF Max2
<1> HIDE DEF f
<1>2. d \in Seq(CacheState) /\ \A i \in DOMAIN d : f + i - 1 \in DOMAIN c /\ d[i] = c[f + i - 1]
  BY <1>1
<1>3. Evicted(c) = d
  BY DEF Evicted, f
<1> HIDE DEF d, n
<1>4. CacheOK(d, view)
  BY <1>2 DEF CacheOK
<1> QED BY <1>2, <1>3, <1>4

\* What is stored for a search is its result on the view as it is.
LEMMA StoredFits ==
  ASSUME NEW svc \in ServiceState, NEW view \in MapState, CacheOK(svc.cache, view),
         NEW q \in QueryState, Current(q, view.content), q.search # NoSearch
  PROVE  LET s == Stored(svc, q, view, Result(q.search, view)) IN
         /\ s \in ServiceState /\ CacheOK(s.cache, view)
         /\ s = [svc EXCEPT !.cache = s.cache]
<1> DEFINE m == view.content
           result == Result(q.search, view)
           spec == q.search.spec
           cap == CapOf(q.req, Left(q), q.done)
           key == Key(q, view, q.search)
           late == NeedsExtraIteration(spec, result.status)
           entry == [key |-> key, result |-> [result EXCEPT !.late = late]]
           c == svc.cache
           put == IF Lookup(svc, key) = NoHit THEN Append(c, entry)
                  ELSE [i \in DOMAIN c |-> IF c[i].key = key THEN entry ELSE c[i]]
           s == Stored(svc, q, view, result)
<1>1. svc = [svc EXCEPT !.cache = svc.cache] /\ c \in Seq(CacheState) /\ m \in Content
  BY DEF ServiceState, MapState
<1>2. CASE q.search.hit # NoHit \/ ~Cacheable(svc, q)
  <2>1. s = svc
    BY <1>2 DEF Stored
  <2> QED BY <1>1, <2>1
<1>3. CASE ~(q.search.hit # NoHit \/ ~Cacheable(svc, q))
  <2>1. /\ result \in EndState /\ result = ColdEnd(q.req, Left(q), q.done, m) /\ cap > 0
    BY <1>1, <1>3, ResultFits
  <2>2. /\ q.req \in RequestState /\ Left(q) \in Int /\ q.done \in Seq(DoneState)
    <3>1. q.req \in RequestState /\ q.spent \in Nat /\ q.done \in Seq(DoneState)
      BY DEF QueryState
    <3>2. q.req.total \in Nat
      BY <3>1, RequestFacts
    <3> QED BY <3>1, <3>2 DEF Left
  <2>3. q.search \in SearchState /\ spec = NextSearch(q.req, q.done).spec /\ q.search.cap = cap /\ NextSearch(q.req, q.done) # NoSpec
    BY DEF Current, SearchFits
  <2>4. spec \in SpecState /\ cap \in Int
    BY <2>3 DEF SearchState
  <2>5. result = Run(m, spec, cap)
    BY <1>1, <2>1, <2>2, <2>3, ColdEndFacts
  <2>6. key \in KeyState /\ key[2] = view.version /\ key[3] = spec /\ key[4] = cap
    BY <2>3, <2>4, KeyFacts
  <2>7. late \in BOOLEAN
    BY DEF NeedsExtraIteration
  <2>8. s = [svc EXCEPT !.cache = Evicted(put)]
    <3>1. s = [svc EXCEPT !.cache = Evicted(put)]
      BY <1>3 DEF Stored
    <3> QED BY <3>1
  <2> DEFINE end == [result EXCEPT !.late = late]
  <2>9. end \in EndState /\ SameEnd(end, Run(m, spec, cap)) /\ end.late = late /\ end.status = result.status
    <3> HIDE DEF result, late, spec, cap
    <3> QED BY <2>1, <2>5, <2>7 DEF EndState, SameEnd
  <2> HIDE DEF key, late, spec, cap, m
  <2>10. entry \in CacheState /\ entry.key = key /\ entry.result = end
    <3>1. entry = [key |-> key, result |-> end]
      OBVIOUS
    <3> HIDE DEF end, entry
    <3> QED BY <2>6, <2>9, <3>1 DEF CacheState
  <2>11. /\ entry.key[2] = view.version /\ entry.key[4] > 0
         /\ SameEnd(entry.result, Run(view.content, entry.key[3], entry.key[4]))
         /\ entry.result.late = NeedsExtraIteration(entry.key[3], entry.result.status)
    <3>1. end.late = NeedsExtraIteration(spec, end.status)
      BY <2>9 DEF late
    <3> HIDE DEF entry, end, result
    <3> QED BY <2>1, <2>6, <2>9, <2>10, <3>1 DEF m
  <2> HIDE DEF entry, end, result
  <2>12. put \in Seq(CacheState) /\ \A i \in DOMAIN put : put[i] = entry \/ (i \in DOMAIN c /\ put[i] = c[i])
    <3> HIDE DEF c
    <3>1. CASE Lookup(svc, key) = NoHit
      <4>1. put = Append(c, entry)
        BY <3>1
      <4> QED BY <1>1, <2>10, <4>1
    <3>2. CASE Lookup(svc, key) # NoHit
      <4>1. put = [i \in DOMAIN c |-> IF c[i].key = key THEN entry ELSE c[i]]
        BY <3>2
      <4>2. DOMAIN c = 1..Len(c) /\ Len(c) \in Nat /\ \A i \in 1..Len(c) : c[i] \in CacheState
        BY <1>1
      <4>3. put \in [1..Len(c) -> CacheState]
        BY <2>10, <4>1, <4>2
      <4>4. \A i \in 1..Len(c) : put[i] = entry \/ put[i] = c[i]
        BY <4>1, <4>2
      <4> HIDE DEF put
      <4>5. put \in Seq(CacheState) /\ DOMAIN put = 1..Len(c)
        BY <4>2, <4>3
      <4> QED BY <4>2, <4>4, <4>5
    <3> QED BY <3>1, <3>2
  <2> HIDE DEF put
  <2>13. view.version \in Nat
    BY DEF MapState
  <2>14. CacheOK(put, view)
    BY <2>11, <2>12, <2>13 DEF CacheOK
  <2>15. Evicted(put) \in Seq(CacheState) /\ CacheOK(Evicted(put), view)
    BY <2>12, <2>14, EvictedFacts
  <2> HIDE DEF s
  <2>16. s.cache = Evicted(put) /\ s \in ServiceState
    BY <2>8, <2>15 DEF ServiceState
  <2> QED BY <2>8, <2>15, <2>16 DEF s, result
<1> QED BY <1>2, <1>3

(***************************************************************************)
(* A search spends                                                         *)
(***************************************************************************)
LEMMA QueryFacts ==
  ASSUME NEW q \in QueryState
  PROVE  /\ q # NoQuery
         /\ q.req \in RequestState /\ q.spent \in Nat /\ q.done \in Seq(DoneState) /\ q.usedHpa \in BOOLEAN
         /\ q.work \in Int /\ q.age \in Nat /\ q.search \in SearchState \cup {NoSearch} /\ q.carry \in CarryState
         /\ q.req.total \in Nat /\ Left(q) \in Int /\ Left(q) = q.req.total - q.spent
         /\ q.search.charged \in Nat /\ CompletedCharge(q) = Costs(q.done) /\ Costs(q.done) \in Nat
         /\ Charged(q) = Costs(q.done) + q.search.charged /\ Charged(q) \in Nat /\ Len(q.done) \in Nat
<1>1. /\ q.req \in RequestState /\ q.spent \in Nat /\ q.done \in Seq(DoneState) /\ q.usedHpa \in BOOLEAN
      /\ q.work \in Int /\ q.age \in Nat /\ q.search \in SearchState \cup {NoSearch} /\ q.id \in Nat \ {0} /\ q.carry \in CarryState
  BY DEF QueryState
<1>2. q.req.total \in Nat
  BY <1>1, RequestFacts
<1>3. q # NoQuery
  BY <1>1 DEF NoQuery
<1>4. q.search.charged \in Nat
  BY <1>1 DEF SearchState, NoSearch
<1>5. Costs(q.done) \in Nat
  BY <1>1, CostsType
<1>6. CompletedCharge(q) = Costs(q.done)
  BY DEF CompletedCharge, Costs
<1>7. Len(q.done) \in Nat
  BY <1>1
<1> QED BY <1>1, <1>2, <1>3, <1>4, <1>5, <1>6, <1>7 DEF Left, Charged

\* The search of a query whose search is on.
LEMMA SearchFacts ==
  ASSUME NEW q \in QueryState, NEW view \in MapState, Current(q, view.content), q.search # NoSearch
  PROVE  LET r == Result(q.search, view) IN
         /\ NextSearch(q.req, q.done) # NoSpec /\ SearchFits(q, view.content)
         /\ r \in EndState /\ r.expansions \in Nat /\ q.search.charged <= r.expansions
         /\ SameEnd(r, ColdEnd(q.req, Left(q), q.done, view.content))
         /\ q.search \in SearchState /\ q.search.spec \in SpecState /\ q.search.spec = NextSearch(q.req, q.done).spec
         /\ Costs(q.done) <= Left(q) => r.expansions <= Left(q) - Costs(q.done)
<1> DEFINE m == view.content
           r == Result(q.search, view)
           cold == ColdEnd(q.req, Left(q), q.done, m)
<1>1. NextSearch(q.req, q.done) # NoSpec /\ SearchFits(q, m)
  BY DEF Current
<1>2. q.search \in SearchState /\ q.search.spec = NextSearch(q.req, q.done).spec
  BY <1>1 DEF SearchFits
<1>3. m \in Content
  BY DEF MapState
<1>4. r \in EndState /\ SameEnd(r, cold) /\ q.search.charged <= r.expansions
  BY <1>3, ResultFits
<1>5. Costs(q.done) <= Left(q) => cold.expansions <= Left(q) - Costs(q.done)
  BY <1>1, <1>3, QueryFacts, ColdEndFacts
<1>6. r.expansions = cold.expansions
  BY <1>4 DEF SameEnd
<1>7. q.search.spec \in SpecState
  BY <1>2 DEF SearchState
<1>8. r.expansions \in Nat
  BY <1>4 DEF EndState
<1> HIDE DEF r, cold
<1> QED BY <1>1, <1>2, <1>4, <1>5, <1>6, <1>7, <1>8 DEF r, cold

\* A query with all but its searches and their work as they were.
Unmoved(g, q) ==
  /\ g.id = q.id /\ g.req = q.req /\ g.age = q.age /\ g.restarts = q.restarts /\ g.continuations = q.continuations
  /\ g.spent = q.spent /\ g.seen = q.seen /\ g.seenGraph = q.seenGraph /\ g.carry = q.carry

LEMMA GoesOnFits ==
  ASSUME NEW q, NEW view \in MapState, QueryNow(q, view), q.search # NoSearch, NEW n \in Nat,
         q.search.charged <= n, n <= Result(q.search, view).expansions
  PROVE  LET g == GoesOn(q, view, n) IN
         /\ QueryNow(g, view) /\ g # NoQuery /\ g.req = q.req /\ g.done = q.done /\ g.spent = q.spent /\ g.age = q.age
         /\ g.id = q.id /\ Charged(g) = Charged(q) + (n - q.search.charged) /\ g.work = q.work + (n - q.search.charged)
         /\ Unmoved(g, q) /\ g.search # NoSearch /\ g.search.charged = n
<1> DEFINE m == view.content
           s == q.search
           g == GoesOn(q, view, n)
           seen == IF s.hit = NoHit THEN SeenBy(Terrain(s, view), s.spec, n) ELSE s.seen
           e == [spec |-> s.spec, cap |-> s.cap, charged |-> n, hit |-> s.hit, seen |-> seen]
           w == q.work + n - s.charged
           cold == ColdEnd(q.req, Left(q), q.done, m)
           cap == CapOf(q.req, Left(q), q.done)
<1>1. q \in QueryState /\ Current(q, m) /\ m \in Content
  BY DEF QueryNow, MapState
<1>2. /\ NextSearch(q.req, q.done) # NoSpec /\ SearchFits(q, m)
      /\ SameEnd(Result(s, view), cold) /\ s \in SearchState /\ s.spec \in SpecState /\ s.spec = NextSearch(q.req, q.done).spec
  BY <1>1, SearchFacts
<1>3. s = [spec |-> s.spec, cap |-> s.cap, charged |-> s.charged, hit |-> s.hit, seen |-> s.seen]
  BY <1>2 DEF SearchState
<1>4. g = [q EXCEPT !.search = e, !.work = w]
  <2>1. q.search \in [spec : SpecState, cap : Int, charged : Nat, hit : EndState \cup {NoHit}, seen : SeenState]
    BY <1>2 DEF SearchState
  <2>2. [[q.search EXCEPT !.charged = n] EXCEPT !.seen = seen] = e
    <3> HIDE DEF seen
    <3>1. [q.search EXCEPT !.charged = n] = [spec |-> s.spec, cap |-> s.cap, charged |-> n, hit |-> s.hit, seen |-> s.seen]
      BY <2>1
    <3>2. [[spec |-> s.spec, cap |-> s.cap, charged |-> n, hit |-> s.hit, seen |-> s.seen] EXCEPT !.seen = seen] = e
      OBVIOUS
    <3> HIDE DEF e
    <3> QED BY <3>1, <3>2
  <2> HIDE DEF e, seen, w
  <2>3. g = [[[q EXCEPT !.search = [q.search EXCEPT !.charged = n]] EXCEPT !.work = w] EXCEPT !.search = [[q.search EXCEPT !.charged = n] EXCEPT !.seen = seen]]
    BY <1>1 DEF GoesOn, QueryState, w, seen
  <2> QED BY <1>1, <2>2, <2>3 DEF QueryState
<1>5. /\ s.cap = cap /\ (s.hit = NoHit => cap > 0 /\ Terrain(s, view) = m)
      /\ (s.hit # NoHit => /\ SameEnd(s.hit, cold) /\ s.seen = <<>>
                           /\ s.hit.late = (cap > 0 /\ NeedsExtraIteration(s.spec, s.hit.status)))
  <2>1. s.hit = NoHit => Terrain(s, view) = m /\ cap > 0
    BY <1>1, ResultFits
  <2> HIDE DEF cold, cap, m
  <2> QED BY <1>2, <2>1 DEF SearchFits, cold, cap, m
<1>6. seen \in SeenState /\ (s.hit = NoHit => seen = SeenBy(m, s.spec, n)) /\ (s.hit # NoHit => seen = <<>>)
  <2>1. SeenBy(m, s.spec, n) \in SeenState /\ s.seen \in SeenState
    BY <1>1, <1>2, SeenFacts DEF SearchState
  <2> QED BY <1>5, <2>1
<1> HIDE DEF seen, w
<1>7. e \in SearchState /\ e # NoSearch
  <2>1. s.cap \in Int /\ s.hit \in EndState \cup {NoHit}
    BY <1>2 DEF SearchState
  <2>2. e \in SearchState
    BY <1>2, <1>6, <2>1 DEF SearchState
  <2> QED BY <2>2, NoEnd
<1>8. w \in Int /\ w = q.work + (n - s.charged)
  BY <1>1, QueryFacts DEF w
<1>9. /\ e.spec = s.spec /\ e.cap = s.cap /\ e.charged = n /\ e.hit = s.hit /\ e.seen = seen
  OBVIOUS
<1> HIDE DEF e
<1>10. /\ g \in QueryState /\ g.search = e /\ g.work = w /\ g.req = q.req /\ g.done = q.done /\ g.spent = q.spent /\ g.age = q.age
       /\ g.id = q.id /\ g.seen = q.seen /\ g.seenGraph = q.seenGraph /\ g.carry = q.carry /\ g.usedHpa = q.usedHpa
       /\ g.restarts = q.restarts /\ g.continuations = q.continuations
  <2> HIDE DEF g
  <2> QED BY <1>1, <1>4, <1>7, <1>8 DEF QueryState
<1> HIDE DEF g
<1>11. Left(g) = Left(q)
  BY <1>10 DEF Left
<1>12. n <= cold.expansions
  BY <1>2 DEF SameEnd
<1>13. SearchFits(g, m)
  <2> HIDE DEF m
  <2> QED BY <1>2, <1>5, <1>6, <1>7, <1>9, <1>10, <1>11, <1>12 DEF SearchFits, cold, cap
<1>14. Current(g, m)
  BY <1>1, <1>10, <1>11, <1>13 DEF Current
<1>15. UsedOK(g)
  <2>1. UsedOK(q) /\ Begun(g) = Begun(q)
    BY <1>7, <1>10 DEF QueryNow, Begun
  <2> QED BY <1>10, <2>1 DEF UsedOK
<1>16. QueryNow(g, view)
  BY <1>10, <1>14, <1>15 DEF QueryNow
<1>17. Charged(g) = Charged(q) + (n - s.charged) /\ g # NoQuery
  <2>1. Charged(g) = Costs(g.done) + g.search.charged /\ g # NoQuery
    BY <1>10, QueryFacts
  <2>2. Charged(q) = Costs(q.done) + s.charged /\ Costs(q.done) \in Nat /\ s.charged \in Nat
    BY <1>1, QueryFacts
  <2> QED BY <1>9, <1>10, <2>1, <2>2
<1>18. Unmoved(g, q)
  BY <1>10 DEF Unmoved
<1> QED BY <1>7, <1>8, <1>9, <1>10, <1>16, <1>17, <1>18 DEF g

LEMMA HasEndedFits ==
  ASSUME NEW q, NEW view \in MapState, QueryNow(q, view), q.search # NoSearch
  PROVE  LET r == Result(q.search, view)
             after == HasEnded(q, r) IN
         /\ after \in QueryState /\ after.search = NoSearch /\ after.seen <= view.version /\ after.seenGraph <= view.version
         /\ UsedOK(after) /\ after.carry = NoCarry /\ ColdDone(after.req, Left(after), after.done, view.content)
         /\ Len(after.done) = Len(q.done) + 1 /\ Last(after.done).status = r.status /\ after.done # <<>>
         /\ Charged(after) = Charged(q) + (r.expansions - q.search.charged)
         /\ after.work = q.work + (r.expansions - q.search.charged)
         /\ after.req = q.req /\ after.spent = q.spent /\ after.age = q.age /\ after.id = q.id
         /\ NextSearch(after.req, after.done) # NoSpec => QueryNow(after, view)
         /\ Unmoved(after, q) /\ after.done = Append(q.done, WithEnd(r, q.age))
<1> DEFINE m == view.content
           r == Result(q.search, view)
           after == HasEnded(q, r)
           x == WithEnd(r, q.age)
           w == q.work + r.expansions - q.search.charged
           cold == ColdEnd(q.req, Left(q), q.done, m)
<1>1. q \in QueryState /\ Current(q, m) /\ m \in Content
  BY DEF QueryNow, MapState
<1>2. /\ NextSearch(q.req, q.done) # NoSpec /\ ColdDone(q.req, Left(q), q.done, m)
      /\ SameEnd(r, cold) /\ r \in EndState /\ r.expansions \in Nat
  BY <1>1, SearchFacts DEF Current
<1>3. q.done \in Seq(DoneState) /\ q.age \in Nat /\ q.work \in Int /\ q.search.charged \in Nat /\ Len(q.done) \in Nat
  BY <1>1, QueryFacts
<1> HIDE DEF r
<1>4. x \in DoneState /\ SameEnd(x, cold) /\ x.expansions = r.expansions /\ x.status = r.status
  BY <1>2, <1>3 DEF WithEnd, DoneState, EndState, SameEnd
<1>5. w \in Int /\ w = q.work + (r.expansions - q.search.charged)
  BY <1>2, <1>3
<1>6. after = [q EXCEPT !.done = Append(q.done, x), !.search = NoSearch, !.work = w]
  BY <1>1 DEF HasEnded, QueryState
<1> HIDE DEF x, w, after, cold
<1>7. /\ Append(q.done, x) \in Seq(DoneState) /\ Len(Append(q.done, x)) = Len(q.done) + 1
      /\ Append(q.done, x)[Len(q.done) + 1] = x
  BY <1>3, <1>4
<1>8. /\ after \in QueryState /\ after.done = Append(q.done, x) /\ after.search = NoSearch /\ after.work = w
      /\ after.req = q.req /\ after.spent = q.spent /\ after.age = q.age /\ after.id = q.id
      /\ after.seen = q.seen /\ after.seenGraph = q.seenGraph /\ after.carry = q.carry /\ after.usedHpa = q.usedHpa
      /\ after.restarts = q.restarts /\ after.continuations = q.continuations
  BY <1>1, <1>5, <1>6, <1>7 DEF QueryState
<1>9. Left(after) = Left(q)
  BY <1>8 DEF Left
<1>10. ColdDone(after.req, Left(after), after.done, m)
  BY <1>2, <1>3, <1>4, <1>8, <1>9, ColdAppend DEF cold
<1>11. Len(after.done) = Len(q.done) + 1 /\ Last(after.done).status = r.status /\ after.done # <<>>
  <2>1. Last(after.done) = x
    BY <1>7, <1>8 DEF Last
  <2>2. after.done # <<>>
    BY <1>3, <1>7, <1>8
  <2> QED BY <1>4, <1>7, <1>8, <2>1, <2>2
<1>12. Begun(after) = Begun(q)
  <2>1. Begun(after) = Len(after.done) + 0 /\ Begun(q) = Len(q.done) + 1
    BY <1>8 DEF Begun
  <2> QED BY <1>3, <1>11, <2>1
<1>13. UsedOK(after)
  BY <1>8, <1>12 DEF UsedOK, QueryNow
<1>14. Costs(Append(q.done, x)) = Costs(q.done) + x.expansions
  <2>1. Costly(DoneState)
    BY DEF Costly, DoneState
  <2> QED BY <1>3, <1>4, <2>1, CostsOne
<1>15. Charged(after) = Charged(q) + (r.expansions - q.search.charged)
  <2>1. Charged(after) = Costs(after.done) + after.search.charged
    BY <1>8, QueryFacts
  <2>2. Charged(q) = Costs(q.done) + q.search.charged /\ Costs(q.done) \in Nat
    BY <1>1, QueryFacts
  <2>3. after.search.charged = 0
    BY <1>8 DEF NoSearch
  <2> QED BY <1>2, <1>3, <1>4, <1>8, <1>14, <2>1, <2>2, <2>3
<1>16. NextSearch(after.req, after.done) # NoSpec => Current(after, m)
  BY <1>8, <1>10 DEF Current
<1>17. after.seen <= view.version /\ after.seenGraph <= view.version /\ after.carry = NoCarry
  BY <1>8 DEF QueryNow
<1>18. Unmoved(after, q) /\ after.done = Append(q.done, WithEnd(r, q.age))
  BY <1>8 DEF Unmoved, x
<1> QED BY <1>5, <1>8, <1>10, <1>11, <1>13, <1>15, <1>16, <1>17, <1>18 DEF QueryNow, after, r

(***************************************************************************)
(* The turns of a slice                                                    *)
(***************************************************************************)
LEMMA ListOf == ASSUME NEW D, NEW n \in Nat, NEW f \in [1..n -> D] PROVE f \in Seq(D)
OBVIOUS

LEMMA NoLegsFacts == \A l \in LegState : l # NoLegs
<1>1. \A l \in LegState : "pending" \in DOMAIN l
  BY DEF LegState
<1>2. "pending" \notin DOMAIN NoLegs
  BY DEF NoLegs
<1> QED BY <1>1, <1>2

\* The legs of a query with the one that its search has found.
LEMMA WithLegFits ==
  ASSUME NEW q, NEW view \in MapState, QueryNow(q, view), q.search # NoSearch,
         NEW l \in LegState \cup {NoLegs}, LegsFor(l, q), PendingOK(l, view.content)
  PROVE  LET k == WithLeg(l, q, Result(q.search, view)) IN
         /\ k \in LegState \cup {NoLegs} /\ LegsFor(k, q) /\ PendingOK(k, view.content) /\ (k = NoLegs <=> l = NoLegs)
         /\ k # NoLegs => ~k.done
<1> DEFINE m == view.content
           r == Result(q.search, view)
           spec == q.search.spec
           leg == [index |-> Len(q.done), from |-> spec.from, to |-> spec.to]
           k == WithLeg(l, q, r)
           cap == CapOf(q.req, Left(q), q.done)
<1>1. q \in QueryState /\ Current(q, m) /\ m \in Content /\ q # NoQuery
  BY QueryFacts DEF QueryNow, MapState
<1>2. /\ NextSearch(q.req, q.done) # NoSpec /\ SameEnd(r, ColdEnd(q.req, Left(q), q.done, m))
      /\ spec \in SpecState /\ spec = NextSearch(q.req, q.done).spec
  BY <1>1, SearchFacts
<1>3. l # NoLegs => ~l.done
  BY <1>1 DEF LegsFor, Active
<1>4. CASE ~(q.req.kind = "refine" /\ q.done # <<>> /\ r.status = "found")
  <2>1. k = l
    BY <1>4 DEF WithLeg
  <2> QED BY <1>3, <2>1
<1>5. CASE q.req.kind = "refine" /\ q.done # <<>> /\ r.status = "found"
  <2>1. l # NoLegs /\ l \in LegState
    BY <1>1, <1>5 DEF LegsFor, Active
  <2>2. l \in [id : Nat, pending : Seq(Leg), produced : Nat, done : BOOLEAN, status : LegStatuses]
    BY <2>1 DEF LegState
  <2>3. k = [l EXCEPT !.pending = Append(l.pending, leg), !.produced = l.produced + 1]
    BY <1>5, <2>2 DEF WithLeg
  <2>4. leg \in Leg
    <3>1. spec.from \in Row /\ spec.to \in Row
      BY <1>2 DEF SpecState
    <3>2. Len(q.done) \in Nat
      BY <1>1, QueryFacts
    <3> QED BY <3>1, <3>2 DEF Leg
  <2>5. LegOK(leg, m)
    <3>1. cap > 0 /\ ColdEnd(q.req, Left(q), q.done, m) = Run(m, spec, cap)
      <4>1. cap \in Int /\ (cap <= 0 => ColdEnd(q.req, Left(q), q.done, m) = Synthesized)
            /\ (cap > 0 => ColdEnd(q.req, Left(q), q.done, m) = Run(m, spec, cap))
        BY <1>1, <1>2, QueryFacts, CapFacts, ColdEndFacts
      <4>2. ColdEnd(q.req, Left(q), q.done, m).status = "found"
        BY <1>2, <1>5 DEF SameEnd
      <4>3. Synthesized.status # "found"
        BY DEF Synthesized
      <4> HIDE DEF cap
      <4> QED BY <4>1, <4>2, <4>3
    <3>2. Run(m, spec, cap).status = "found"
      BY <1>2, <1>5, <3>1 DEF SameEnd
    <3> HIDE DEF cap, spec, m
    <3>3. Walls(m, spec) = {}
      BY <3>2 DEF Run, SearchEnd
    <3> QED BY <3>3 DEF LegOK, Walls
  <2> HIDE DEF k, leg, m
  <2>6. Append(l.pending, leg) \in Seq(Leg)
    BY <2>2, <2>4
  <2>7. /\ k \in LegState /\ k.pending = Append(l.pending, leg) /\ k.done = l.done
    <3>1. l.id \in Nat /\ l.produced + 1 \in Nat /\ l.done \in BOOLEAN /\ l.status \in LegStatuses
      BY <2>2
    <3>2. k = [id |-> l.id, pending |-> Append(l.pending, leg), produced |-> l.produced + 1, done |-> l.done, status |-> l.status]
      BY <2>2, <2>3
    <3> QED BY <2>6, <3>1, <3>2 DEF LegState
  <2>8. \A i \in DOMAIN k.pending : LegOK(k.pending[i], m)
    <3>1. \A i \in DOMAIN l.pending : LegOK(l.pending[i], m)
      BY <2>1 DEF PendingOK, m
    <3>2. l.pending \in Seq(Leg)
      BY <2>2
    <3>3. \A i \in DOMAIN k.pending : k.pending[i] = leg \/ (i \in DOMAIN l.pending /\ k.pending[i] = l.pending[i])
      BY <2>4, <2>7, <3>2
    <3> QED BY <2>5, <3>1, <3>3
  <2>9. k # NoLegs
    BY <2>7, NoLegsFacts
  <2> QED BY <1>3, <2>1, <2>7, <2>8, <2>9 DEF LegsFor, PendingOK, k, m
<1> QED BY <1>4, <1>5

\* A query ends.
LEMMA CompletedFits ==
  ASSUME NEW a \in Agents, NEW view \in MapState, NEW base, NEW paid \in BOOLEAN, NEW svc, SliceOK(svc, a, view, base, paid),
         NEW q \in QueryState, NEW status \in Statuses, NEW charge \in Int,
         OutcomeOK(Outcome(q, a, status, charge), view.content), paid => OutcomePaid(Outcome(q, a, status, charge))
  PROVE  LET c == Completed(svc, a, q, status, charge) IN
         SliceOK(c, a, view, base, paid) /\ c.queries[a] = NoQuery
<1> DEFINE o == Outcome(q, a, status, charge)
           c == Completed(svc, a, q, status, charge)
           l == svc.legs[a]
           k == IF l = NoLegs THEN l ELSE [l EXCEPT !.done = TRUE, !.status = status]
           trace == [i \in DOMAIN q.done |-> [expansions |-> q.done[i].expansions, ended |-> q.done[i].ended]]
<1>1. svc \in ServiceState
  BY DEF SliceOK
<1>2. /\ svc.queries \in [Agents -> QueryState \cup {NoQuery}] /\ svc.legs \in [Agents -> LegState \cup {NoLegs}]
      /\ svc.out \in Seq(OutcomeState)
  BY <1>1 DEF ServiceState
<1>3. o \in OutcomeState
  <2>1. /\ q.id \in Nat /\ q.req \in RequestState /\ q.spent \in Nat /\ q.age \in Nat /\ q.work \in Int
        /\ q.restarts \in Nat /\ q.continuations \in Nat /\ q.done \in Seq(DoneState)
    BY DEF QueryState
  <2>2. trace \in Seq([expansions : Nat, ended : Nat])
    <3>1. Len(q.done) \in Nat /\ DOMAIN q.done = 1..Len(q.done) /\ \A i \in 1..Len(q.done) : q.done[i] \in DoneState
      BY <2>1
    <3>2. \A i \in 1..Len(q.done) : q.done[i].expansions \in Nat /\ q.done[i].ended \in Nat
      BY <3>1 DEF DoneState
    <3>3. trace \in [1..Len(q.done) -> [expansions : Nat, ended : Nat]]
      BY <3>1, <3>2
    <3> HIDE DEF trace
    <3> QED BY <3>1, <3>3, ListOf
  <2>3. o = [id |-> q.id, agent |-> a, req |-> q.req, status |-> status, charge |-> charge, spent |-> q.spent, age |-> q.age,
             work |-> q.work, restarts |-> q.restarts, continuations |-> q.continuations, trace |-> trace]
    BY DEF Outcome
  <2> HIDE DEF o, trace
  <2> QED BY <2>1, <2>2, <2>3 DEF OutcomeState
<1>4. k \in LegState \cup {NoLegs} /\ PendingOK(k, view.content)
  <2>1. CASE l = NoLegs
    BY <2>1 DEF PendingOK
  <2>2. CASE l # NoLegs
    <3>1. l \in LegState /\ k = [l EXCEPT !.done = TRUE, !.status = status]
      BY <1>2, <2>2
    <3> DEFINE n == l
    <3> HIDE DEF l
    <3>2. k \in LegState /\ k.pending = l.pending
      <4> HIDE DEF k
      <4> QED BY <3>1 DEF LegState, LegStatuses
    <3>3. \A i \in DOMAIN l.pending : LegOK(l.pending[i], view.content)
      BY <2>2 DEF SliceOK, PendingOK, l
    <3> HIDE DEF k
    <3> QED BY <3>2, <3>3 DEF PendingOK
  <2> QED BY <2>1, <2>2
<1>5. c = [svc EXCEPT !.queries = [svc.queries EXCEPT ![a] = NoQuery], !.legs = [svc.legs EXCEPT ![a] = k],
                      !.out = Append(svc.out, o)]
  <2>1. c = [svc EXCEPT !.queries[a] = NoQuery, !.legs[a] = k, !.out = Append(svc.out, o)]
    <3> HIDE DEF o
    <3> QED BY <1>1, <1>2 DEF Completed, ServiceState, o
  <2> HIDE DEF o, k, c
  <2> QED BY <1>1, <1>2, <2>1 DEF ServiceState
<1> HIDE DEF k, o, c
<1>6. /\ c.queries = [svc.queries EXCEPT ![a] = NoQuery] /\ c.legs = [svc.legs EXCEPT ![a] = k] /\ c.out = Append(svc.out, o)
      /\ c.cache = svc.cache /\ c.caching = svc.caching /\ c.handed = svc.handed /\ c \in ServiceState
  <2>1. Append(svc.out, o) \in Seq(OutcomeState)
    BY <1>2, <1>3
  <2>2. [svc.queries EXCEPT ![a] = NoQuery] \in [Agents -> QueryState \cup {NoQuery}]
    BY <1>2
  <2>3. [svc.legs EXCEPT ![a] = k] \in [Agents -> LegState \cup {NoLegs}]
    BY <1>2, <1>4
  <2> QED BY <1>1, <1>5, <2>1, <2>2, <2>3 DEF ServiceState
<1>7. OutsOK(c.out, view.content, paid)
  <2>1. OutsOK(svc.out, view.content, paid)
    BY DEF SliceOK
  <2>2. \A i \in DOMAIN c.out : c.out[i] = o \/ (i \in DOMAIN svc.out /\ c.out[i] = svc.out[i])
    BY <1>2, <1>3, <1>6
  <2>3. OutcomeOK(o, view.content) /\ (paid => OutcomePaid(o))
    BY DEF o
  <2> QED BY <2>1, <2>2, <2>3 DEF OutsOK
<1>8. c.legs[a] = k /\ c.queries[a] = NoQuery
      /\ \A b \in Agents \ {a} : c.queries[b] = svc.queries[b] /\ c.legs[b] = svc.legs[b]
  BY <1>2, <1>6
<1>9. SliceOK(c, a, view, base, paid)
  BY <1>4, <1>6, <1>7, <1>8 DEF SliceOK
<1> QED BY <1>8, <1>9 DEF c

\* What a query has spent stays in its budget.
LEMMA PaidFacts ==
  ASSUME NEW q \in QueryState, NEW view \in MapState, Current(q, view.content), q.search # NoSearch,
         NEW a, NEW left, PaidBut(q, a, left)
  PROVE  q.spent + Charged(q) + (Result(q.search, view).expansions - q.search.charged) <= q.req.total
<1>1. /\ q.spent \in Nat /\ q.req.total \in Nat /\ Left(q) = q.req.total - q.spent /\ q.search.charged \in Nat
      /\ Costs(q.done) \in Nat /\ Charged(q) = Costs(q.done) + q.search.charged
  BY QueryFacts
<1>2. /\ Result(q.search, view).expansions \in Nat
      /\ Costs(q.done) <= Left(q) => Result(q.search, view).expansions <= Left(q) - Costs(q.done)
  BY SearchFacts
<1>3. q.spent + Charged(q) <= q.req.total
  BY DEF PaidBut
<1> QED BY <1>1, <1>2, <1>3

LEMMA SpendSums ==
  \A c, e, u \in Nat : u <= e - c => c + u \in Nat /\ c <= c + u /\ c + u <= e /\ (c + u) - c = u
OBVIOUS

LEMMA SpendFits ==
  ASSUME NEW a \in Agents, NEW view \in MapState, NEW base, NEW paid \in BOOLEAN, NEW t \in TurnState,
         SliceOK(t.svc, a, view, base, paid), NEW q, QueryNow(q, view), q.search # NoSearch, LegsFor(t.svc.legs[a], q),
         t.left > 0, paid => PaidBut(q, a, t.left), NEW n \in Nat, Len(q.done) >= n
  PROVE  TurnOK(InSearch(t, a, view, q, Result(q.search, view)), a, view, base, paid, n + 1)
<1> DEFINE m == view.content
           r == Result(q.search, view)
           used == Least(t.left, r.expansions - q.search.charged)
           u == InSearch(t, a, view, q, r)
           svc == t.svc
<1>1. q \in QueryState /\ q # NoQuery /\ Current(q, m) /\ m \in Content
  BY QueryFacts DEF QueryNow, MapState
<1>2. /\ r \in EndState /\ r.expansions \in Nat /\ q.search.charged <= r.expansions /\ q.search.charged \in Nat
  BY <1>1, SearchFacts, QueryFacts
<1>3. t.left \in Int /\ svc \in ServiceState /\ t = [svc |-> svc, q |-> t.q, left |-> t.left, on |-> t.on]
  BY DEF TurnState
<1>4. used \in Nat /\ used <= t.left /\ used <= r.expansions - q.search.charged
      /\ (used = t.left \/ used = r.expansions - q.search.charged)
  <2> HIDE DEF r
  <2> QED BY <1>2, <1>3 DEF Least
<1>5. u = Spend(t, a, view, q, r, used)
  BY DEF InSearch
<1>6. paid => q.spent + Charged(q) + (r.expansions - q.search.charged) <= q.req.total
  BY <1>1, PaidFacts
<1>7. q.spent \in Nat /\ q.req.total \in Nat /\ Charged(q) \in Nat /\ q.work \in Int /\ q.age \in Nat
  BY <1>1, QueryFacts
<1> HIDE DEF r, used, u
<1>8. CASE \/ q.search.charged + used < r.expansions
           \/ r.late /\ used >= t.left
  <2> DEFINE g == GoesOn(q, view, q.search.charged + used)
  <2>1. u = [t EXCEPT !.q = g, !.on = FALSE]
    BY <1>5, <1>8 DEF Spend
  <2>2. used = t.left
    BY <1>2, <1>3, <1>4, <1>8
  <2>3. /\ QueryNow(g, view) /\ g # NoQuery /\ g.req = q.req /\ g.spent = q.spent /\ g.age = q.age
        /\ Charged(g) = Charged(q) + used /\ g.work = q.work + used
    <3> DEFINE c == q.search.charged + used
    <3>1. c \in Nat /\ q.search.charged <= c /\ c <= r.expansions /\ c - q.search.charged = used
      BY <1>2, <1>4, SpendSums
    <3> HIDE DEF c
    <3>2. /\ QueryNow(GoesOn(q, view, c), view) /\ GoesOn(q, view, c) # NoQuery /\ GoesOn(q, view, c).req = q.req
          /\ GoesOn(q, view, c).spent = q.spent /\ GoesOn(q, view, c).age = q.age
          /\ Charged(GoesOn(q, view, c)) = Charged(q) + (c - q.search.charged)
          /\ GoesOn(q, view, c).work = q.work + (c - q.search.charged)
      BY <3>1, GoesOnFits DEF r
    <3> QED BY <3>1, <3>2 DEF c
  <2> HIDE DEF g
  <2>4. u.svc = svc /\ u.q = g /\ u.on = FALSE /\ u \in TurnState
    <3>1. g \in QueryState
      BY <2>3 DEF QueryNow
    <3> QED BY <1>3, <2>1, <3>1 DEF TurnState
  <2>5. paid => PaidBut(g, a, 0)
    <3>1. paid => q.work + used = PerTick[a] * q.age /\ q.spent + Charged(q) = q.work
      BY <2>2 DEF PaidBut
    <3>2. paid => g.work + 0 = PerTick[a] * g.age
      BY <1>4, <1>7, <2>3, <3>1
    <3>3. ASSUME paid PROVE g.spent + Charged(g) = g.work /\ g.work <= g.req.total
      <4>1. q.spent + Charged(q) + (r.expansions - q.search.charged) <= q.req.total /\ q.spent + Charged(q) = q.work
        BY <1>6, <3>1, <3>3
      <4>2. q.spent + (Charged(q) + used) = q.work + used /\ q.work + used <= q.req.total
        <5>1. used \in Nat /\ used <= r.expansions - q.search.charged /\ r.expansions \in Nat /\ q.search.charged \in Nat
          BY <1>2, <1>4
        <5>2. PICK w \in Int : w = q.work
          BY <1>7
        <5>3. PICK h \in Nat : h = Charged(q)
          BY <1>7
        <5>4. PICK x \in Int : x = r.expansions - q.search.charged
          BY <5>1
        <5>5. PICK s \in Nat : s = q.spent
          BY <1>7
        <5>6. PICK u1 \in Nat : u1 = used
          BY <5>1
        <5>7. PICK z \in Nat : z = q.req.total
          BY <1>7
        <5>8. s + h + x <= z /\ s + h = w /\ u1 <= x
          BY <4>1, <5>1, <5>2, <5>3, <5>4, <5>5, <5>6, <5>7
        <5>9. s + (h + u1) = w + u1 /\ w + u1 <= z
          BY <5>8
        <5> QED BY <5>2, <5>3, <5>5, <5>6, <5>7, <5>9
      <4> QED BY <2>3, <4>2
    <3> QED BY <3>2, <3>3 DEF PaidBut
  <2>6. LegsFor(svc.legs[a], g)
    BY <1>1, <2>3 DEF LegsFor, Active
  <2> QED BY <2>3, <2>4, <2>5, <2>6 DEF TurnOK, u, r
<1>9. CASE ~(\/ q.search.charged + used < r.expansions
             \/ r.late /\ used >= t.left)
  <2> DEFINE after == HasEnded(q, r)
             stored == Stored(svc, q, view, r)
             legs == WithLeg(svc.legs[a], q, r)
             next == [stored EXCEPT !.legs[a] = legs]
             left == t.left - used
             charge == after.spent + CompletedCharge(after)
  <2>1. used = r.expansions - q.search.charged
    BY <1>2, <1>4, <1>9
  <2>2. /\ after \in QueryState /\ after.search = NoSearch /\ UsedOK(after)
        /\ ColdDone(after.req, Left(after), after.done, m)
        /\ Len(after.done) = Len(q.done) + 1 /\ Last(after.done).status = r.status /\ after.done # <<>>
        /\ Charged(after) = Charged(q) + used /\ after.work = q.work + used
        /\ after.req = q.req /\ after.spent = q.spent /\ after.age = q.age
        /\ (NextSearch(after.req, after.done) # NoSpec => QueryNow(after, view))
    BY <2>1, HasEndedFits DEF r
  <2> HIDE DEF after
  <2>3. /\ svc.legs \in [Agents -> LegState \cup {NoLegs}] /\ svc.legs[a] \in LegState \cup {NoLegs}
        /\ CacheOK(svc.cache, view) /\ PendingOK(svc.legs[a], m)
    BY <1>3 DEF ServiceState, SliceOK
  <2>4. legs \in LegState \cup {NoLegs} /\ LegsFor(legs, q) /\ PendingOK(legs, m)
    BY <2>3, WithLegFits DEF r
  <2>5. stored \in ServiceState /\ CacheOK(stored.cache, view) /\ stored = [svc EXCEPT !.cache = stored.cache]
    BY <1>1, <1>3, <2>3, StoredFits DEF r
  <2> HIDE DEF legs, stored
  <2>6. /\ stored.legs = svc.legs /\ stored.queries = svc.queries /\ stored.out = svc.out /\ stored.caching = svc.caching
        /\ stored.handed = svc.handed
    <3>1. svc \in [caching : BOOLEAN, queries : [Agents -> QueryState \cup {NoQuery}], legs : [Agents -> LegState \cup {NoLegs}],
                   cache : Seq(CacheState), out : Seq(OutcomeState), handed : [Agents -> HandedState]]
      BY <1>3 DEF ServiceState
    <3> DEFINE s == svc
               c == stored.cache
    <3>2. stored = [svc EXCEPT !.cache = c]
      BY <2>5
    <3> HIDE DEF c
    <3> QED BY <3>1, <3>2
  <2>7. /\ next \in ServiceState /\ next.cache = stored.cache /\ next.out = svc.out /\ next.caching = svc.caching /\ next.handed = svc.handed
        /\ next.queries = svc.queries /\ next.legs = [svc.legs EXCEPT ![a] = legs]
    <3>1. next = [stored EXCEPT !.legs = [stored.legs EXCEPT ![a] = legs]]
      BY <2>3, <2>5, <2>6 DEF ServiceState
    <3>2. [svc.legs EXCEPT ![a] = legs] \in [Agents -> LegState \cup {NoLegs}]
      BY <2>3, <2>4
    <3> HIDE DEF next
    <3> QED BY <2>5, <2>6, <3>1, <3>2 DEF ServiceState
  <2>8. next.legs[a] = legs /\ \A b \in Agents \ {a} : next.legs[b] = svc.legs[b]
    BY <2>3, <2>7
  <2>9. SliceOK(next, a, view, base, paid)
    <3> HIDE DEF next
    <3> QED BY <2>4, <2>5, <2>7, <2>8 DEF SliceOK
  <2>10. u = AfterSearch(t, a, next, after, r.status, left)
    <3>1. next = [Stored(t.svc, q, view, r) EXCEPT !.legs[a] = WithLeg(@, q, r)]
      BY <2>3, <2>5, <2>6 DEF stored, legs, ServiceState
    <3> HIDE DEF next
    <3> QED BY <1>5, <1>9, <3>1 DEF Spend, after
  <2> HIDE DEF next
  <2>11. left \in Nat
    BY <1>3, <1>4
  <2>12. paid => /\ after.spent + Charged(after) = after.work /\ after.work <= after.req.total
                 /\ after.work + left = PerTick[a] * after.age
    <3>1. paid => q.work + t.left = PerTick[a] * q.age /\ q.spent + Charged(q) = q.work
      BY DEF PaidBut
    <3>2. paid => after.work + left = PerTick[a] * after.age
      BY <1>3, <1>4, <1>7, <2>2, <3>1
    <3>3. paid => after.spent + Charged(after) = after.work /\ after.work <= after.req.total
      BY <1>2, <1>4, <1>6, <1>7, <2>1, <2>2, <3>1
    <3> QED BY <3>2, <3>3
  <2>13. CASE NextSearch(after.req, after.done) = NoSpec
    <3> DEFINE o == Outcome(after, a, r.status, charge)
               c == Completed(next, a, after, r.status, charge)
    <3>1. u = [t EXCEPT !.q = NoQuery, !.on = FALSE, !.svc = c]
      BY <2>10, <2>13 DEF AfterSearch
    <3>2. charge = after.spent + Costs(after.done) /\ charge \in Int /\ Charged(after) = Costs(after.done)
      <4>1. /\ CompletedCharge(after) = Costs(after.done) /\ Costs(after.done) \in Nat /\ after.spent \in Nat
            /\ Charged(after) = Costs(after.done) + after.search.charged
        BY <2>2, QueryFacts
      <4>2. after.search.charged = 0
        BY <2>2 DEF NoSearch
      <4> QED BY <4>1, <4>2
    <3>3. r.status \in Statuses
      BY <1>2 DEF EndState
    <3> HIDE DEF charge
    <3>4. /\ o.status = r.status /\ o.charge = charge /\ o.spent = after.spent /\ o.req = after.req /\ o.work = after.work
          /\ o.agent = a /\ o.age = after.age
      BY DEF Outcome
    <3> HIDE DEF o
    <3>5. OutcomeOK(o, m)
      <4>1. after.done \in Seq(DoneState) /\ Left(after) = after.req.total - after.spent
        BY <2>2, QueryFacts
      <4> QED BY <2>2, <2>13, <3>2, <3>4, <4>1 DEF OutcomeOK
    <3>6. paid => OutcomePaid(o)
      <4>1. after.work \in Int /\ after.age \in Nat /\ PerTick[a] \in Nat /\ after.req.total \in Nat
        BY <2>2, QueryFacts, PlanningAssumption
      <4>2. PerTick[a] * after.age \in Nat
        BY <4>1
      <4>3. paid => after.work <= PerTick[a] * after.age
        BY <2>11, <2>12, <4>1, <4>2
      <4>4. paid => o.charge = o.work /\ o.work <= o.req.total /\ o.work <= PerTick[o.agent] * o.age
        BY <2>12, <3>2, <3>4, <4>3
      <4> QED BY <4>4 DEF OutcomePaid, Least
    <3>7. SliceOK(c, a, view, base, paid) /\ c.queries[a] = NoQuery
      <4> HIDE DEF c
      <4>1. after \in QueryState /\ charge \in Int
        BY <2>2, <3>2
      <4>2. OutcomeOK(Outcome(after, a, r.status, charge), view.content) /\ (paid => OutcomePaid(Outcome(after, a, r.status, charge)))
        BY <3>5, <3>6 DEF o
      <4>3. /\ SliceOK(Completed(next, a, after, r.status, charge), a, view, base, paid)
            /\ Completed(next, a, after, r.status, charge).queries[a] = NoQuery
        BY <2>9, <3>3, <4>1, <4>2, CompletedFits
      <4> QED BY <4>3 DEF c
    <3> HIDE DEF c
    <3>8. u.svc = c /\ u.q = NoQuery /\ u.on = FALSE /\ u \in TurnState
      <4>1. c \in ServiceState
        BY <3>7 DEF SliceOK
      <4> QED BY <1>3, <3>1, <4>1 DEF TurnState
    <3> QED BY <3>7, <3>8 DEF TurnOK, LegsFor, Active, u, r
  <2>14. CASE NextSearch(after.req, after.done) # NoSpec
    <3>1. u = [svc |-> next, q |-> after, left |-> left, on |-> left > 0]
      BY <2>10, <2>14 DEF AfterSearch
    <3>2. u \in TurnState /\ u.svc = next /\ u.q = after /\ u.left = left /\ u.on = (left > 0)
      <4> HIDE DEF left
      <4>1. (left > 0) \in BOOLEAN
        OBVIOUS
      <4> QED BY <2>2, <2>7, <2>11, <3>1, <4>1 DEF TurnState
    <3>3. after # NoQuery
      BY <2>2, QueryFacts
    <3>4. LegsFor(next.legs[a], after)
      BY <1>1, <2>2, <2>4, <2>8 DEF LegsFor, Active
    <3>5. paid => PaidBut(after, a, IF u.on THEN u.left ELSE 0)
      <4>1. left = IF u.on THEN u.left ELSE 0
        <5> HIDE DEF left
        <5>1. left > 0 \/ left = 0
          BY <2>11
        <5> QED BY <2>11, <3>2, <5>1
      <4> QED BY <2>12, <4>1 DEF PaidBut
    <3>6. Len(after.done) >= n + 1
      <4>1. Len(q.done) \in Nat
        BY <1>1, QueryFacts
      <4> QED BY <2>2, <4>1
    <3>7. QueryNow(after, view)
      BY <2>2, <2>14
    <3>8. SliceOK(u.svc, a, view, base, paid) /\ LegsFor(u.svc.legs[a], u.q)
      BY <2>9, <3>2, <3>4
    <3>9. u.on => u.left > 0
      BY <3>2
    <3> QED BY <3>2, <3>3, <3>5, <3>6, <3>7, <3>8, <3>9 DEF TurnOK, Active, u, r
  <2> QED BY <2>13, <2>14
<1> QED BY <1>8, <1>9

\* The query of a turn: its next search has begun if there was none.
Began(svc, q, view) == IF q.search = NoSearch THEN BeginSearch(svc, q, view) ELSE q

LEMMA BeganFits ==
  ASSUME NEW view \in MapState, NEW svc, svc.cache \in Seq(CacheState), CacheOK(svc.cache, view), NEW q, QueryNow(q, view)
  PROVE  LET b == Began(svc, q, view) IN
         /\ QueryNow(b, view) /\ b.search # NoSearch /\ b.search.charged = q.search.charged /\ Charged(b) = Charged(q)
         /\ Unmoved(b, q) /\ b.done = q.done /\ b.work = q.work
<1> DEFINE m == view.content
           b == BeginSearch(svc, q, view)
<1>1. q \in QueryState /\ Current(q, m)
  BY DEF QueryNow
<1>2. CASE q.search = NoSearch
  <2>1. NextSearch(q.req, q.done) # NoSpec /\ ColdDone(q.req, Left(q), q.done, m)
    BY <1>1 DEF Current
  <2>2. /\ b \in QueryState /\ SameButSearch(b, q) /\ Current(b, m) /\ b.search # NoSearch /\ b.search.charged = 0
        /\ b.usedHpa = (q.usedHpa \/ HpaAt(q.req, Len(q.done)))
    BY <1>1, <2>1, BeginFacts
  <2>3. Began(svc, q, view) = b
    BY <1>2 DEF Began
  <2> HIDE DEF b
  <2>4. UsedOK(b)
    <3>1. UsedOK(q) /\ Begun(q) = Len(q.done) /\ Begun(b) = Len(q.done) + 1 /\ Len(q.done) \in Nat
      BY <1>1, <1>2, <2>2, QueryFacts DEF QueryNow, SameButSearch, Begun
    <3>2. b.req = q.req
      BY <2>2 DEF SameButSearch
    <3>3. \A k \in Nat : k < Len(q.done) + 1 <=> k < Len(q.done) \/ k = Len(q.done)
      BY <3>1
    <3>4. (\E k \in Nat : k < Len(q.done) + 1 /\ HpaAt(q.req, k))
            <=> (\E k \in Nat : k < Len(q.done) /\ HpaAt(q.req, k)) \/ HpaAt(q.req, Len(q.done))
      BY <3>1, <3>3
    <3> QED BY <2>2, <3>1, <3>2, <3>4 DEF UsedOK
  <2>5. QueryNow(b, view)
    BY <2>2, <2>4 DEF QueryNow, SameButSearch
  <2>6. b.search.charged = q.search.charged
    BY <1>2, <2>2 DEF NoSearch
  <2>7. Charged(b) = Charged(q)
    <3>1. Charged(b) = Costs(b.done) + b.search.charged /\ Charged(q) = Costs(q.done) + q.search.charged
      BY <1>1, <2>2, QueryFacts
    <3> QED BY <2>2, <2>6, <3>1 DEF SameButSearch
  <2> QED BY <2>2, <2>3, <2>5, <2>6, <2>7 DEF SameButSearch, Unmoved
<1>3. CASE q.search # NoSearch
  <2>1. Began(svc, q, view) = q
    BY <1>3 DEF Began
  <2> QED BY <1>3, <2>1 DEF Unmoved
<1> QED BY <1>2, <1>3

\* One turn of a slice.
LEMMA TurnIs ==
  ASSUME NEW t, NEW a, NEW view
  PROVE  LET b == Began(t.svc, t.q, view) IN Turn(t, a, view) = InSearch(t, a, view, b, Result(b.search, view))
BY DEF Turn, WithSearch, Began

LEMMA TurnFits ==
  ASSUME NEW a \in Agents, NEW view \in MapState, NEW base, NEW paid \in BOOLEAN, NEW n \in Nat, NEW t,
         TurnOK(t, a, view, base, paid, n), t.on
  PROVE  TurnOK(Turn(t, a, view), a, view, base, paid, n + 1)
<1> DEFINE b == Began(t.svc, t.q, view)
<1>1. /\ t \in TurnState /\ SliceOK(t.svc, a, view, base, paid) /\ LegsFor(t.svc.legs[a], t.q)
      /\ t.left > 0 /\ Len(t.q.done) >= n /\ QueryNow(t.q, view) /\ (paid => PaidBut(t.q, a, t.left)) /\ t.q # NoQuery
  BY DEF TurnOK, Active
<1>2. t.svc.cache \in Seq(CacheState) /\ CacheOK(t.svc.cache, view)
  BY <1>1 DEF SliceOK, ServiceState
<1>3. /\ QueryNow(b, view) /\ b.search # NoSearch /\ Charged(b) = Charged(t.q)
      /\ Unmoved(b, t.q) /\ b.done = t.q.done /\ b.work = t.q.work
  BY <1>1, <1>2, BeganFits
<1>4. Turn(t, a, view) = InSearch(t, a, view, b, Result(b.search, view))
  BY TurnIs
<1> HIDE DEF b
<1>5. paid => PaidBut(b, a, t.left)
  BY <1>1, <1>3 DEF PaidBut, Unmoved
<1>6. LegsFor(t.svc.legs[a], b) /\ Len(b.done) >= n
  BY <1>1, <1>3 DEF LegsFor, Active, Unmoved
<1>7. TurnOK(InSearch(t, a, view, b, Result(b.search, view)), a, view, base, paid, n + 1)
  BY <1>1, <1>3, <1>5, <1>6, SpendFits
<1> QED BY <1>4, <1>7

\* A slice, turn by turn.
Turns(H, n, t, a, view) ==
  H[0] = t /\ \A i \in 1..n : H[i] = IF H[i - 1].on THEN Turn(H[i - 1], a, view) ELSE H[i - 1]

LEMMA SliceTurns ==
  ASSUME NEW a \in Agents, NEW view \in MapState, NEW base, NEW paid \in BOOLEAN, NEW svc, NEW q, NEW left,
         TurnOK([svc |-> svc, q |-> q, left |-> left, on |-> TRUE], a, view, base, paid, 0)
  PROVE  \E H : /\ Turns(H, MaxSearches, [svc |-> svc, q |-> q, left |-> left, on |-> TRUE], a, view)
                /\ left = PerTick[a] =>
                     Slice(svc, a, q, view) = [H[MaxSearches].svc EXCEPT !.queries[a] = H[MaxSearches].q]
<1> DEFINE n == MaxSearches
           s == [i \in 1..n |-> i]
           t0 == [svc |-> svc, q |-> q, left |-> left, on |-> TRUE]
           V == {u \in TurnState : TurnOK(u, a, view, base, paid, 0)}
           Step(u) == IF u.on THEN Turn(u, a, view) ELSE u
           F == [i \in 1..n |-> [v \in V |-> Step(v)]]
           Rec(it) == it = [t \in SUBSET DOMAIN s |->
                              IF t = {} THEN t0
                              ELSE IF it[t \ {Max(t)}].on THEN Turn(it[t \ {Max(t)}], a, view) ELSE it[t \ {Max(t)}]]
           g == CHOOSE it : Rec(it)
<1>0. t0 \in V
  BY DEF TurnOK
<1>1. n \in Nat /\ DOMAIN s = 1..n
  BY PlanningAssumption DEF MaxSearches, Max2
<1>2. F \in [1..n -> [V -> V]] /\ \A i \in 1..n, v \in V : F[i][v] = Step(v)
  <2>1. ASSUME NEW v \in V PROVE Step(v) \in V
    <3>1. CASE v.on
      <4>1. TurnOK(Turn(v, a, view), a, view, base, paid, 1)
        <5>1. TurnOK(Turn(v, a, view), a, view, base, paid, 0 + 1)
          BY <3>1, TurnFits
        <5> QED BY <5>1
      <4>2. Turn(v, a, view) \in TurnState
        BY <4>1 DEF TurnOK
      <4>3. Turn(v, a, view).on => Len(Turn(v, a, view).q.done) >= 0
        <5>1. Turn(v, a, view).on => Turn(v, a, view).q \in QueryState
          BY <4>1 DEF TurnOK, QueryNow
        <5>2. Turn(v, a, view).on => Len(Turn(v, a, view).q.done) \in Nat
          BY <5>1, QueryFacts
        <5> QED BY <5>2
      <4>4. TurnOK(Turn(v, a, view), a, view, base, paid, 0)
        BY <4>1, <4>3 DEF TurnOK
      <4> QED BY <3>1, <4>2, <4>4
    <3>2. CASE ~v.on
      BY <3>2
    <3> QED BY <3>1, <3>2
  <2> HIDE DEF V, Step
  <2> QED BY <2>1
<1> HIDE DEF F, n, V, t0
<1>3. ASSUME NEW t \in SUBSET (1..n), t # {}
      PROVE  Max(t) \in 1..n /\ t \ {Max(t)} \in SUBSET (1..n)
  BY <1>1, <1>3, GreatestIndex
<1>4. PICK it \in [SUBSET (1..n) -> V] : SolvesFold(it, n, V, t0, F)
  BY <1>0, <1>1, <1>2, FoldExists
<1>5. Rec(it)
  <2>1. ASSUME NEW t \in SUBSET (1..n), t # {}
        PROVE it[t] = IF it[t \ {Max(t)}].on THEN Turn(it[t \ {Max(t)}], a, view) ELSE it[t \ {Max(t)}]
    <3>1. Max(t) \in 1..n /\ t \ {Max(t)} \in SUBSET (1..n)
      BY <1>3, <2>1
    <3>2. PICK x \in V : x = it[t \ {Max(t)}]
      BY <3>1
    <3>3. it[t] = F[Max(t)][x]
      BY <1>4, <2>1, <3>2 DEF SolvesFold
    <3>4. F[Max(t)][x] = Step(x)
      BY <1>2, <3>1
    <3> QED BY <3>2, <3>3, <3>4
  <2>2. it[{}] = t0
    BY <1>4 DEF SolvesFold
  <2> QED BY <1>1, <2>1, <2>2
<1>6. Rec(g)
  BY <1>5
<1>7. SolvesFold(g, n, V, t0, F)
  <2> HIDE DEF g
  <2>1. ASSUME NEW t \in SUBSET (1..n), t # {}, g[t \ {Max(t)}] \in V
        PROVE  g[t] = F[Max(t)][g[t \ {Max(t)}]]
    BY <1>1, <1>2, <1>3, <1>6, <2>1
  <2>2. g[{}] = t0
    BY <1>1, <1>6
  <2> QED BY <2>1, <2>2 DEF SolvesFold
<1>8. left = PerTick[a] => Slice(svc, a, q, view) = [FoldValue(g, n).svc EXCEPT !.queries[a] = FoldValue(g, n).q]
  BY <1>1 DEF FoldValue, Slice, FoldLeft, MapThenFoldSet, t0, n
<1> HIDE DEF g
<1>9. PICK H : StepsOf(H, n, V, t0, F) /\ H[n] = FoldValue(g, n)
  BY <1>0, <1>1, <1>2, <1>7, FoldSteps
<1>10. Turns(H, n, t0, a, view)
  BY <1>1, <1>2, <1>9 DEF Turns, StepsOf
<1> QED BY <1>8, <1>9, <1>10 DEF n, t0

\* What a slice makes of a service: s, by the turns of H.
SliceEnds(H, svc, q, s, a, view, base, paid) ==
  LET t == H[MaxSearches] IN
  /\ Turns(H, MaxSearches, [svc |-> svc, q |-> q, left |-> PerTick[a], on |-> TRUE], a, view)
  /\ \A i \in 0..MaxSearches : TurnOK(H[i], a, view, base, paid, i)
  /\ ~t.on
  /\ s \in ServiceState /\ s.queries[a] = t.q /\ \A b \in Agents \ {a} : s.queries[b] = t.svc.queries[b]
  /\ s.legs = t.svc.legs /\ s.cache = t.svc.cache /\ s.out = t.svc.out /\ s.caching = t.svc.caching
  /\ s.handed = t.svc.handed

\* The slice of a query that has examined what changed.
LEMMA SliceIs ==
  ASSUME NEW a \in Agents, NEW view \in MapState, NEW base, NEW paid \in BOOLEAN, NEW svc, SliceOK(svc, a, view, base, paid),
         NEW q, QueryNow(q, view), LegsFor(svc.legs[a], q), paid => PaidBut(q, a, PerTick[a])
  PROVE  \E H : SliceEnds(H, svc, q, Slice(svc, a, q, view), a, view, base, paid)
<1> DEFINE n == MaxSearches
           s == Slice(svc, a, q, view)
           t0 == [svc |-> svc, q |-> q, left |-> PerTick[a], on |-> TRUE]
<1>0. n \in Nat
  BY PlanningAssumption DEF MaxSearches, Max2
<1>1. TurnOK(t0, a, view, base, paid, 0)
  <2>1. q \in QueryState /\ svc \in ServiceState /\ PerTick[a] \in Nat \ {0}
    BY PlanningAssumption DEF QueryNow, SliceOK
  <2>2. q # NoQuery /\ Len(q.done) \in Nat
    BY <2>1, QueryFacts
  <2>3. t0 \in TurnState /\ t0.svc = svc /\ t0.q = q /\ t0.left = PerTick[a] /\ t0.on = TRUE
    BY <2>1 DEF TurnState
  <2> HIDE DEF t0
  <2>4. t0.left > 0 /\ Len(t0.q.done) >= 0
    BY <2>1, <2>2, <2>3
  <2> QED BY <2>1, <2>2, <2>3, <2>4 DEF TurnOK, Active
<1>2. PICK H : Turns(H, n, t0, a, view) /\ s = [H[n].svc EXCEPT !.queries[a] = H[n].q]
  BY <1>1, SliceTurns
<1> HIDE DEF n, t0, s
<1> DEFINE T == {i \in 0..n : TurnOK(H[i], a, view, base, paid, i)}
<1>3. 0..n \subseteq T
  <2>1. 0 \in T
    BY <1>0, <1>1, <1>2 DEF Turns
  <2>2. ASSUME NEW i \in 0..n, i \in T, i < n PROVE i + 1 \in T
    <3>1. i \in Nat /\ i + 1 \in 1..n /\ (i + 1) - 1 = i
      BY <1>0, <2>2
    <3>2. H[i + 1] = IF H[i].on THEN Turn(H[i], a, view) ELSE H[i]
      BY <1>2, <3>1 DEF Turns
    <3>3. TurnOK(H[i], a, view, base, paid, i)
      BY <2>2
    <3>4. CASE H[i].on
      <4>1. TurnOK(Turn(H[i], a, view), a, view, base, paid, i + 1)
        BY <3>1, <3>3, <3>4, TurnFits
      <4> QED BY <1>0, <3>1, <3>2, <3>4, <4>1
    <3>5. CASE ~H[i].on
      <4>1. TurnOK(H[i], a, view, base, paid, i + 1)
        BY <3>3, <3>5 DEF TurnOK
      <4> QED BY <1>0, <3>1, <3>2, <3>5, <4>1
    <3> QED BY <3>4, <3>5
  <2> HIDE DEF T
  <2> QED BY <1>0, <2>1, <2>2, AllIndices
<1>4. TurnOK(H[n], a, view, base, paid, n)
  BY <1>0, <1>3
<1> HIDE DEF T
<1> DEFINE t == H[n]
<1>5. ~t.on
  <2> SUFFICES ASSUME t.on PROVE FALSE
    OBVIOUS
  <2>1. QueryNow(t.q, view) /\ Len(t.q.done) >= n
    BY <1>4 DEF TurnOK
  <2>2. t.q \in QueryState /\ NextSearch(t.q.req, t.q.done) # NoSpec
    BY <2>1 DEF QueryNow, Current
  <2>3. Len(t.q.done) < n /\ Len(t.q.done) \in Nat
    BY <2>2, QueryFacts, NextFacts DEF n
  <2> QED BY <1>0, <2>1, <2>3
<1>6. /\ t \in TurnState /\ SliceOK(t.svc, a, view, base, paid) /\ LegsFor(t.svc.legs[a], t.q)
      /\ (Active(t.q) => QueryNow(t.q, view) /\ (paid => PaidBut(t.q, a, 0)))
  BY <1>4, <1>5 DEF TurnOK
<1> HIDE DEF t
<1>7. t.svc \in ServiceState /\ t.q \in QueryState \cup {NoQuery}
  BY <1>6 DEF TurnState
<1>8. /\ s \in ServiceState /\ s.queries = [t.svc.queries EXCEPT ![a] = t.q] /\ s.legs = t.svc.legs /\ s.cache = t.svc.cache
      /\ s.out = t.svc.out /\ s.caching = t.svc.caching /\ s.handed = t.svc.handed
  <2>1. t.svc.queries \in [Agents -> QueryState \cup {NoQuery}]
    BY <1>7 DEF ServiceState
  <2>2. s = [t.svc EXCEPT !.queries = [t.svc.queries EXCEPT ![a] = t.q]]
    BY <1>2, <1>7 DEF ServiceState, t
  <2>3. [t.svc.queries EXCEPT ![a] = t.q] \in [Agents -> QueryState \cup {NoQuery}]
    BY <1>7, <2>1
  <2> QED BY <1>7, <2>2, <2>3 DEF ServiceState
<1>9. s.queries[a] = t.q /\ \A b \in Agents \ {a} : s.queries[b] = t.svc.queries[b]
  <2>1. t.svc.queries \in [Agents -> QueryState \cup {NoQuery}]
    BY <1>7 DEF ServiceState
  <2> QED BY <1>8, <2>1
<1>10. \A i \in 0..n : TurnOK(H[i], a, view, base, paid, i)
  BY <1>3 DEF T
<1>11. SliceEnds(H, svc, q, s, a, view, base, paid)
  BY <1>2, <1>5, <1>8, <1>9, <1>10 DEF SliceEnds, n, t, t0
<1> QED BY <1>11 DEF s

LEMMA SliceFits ==
  ASSUME NEW a \in Agents, NEW view \in MapState, NEW base, NEW paid \in BOOLEAN, NEW svc, SliceOK(svc, a, view, base, paid),
         NEW q, QueryNow(q, view), LegsFor(svc.legs[a], q), paid => PaidBut(q, a, PerTick[a])
  PROVE  LET s == Slice(svc, a, q, view) IN
         /\ SliceOK(s, a, view, base, paid) /\ LegsOK(s, a)
         /\ Active(s.queries[a]) => QueryNow(s.queries[a], view) /\ (paid => BudgetOK(s.queries[a], a))
<1> DEFINE s == Slice(svc, a, q, view)
<1>0. MaxSearches \in Nat
  BY PlanningAssumption DEF MaxSearches, Max2
<1>1. PICK H : SliceEnds(H, svc, q, s, a, view, base, paid)
  BY SliceIs
<1> HIDE DEF s
<1> DEFINE t == H[MaxSearches]
<1>2. /\ SliceOK(t.svc, a, view, base, paid) /\ LegsFor(t.svc.legs[a], t.q)
      /\ (Active(t.q) => QueryNow(t.q, view) /\ (paid => PaidBut(t.q, a, 0)))
  <2>1. MaxSearches \in 0..MaxSearches
    BY <1>0
  <2>2. TurnOK(t, a, view, base, paid, MaxSearches) /\ ~t.on
    BY <1>1, <2>1 DEF SliceEnds
  <2> QED BY <2>2 DEF TurnOK
<1> HIDE DEF t
<1>3. /\ s \in ServiceState /\ s.queries[a] = t.q /\ \A b \in Agents \ {a} : s.queries[b] = t.svc.queries[b]
      /\ s.legs = t.svc.legs /\ s.cache = t.svc.cache /\ s.out = t.svc.out /\ s.caching = t.svc.caching
      /\ s.handed = t.svc.handed
  BY <1>1 DEF SliceEnds, t
<1>4. SliceOK(s, a, view, base, paid) /\ LegsOK(s, a)
  BY <1>2, <1>3 DEF SliceOK, LegsOK
<1>5. Active(s.queries[a]) => QueryNow(s.queries[a], view) /\ (paid => BudgetOK(s.queries[a], a))
  BY <1>2, <1>3 DEF BudgetOK
<1> QED BY <1>4, <1>5 DEF s

(***************************************************************************)
(* The planning phase                                                      *)
(***************************************************************************)
\* There is a first search for every request.
LEMMA FirstSearch ==
  ASSUME NEW req \in RequestState PROVE NextSearch(req, <<>>) # NoSpec
<1> DEFINE done == <<>>
<1>1. req.kind \in Kinds
  BY RequestFacts
<1>2. Len(done) = 0 /\ ~Failed(done)
  BY DEF Failed
<1> HIDE DEF done
<1>3. \A from, to : /\ Grid(from, to).alg # "none" /\ Hpa(from, to).alg # "none" /\ Coarse(from, to).alg # "none"
  BY DEF Grid, Hpa, Coarse
<1>4. NextSearch(req, done).spec.alg # "none"
  <2>1. CASE req.kind = "grid"
    BY <1>2, <1>3, <2>1 DEF NextSearch
  <2>2. CASE req.kind = "hpa"
    BY <1>2, <1>3, <2>2 DEF NextSearch, IsFallback
  <2>3. CASE req.kind \in {"gridThenGrid", "gridThenHpa"}
    BY <1>2, <1>3, <2>3 DEF NextSearch, IsFallback
  <2>4. CASE req.kind = "refine"
    BY <1>2, <1>3, <2>4 DEF NextSearch, IsFallback
  <2> QED BY <1>1, <2>1, <2>2, <2>3, <2>4 DEF Kinds
<1>5. NoSpec.spec.alg = "none"
  BY DEF NoSpec
<1> QED BY <1>4, <1>5 DEF done

\* An attempt starts from nothing.
LEMMA AttemptFits ==
  ASSUME NEW svc, svc.cache \in Seq(CacheState), NEW view \in MapState, CacheOK(svc.cache, view), NEW q \in QueryState
  PROVE  LET t == Attempt(svc, q, view) IN
         /\ QueryNow(t, view) /\ Charged(t) = 0 /\ t # NoQuery /\ t.id = q.id
         /\ t.req = q.req /\ t.spent = q.spent /\ t.work = q.work /\ t.age = q.age /\ t.done = <<>>
         /\ t.restarts = q.restarts /\ t.continuations = q.continuations
         /\ t.search # NoSearch /\ t.search.charged = 0 /\ t.seen = view.version /\ t.seenGraph = view.version
<1> DEFINE z == [q EXCEPT !.done = <<>>, !.search = NoSearch, !.usedHpa = FALSE, !.carry = NoCarry,
                          !.seen = view.version, !.seenGraph = view.version]
           t == BeginSearch(svc, z, view)
           m == view.content
<1>1. view.version \in Nat
  BY DEF MapState
<1>2. z \in QueryState /\ z.done = <<>> /\ z.search = NoSearch /\ z.usedHpa = FALSE /\ z.carry = NoCarry
      /\ z.seen = view.version /\ z.seenGraph = view.version
      /\ z.id = q.id /\ z.req = q.req /\ z.spent = q.spent /\ z.work = q.work /\ z.age = q.age
      /\ z.restarts = q.restarts /\ z.continuations = q.continuations
  <2>1. NoCarry \in CarryState /\ <<>> \in Seq(DoneState) /\ view.version \in Int
    BY <1>1 DEF NoCarry, CarryState
  <2> QED BY <2>1 DEF QueryState
<1>3. Attempt(svc, q, view) = t
  BY DEF Attempt
<1> HIDE DEF z
<1>4. NextSearch(z.req, z.done) # NoSpec /\ ColdDone(z.req, Left(z), z.done, m)
  <2>1. z.req \in RequestState
    BY <1>2, QueryFacts
  <2> QED BY <1>2, <2>1, FirstSearch, ColdNone
<1>5. /\ t \in QueryState /\ SameButSearch(t, z) /\ Current(t, m) /\ t.search # NoSearch /\ t.search.charged = 0
      /\ t.usedHpa = (z.usedHpa \/ HpaAt(z.req, Len(z.done)))
  BY <1>2, <1>4, BeginFacts
<1> HIDE DEF t
<1>6. UsedOK(t)
  <2>1. Begun(t) = 1 /\ t.req = z.req
    BY <1>2, <1>5 DEF Begun, SameButSearch
  <2>2. t.usedHpa = HpaAt(z.req, 0)
    <3>1. Len(z.done) = 0 /\ HpaAt(z.req, 0) \in BOOLEAN
      BY <1>2 DEF HpaAt
    <3> QED BY <1>2, <1>5, <3>1
  <2>3. (\E n \in Nat : n < 1 /\ HpaAt(z.req, n)) <=> HpaAt(z.req, 0)
    <3>1. \A n \in Nat : n < 1 <=> n = 0
      OBVIOUS
    <3> QED BY <3>1
  <2> QED BY <2>1, <2>2, <2>3 DEF UsedOK
<1>7. QueryNow(t, view)
  BY <1>1, <1>2, <1>5, <1>6 DEF QueryNow, SameButSearch
<1>8. Charged(t) = 0 /\ t # NoQuery
  <2>1. Charged(t) = Costs(t.done) + t.search.charged /\ t # NoQuery
    BY <1>5, QueryFacts
  <2>2. Costs(t.done) = 0
    BY <1>2, <1>5, CostsNone DEF SameButSearch
  <2> QED BY <1>5, <2>1, <2>2
<1> QED BY <1>2, <1>3, <1>5, <1>7, <1>8 DEF SameButSearch

\* What a slice leaves is a service.
LEMMA SliceLeaves ==
  ASSUME NEW a \in Agents, NEW view, NEW paid \in BOOLEAN, NEW svc, ServiceOK(svc, view, paid),
         NEW s, SliceOK(s, a, view, svc, paid), LegsOK(s, a),
         Active(s.queries[a]) => QueryNow(s.queries[a], view) /\ (paid => BudgetOK(s.queries[a], a))
  PROVE  /\ ServiceOK(s, view, paid) /\ (Active(s.queries[a]) => s.queries[a].carry = NoCarry)
         /\ s.caching = svc.caching /\ s.handed = svc.handed
         /\ \A b \in Agents \ {a} : s.queries[b] = svc.queries[b] /\ s.legs[b] = svc.legs[b]
<1>1. AgentOK(s, a, view, paid)
  BY DEF AgentOK, QueryOK, QueryNow, SliceOK
<1>2. ASSUME NEW b \in Agents \ {a} PROVE AgentOK(s, b, view, paid)
  <2>1. AgentOK(svc, b, view, paid) /\ s.queries[b] = svc.queries[b] /\ s.legs[b] = svc.legs[b]
    BY DEF ServiceOK, SliceOK
  <2> QED BY <2>1 DEF AgentOK, LegsOK
<1> QED BY <1>1, <1>2 DEF ServiceOK, SliceOK, QueryNow

\* A query a tick later.
Aged(q) == [q EXCEPT !.age = q.age + 1]

LEMMA AgedFits ==
  ASSUME NEW view \in MapState, NEW p, QueryOK(p, view)
  PROVE  LET q == Aged(p) IN
         /\ q \in QueryState /\ QueryOK(q, view) /\ q.id = p.id /\ q.req = p.req /\ q.age = p.age + 1 /\ p.age \in Nat
         /\ q.restarts = p.restarts /\ q.continuations = p.continuations /\ q.spent = p.spent /\ q.usedHpa = p.usedHpa
         /\ q.seen = p.seen /\ q.seenGraph = p.seenGraph /\ q.carry = p.carry /\ q.done = p.done /\ q.search = p.search
         /\ q.work = p.work /\ Charged(q) = Charged(p)
         /\ ReadByQuery(q) = ReadByQuery(p) /\ ChangedFor(q, view) = ChangedFor(p, view)
         /\ (Stale(q, view) <=> Stale(p, view)) /\ (MustRestart(q, view) <=> MustRestart(p, view))
<1> DEFINE m == view.content
           q == Aged(p)
<1>1. p \in QueryState
  BY DEF QueryOK
<1>2. /\ q \in QueryState /\ q.id = p.id /\ q.req = p.req /\ q.age = p.age + 1 /\ p.age \in Nat
      /\ q.restarts = p.restarts /\ q.continuations = p.continuations /\ q.spent = p.spent /\ q.usedHpa = p.usedHpa
      /\ q.seen = p.seen /\ q.seenGraph = p.seenGraph /\ q.carry = p.carry /\ q.done = p.done /\ q.search = p.search
      /\ q.work = p.work
  BY <1>1 DEF QueryState, Aged
<1> HIDE DEF q
<1>3. /\ Left(q) = Left(p) /\ Charged(q) = Charged(p) /\ Begun(q) = Begun(p) /\ ReadByQuery(q) = ReadByQuery(p)
      /\ ChangedFor(q, view) = ChangedFor(p, view) /\ (GraphMoved(q, view) <=> GraphMoved(p, view))
  BY <1>2 DEF Left, Charged, CompletedCharge, Begun, ReadByQuery, ChangedFor, GraphMoved
<1>4. (Stale(q, view) <=> Stale(p, view)) /\ (MustRestart(q, view) <=> MustRestart(p, view))
  BY <1>2, <1>3 DEF Stale, MustRestart
<1>5. QueryOK(q, view)
  <2>1. UsedOK(q)
    BY <1>2, <1>3 DEF QueryOK, UsedOK
  <2>2. SearchFits(p, m) => SearchFits(q, m)
    BY <1>2, <1>3 DEF SearchFits
  <2>3. Current(p, m) => Current(q, m)
    BY <1>2, <1>3, <2>2 DEF Current
  <2> QED BY <1>2, <1>4, <2>1, <2>3 DEF QueryOK
<1> QED BY <1>2, <1>3, <1>4, <1>5 DEF q

LEMMA StaleRestarts == \A q, view : Stale(q, view) => MustRestart(q, view)
BY DEF Stale, MustRestart, ReadByQuery

\* A query that goes on has examined what changed.
LEMMA ContinuedFits ==
  ASSUME NEW view \in MapState, NEW q, QueryOK(q, view), ~MustRestart(q, view)
  PROVE  LET c == Continued(q, view) IN
         /\ QueryNow(c, view) /\ c # NoQuery /\ c.id = q.id /\ c.req = q.req /\ c.age = q.age /\ c.restarts = q.restarts
         /\ c.spent = q.spent /\ c.done = q.done /\ c.search = q.search /\ c.work = q.work /\ Charged(c) = Charged(q)
         /\ c.seen = view.version /\ c.seenGraph = IF q.usedHpa THEN view.version ELSE q.seenGraph
         /\ c.continuations = IF ChangedFor(q, view) # {} /\ ReadByQuery(q) # {} THEN q.continuations + 1 ELSE q.continuations
<1> DEFINE m == view.content
           c == Continued(q, view)
           k == IF ChangedFor(q, view) # {} /\ ReadByQuery(q) # {} THEN q.continuations + 1 ELSE q.continuations
           g == IF q.usedHpa THEN view.version ELSE q.seenGraph
<1>1. q \in QueryState /\ UsedOK(q) /\ q.seenGraph <= view.version /\ Current(q, m) /\ view.version \in Nat
  BY StaleRestarts DEF QueryOK, MapState
<1>2. NoCarry \in CarryState
  BY DEF NoCarry, CarryState
<1>3. c = [q EXCEPT !.seen = view.version, !.carry = NoCarry, !.seenGraph = g, !.continuations = k]
  BY <1>1 DEF Continued, QueryState
<1>4. k \in Nat /\ g \in Int /\ g <= view.version
  BY <1>1 DEF QueryState
<1> HIDE DEF k, g, c
<1>5. q \in QueryState /\ view.version \in Int
  BY <1>1
<1>6. c \in QueryState
  BY <1>2, <1>3, <1>4, <1>5 DEF QueryState
<1>7. /\ c.id = q.id /\ c.req = q.req /\ c.age = q.age /\ c.restarts = q.restarts /\ c.spent = q.spent
      /\ c.done = q.done /\ c.search = q.search /\ c.work = q.work /\ c.usedHpa = q.usedHpa
      /\ c.carry = NoCarry /\ c.seen = view.version /\ c.seenGraph = g /\ c.continuations = k
  BY <1>3, <1>5 DEF QueryState
<1>8. Left(c) = Left(q) /\ Charged(c) = Charged(q) /\ Begun(c) = Begun(q)
  BY <1>7 DEF Left, Charged, CompletedCharge, Begun
<1>9. SearchFits(q, m) => SearchFits(c, m)
  BY <1>7, <1>8 DEF SearchFits
<1>10. Current(c, m)
  BY <1>1, <1>7, <1>8, <1>9 DEF Current
<1>11. UsedOK(c)
  BY <1>1, <1>7, <1>8 DEF UsedOK
<1>12. QueryNow(c, view) /\ c # NoQuery
  BY <1>1, <1>4, <1>6, <1>7, <1>10, <1>11, QueryFacts DEF QueryNow
<1> QED BY <1>7, <1>8, <1>12 DEF c, k, g

LEMMA AgainFits ==
  ASSUME NEW q \in QueryState
  PROVE  LET again == Again(q) IN
         /\ again \in QueryState /\ again.id = q.id /\ again.req = q.req /\ again.age = q.age /\ again.restarts = q.restarts + 1
         /\ again.continuations = q.continuations /\ again.spent = q.spent + Charged(q) /\ again.done = q.done
         /\ again.search = q.search /\ again.work = q.work
<1> DEFINE again == Again(q)
<1>1. q.restarts + 1 \in Nat /\ q.spent + Charged(q) \in Nat
  <2>1. q.restarts \in Nat
    BY DEF QueryState
  <2> QED BY <2>1, QueryFacts
<1>2. again = [q EXCEPT !.restarts = q.restarts + 1, !.spent = q.spent + Charged(q)]
  BY DEF Again, QueryState
<1> HIDE DEF again
<1>3. /\ again \in QueryState /\ again.id = q.id /\ again.req = q.req /\ again.age = q.age /\ again.restarts = q.restarts + 1
      /\ again.continuations = q.continuations /\ again.spent = q.spent + Charged(q) /\ again.done = q.done
      /\ again.search = q.search /\ again.work = q.work
  BY <1>1, <1>2 DEF QueryState
<1> QED BY <1>3 DEF again

Broken(l) == [l EXCEPT !.pending = <<>>, !.done = TRUE, !.status = "interrupted"]
LEMMA InterruptedIs ==
  ASSUME NEW a \in Agents, NEW svc \in ServiceState, HandedOut(svc, a)
  PROVE  LET s == Interrupted(svc, a) IN
         /\ s \in ServiceState /\ s.queries[a] = NoQuery /\ s.legs[a] = Broken(svc.legs[a])
         /\ s.legs[a].pending = <<>> /\ s.legs[a].done
         /\ \A b \in Agents \ {a} : s.queries[b] = svc.queries[b] /\ s.legs[b] = svc.legs[b]
         /\ s.cache = svc.cache /\ s.out = svc.out /\ s.caching = svc.caching /\ s.handed = svc.handed
<1> DEFINE l == svc.legs[a]
           k == Broken(l)
           s == Interrupted(svc, a)
<1>1. svc.queries \in [Agents -> QueryState \cup {NoQuery}] /\ svc.legs \in [Agents -> LegState \cup {NoLegs}]
  BY DEF ServiceState
<1>2. l \in LegState
  BY <1>1 DEF HandedOut
<1>3. k \in LegState /\ k.pending = <<>> /\ k.done
  <2>1. <<>> \in Seq(Leg)
    OBVIOUS
  <2> HIDE DEF l
  <2> QED BY <1>2, <2>1 DEF LegState, LegStatuses, Broken
<1>4. s = [svc EXCEPT !.queries = [svc.queries EXCEPT ![a] = NoQuery], !.legs = [svc.legs EXCEPT ![a] = k]]
  BY <1>1 DEF Interrupted, ServiceState, Broken
<1> HIDE DEF k, s
<1>5. /\ s \in ServiceState /\ s.queries = [svc.queries EXCEPT ![a] = NoQuery] /\ s.legs = [svc.legs EXCEPT ![a] = k]
      /\ s.cache = svc.cache /\ s.out = svc.out /\ s.caching = svc.caching /\ s.handed = svc.handed
  <2>1. [svc.queries EXCEPT ![a] = NoQuery] \in [Agents -> QueryState \cup {NoQuery}]
    BY <1>1
  <2>2. [svc.legs EXCEPT ![a] = k] \in [Agents -> LegState \cup {NoLegs}]
    BY <1>1, <1>3
  <2> QED BY <1>4, <2>1, <2>2 DEF ServiceState
<1>6. s.queries[a] = NoQuery /\ s.legs[a] = k /\ \A b \in Agents \ {a} : s.queries[b] = svc.queries[b] /\ s.legs[b] = svc.legs[b]
  BY <1>1, <1>5
<1> QED BY <1>3, <1>5, <1>6 DEF s, k

\* The planning phase for one agent, in its four outcomes.
LEMMA AdvanceIs ==
  ASSUME NEW svc, NEW a, NEW view, Active(svc.queries[a])
  PROVE  LET q == Aged(svc.queries[a]) IN
         Advance(svc, a, view) =
           IF ~MustRestart(q, view) THEN Slice(svc, a, Continued(q, view), view)
           ELSE IF HandedOut(svc, a) THEN Interrupted(svc, a)
           ELSE IF Again(q).spent >= q.req.total THEN Completed(svc, a, Again(q), "budget_exceeded", Again(q).spent)
           ELSE Slice(svc, a, Attempt(svc, Again(q), view), view)
BY DEF Advance, Aged

LEMMA AdvanceFits ==
  ASSUME NEW a \in Agents, NEW view \in MapState, NEW paid \in BOOLEAN, NEW svc, ServiceOK(svc, view, paid)
  PROVE  LET s == Advance(svc, a, view) IN
         /\ ServiceOK(s, view, paid) /\ (Active(s.queries[a]) => s.queries[a].carry = NoCarry)
         /\ s.caching = svc.caching /\ s.handed = svc.handed
         /\ \A b \in Agents \ {a} : s.queries[b] = svc.queries[b] /\ s.legs[b] = svc.legs[b]
<1> DEFINE m == view.content
           p == svc.queries[a]
           q == Aged(p)
           again == Again(q)
           s == Advance(svc, a, view)
<1>1. /\ svc \in ServiceState /\ CacheOK(svc.cache, view) /\ svc.cache \in Seq(CacheState)
      /\ AgentOK(svc, a, view, paid) /\ LegsOK(svc, a) /\ PendingOK(svc.legs[a], m) /\ LegsFor(svc.legs[a], p)
      /\ OutsOK(svc.out, m, paid)
  BY DEF ServiceOK, ServiceState, AgentOK, LegsOK
<1>2. SliceOK(svc, a, view, svc, paid)
  BY <1>1 DEF SliceOK
<1>3. CASE ~Active(p)
  <2>1. s = svc
    BY <1>3 DEF Advance
  <2> QED BY <1>3, <2>1
<1>4. CASE Active(p)
  <2>1. QueryOK(p, view) /\ (paid => BudgetOK(p, a))
    BY <1>1, <1>4 DEF AgentOK
  <2>2. /\ q \in QueryState /\ QueryOK(q, view) /\ q.req = p.req /\ q.spent = p.spent /\ q.age = p.age + 1
        /\ q.work = p.work /\ Charged(q) = Charged(p) /\ p.age \in Nat
    BY <2>1, AgedFits
  <2>3. /\ q # NoQuery /\ q.spent \in Nat /\ q.work \in Int /\ q.age \in Nat /\ q.req.total \in Nat /\ Charged(q) \in Nat
    BY <2>2, QueryFacts
  <2>4. s = IF ~MustRestart(q, view) THEN Slice(svc, a, Continued(q, view), view)
            ELSE IF HandedOut(svc, a) THEN Interrupted(svc, a)
            ELSE IF again.spent >= q.req.total THEN Completed(svc, a, again, "budget_exceeded", again.spent)
            ELSE Slice(svc, a, Attempt(svc, again, view), view)
    BY <1>4, AdvanceIs
  <2> HIDE DEF p, q
  <2>5. paid => PaidBut(q, a, PerTick[a])
    <3>1. PerTick[a] \in Nat
      BY PlanningAssumption
    <3>2. PerTick[a] * q.age = PerTick[a] * p.age + PerTick[a]
      BY <2>2, <3>1
    <3>3. paid => q.work = PerTick[a] * p.age
      <4>1. paid => p.work + 0 = PerTick[a] * p.age
        BY <2>1 DEF BudgetOK, PaidBut
      <4> QED BY <2>2, <2>3, <4>1
    <3>4. paid => q.work + PerTick[a] = PerTick[a] * q.age
      BY <3>2, <3>3
    <3> QED BY <2>1, <2>2, <2>3, <3>4 DEF BudgetOK, PaidBut
  <2>6. LegsFor(svc.legs[a], q)
    BY <1>1, <1>4, <2>2 DEF LegsFor
  <2>7. CASE ~MustRestart(q, view)
    <3> DEFINE c == Continued(q, view)
    <3>1. /\ QueryNow(c, view) /\ c.req = q.req /\ c.spent = q.spent /\ c.age = q.age /\ c.work = q.work
          /\ Charged(c) = Charged(q)
      BY <2>2, <2>7, ContinuedFits
    <3>2. s = Slice(svc, a, c, view)
      BY <2>4, <2>7
    <3> HIDE DEF c
    <3>3. LegsFor(svc.legs[a], c) /\ (paid => PaidBut(c, a, PerTick[a]))
      BY <2>3, <2>5, <2>6, <3>1 DEF LegsFor, Active, PaidBut
    <3> HIDE DEF s
    <3>4. /\ SliceOK(s, a, view, svc, paid) /\ LegsOK(s, a)
          /\ (Active(s.queries[a]) => QueryNow(s.queries[a], view) /\ (paid => BudgetOK(s.queries[a], a)))
      BY <1>2, <3>1, <3>2, <3>3, SliceFits
    <3>5. /\ ServiceOK(s, view, paid) /\ (Active(s.queries[a]) => s.queries[a].carry = NoCarry)
          /\ s.caching = svc.caching /\ s.handed = svc.handed
          /\ \A b \in Agents \ {a} : s.queries[b] = svc.queries[b] /\ s.legs[b] = svc.legs[b]
      BY <3>4, SliceLeaves
    <3> QED BY <3>5 DEF s
  <2>8. CASE MustRestart(q, view) /\ HandedOut(svc, a)
    <3>1. s = Interrupted(svc, a)
      BY <2>4, <2>8
    <3> HIDE DEF s
    <3>2. /\ s \in ServiceState /\ s.queries[a] = NoQuery /\ s.legs[a].pending = <<>>
          /\ \A b \in Agents \ {a} : s.queries[b] = svc.queries[b] /\ s.legs[b] = svc.legs[b]
          /\ s.cache = svc.cache /\ s.out = svc.out /\ s.caching = svc.caching /\ s.handed = svc.handed
      BY <1>1, <2>8, <3>1, InterruptedIs
    <3>3. SliceOK(s, a, view, svc, paid)
      <4>1. PendingOK(s.legs[a], m)
        BY <3>2 DEF PendingOK
      <4> QED BY <1>1, <3>2, <4>1 DEF SliceOK
    <3>4. LegsOK(s, a) /\ ~Active(s.queries[a])
      BY <3>2 DEF LegsOK, LegsFor, Active
    <3>5. /\ ServiceOK(s, view, paid) /\ (Active(s.queries[a]) => s.queries[a].carry = NoCarry)
          /\ s.caching = svc.caching /\ s.handed = svc.handed
          /\ \A b \in Agents \ {a} : s.queries[b] = svc.queries[b] /\ s.legs[b] = svc.legs[b]
      BY <3>3, <3>4, SliceLeaves
    <3> QED BY <3>5 DEF s
  <2>9. /\ again \in QueryState /\ again.spent = q.spent + Charged(q) /\ again.req = q.req /\ again.work = q.work
        /\ again.age = q.age
    BY <2>2, AgainFits
  <2>10. CASE MustRestart(q, view) /\ ~HandedOut(svc, a) /\ again.spent >= q.req.total
    <3> DEFINE o == Outcome(again, a, "budget_exceeded", again.spent)
    <3>1. s = Completed(svc, a, again, "budget_exceeded", again.spent)
      BY <2>4, <2>10
    <3> HIDE DEF again
    <3>2. /\ o.status = "budget_exceeded" /\ o.charge = again.spent /\ o.spent = again.spent /\ o.req = again.req /\ o.work = again.work
          /\ o.agent = a /\ o.age = again.age
      BY DEF Outcome
    <3> HIDE DEF o
    <3>3. OutcomeOK(o, m)
      BY <2>9, <2>10, <3>2 DEF OutcomeOK
    <3>4. ASSUME paid PROVE OutcomePaid(o)
      <4>1. q.spent + Charged(q) = q.work /\ q.work <= q.req.total /\ q.work + PerTick[a] = PerTick[a] * q.age
        BY <2>5, <3>4 DEF PaidBut
      <4>2. PerTick[a] \in Nat /\ PerTick[a] * q.age \in Nat
        BY <2>3, PlanningAssumption
      <4>3. q.work <= PerTick[a] * q.age
        <5>1. PICK x \in Nat : x = PerTick[a] * q.age
          BY <4>2
        <5>2. q.work + PerTick[a] = x
          BY <4>1, <5>1
        <5>3. q.work <= x
          BY <2>3, <4>2, <5>2
        <5> QED BY <5>1, <5>3
      <4>4. o.charge = o.work /\ o.work <= o.req.total /\ o.work <= PerTick[o.agent] * o.age
        BY <2>9, <3>2, <4>1, <4>3
      <4> QED BY <4>4 DEF OutcomePaid, Least
    <3>5. SliceOK(s, a, view, svc, paid) /\ s.queries[a] = NoQuery
      <4> HIDE DEF s
      <4>1. PICK status \in Statuses : status = "budget_exceeded"
        BY DEF Statuses
      <4>2. PICK charge \in Int : charge = again.spent
        BY <2>9, QueryFacts
      <4>3. OutcomeOK(Outcome(again, a, status, charge), view.content) /\ (paid => OutcomePaid(Outcome(again, a, status, charge)))
        BY <3>3, <3>4, <4>1, <4>2 DEF o
      <4>4. again \in QueryState
        BY <2>9
      <4>5. /\ SliceOK(Completed(svc, a, again, status, charge), a, view, svc, paid)
            /\ Completed(svc, a, again, status, charge).queries[a] = NoQuery
        BY <1>2, <4>3, <4>4, CompletedFits
      <4> QED BY <3>1, <4>1, <4>2, <4>5
    <3> HIDE DEF s
    <3>6. LegsOK(s, a) /\ ~Active(s.queries[a])
      BY <3>5 DEF LegsOK, LegsFor, Active
    <3>7. /\ ServiceOK(s, view, paid) /\ (Active(s.queries[a]) => s.queries[a].carry = NoCarry)
          /\ s.caching = svc.caching /\ s.handed = svc.handed
          /\ \A b \in Agents \ {a} : s.queries[b] = svc.queries[b] /\ s.legs[b] = svc.legs[b]
      BY <3>5, <3>6, SliceLeaves
    <3> QED BY <3>7 DEF s
  <2>11. CASE MustRestart(q, view) /\ ~HandedOut(svc, a) /\ ~(again.spent >= q.req.total)
    <3> DEFINE t == Attempt(svc, again, view)
    <3>1. s = Slice(svc, a, t, view)
      BY <2>4, <2>11
    <3> HIDE DEF again
    <3>2. /\ QueryNow(t, view) /\ Charged(t) = 0 /\ t.req = again.req /\ t.spent = again.spent /\ t.work = again.work
          /\ t.age = again.age
      BY <1>1, <2>9, AttemptFits
    <3> HIDE DEF t
    <3>3. LegsFor(svc.legs[a], t)
      BY <2>3, <2>6, <2>9, <3>2 DEF LegsFor, Active
    <3>4. paid => PaidBut(t, a, PerTick[a])
      BY <2>3, <2>5, <2>9, <3>2 DEF PaidBut
    <3>5. /\ SliceOK(s, a, view, svc, paid) /\ LegsOK(s, a)
          /\ (Active(s.queries[a]) => QueryNow(s.queries[a], view) /\ (paid => BudgetOK(s.queries[a], a)))
      <4> HIDE DEF s
      <4> QED BY <1>2, <3>1, <3>2, <3>3, <3>4, SliceFits
    <3> HIDE DEF s
    <3>6. /\ ServiceOK(s, view, paid) /\ (Active(s.queries[a]) => s.queries[a].carry = NoCarry)
          /\ s.caching = svc.caching /\ s.handed = svc.handed
          /\ \A b \in Agents \ {a} : s.queries[b] = svc.queries[b] /\ s.legs[b] = svc.legs[b]
      BY <3>5, SliceLeaves
    <3> QED BY <3>6 DEF s
  <2> QED BY <2>7, <2>8, <2>10, <2>11
<1> QED BY <1>3, <1>4

(***************************************************************************)
(* The operations of a service                                             *)
(***************************************************************************)
LEMMA PaidLess ==
  ASSUME NEW svc, NEW view, NEW paid, NEW less, less => paid, ServiceOK(svc, view, paid)
  PROVE  ServiceOK(svc, view, less)
BY DEF ServiceOK, AgentOK, OutsOK

\* The agents are advanced one after the other.
Advances(it, svc, view, V) ==
  /\ it \in [SUBSET Agents -> V] /\ it[{}] = svc
  /\ \A t \in SUBSET Agents : t # {} => it[t] = Advance(it[t \ {Topmost(t)}], Topmost(t), view)

LEMMA TickedFolds ==
  ASSUME NEW view, NEW V, NEW svc \in V, \A a \in Agents, s \in V : Advance(s, a, view) \in V
  PROVE  \E it : Advances(it, svc, view, V) /\ Ticked(svc, view) = it[Agents]
<1>1. Agents \subseteq Nat /\ IsFiniteSet(Agents)
  BY PlanningAssumption
<1> DEFINE F == [a \in Agents |-> [s \in V |-> Advance(s, a, view)]]
<1>2. F \in [Agents -> [V -> V]] /\ \A a \in Agents, s \in V : F[a][s] = Advance(s, a, view)
  OBVIOUS
<1> HIDE DEF F
<1>3. PICK f : SetFold(f, Agents, V, svc, F)
  BY <1>1, <1>2, SetFoldExists
<1>4. ASSUME NEW t \in SUBSET Agents, t # {} PROVE Topmost(t) \in t /\ Topmost(t) \in Agents
  <2>1. PICK n \in Nat : \A k \in Agents : k < n
    BY <1>1, FiniteBound
  <2>2. t \subseteq Nat /\ \A k \in t : k < n
    BY <1>1, <2>1
  <2> QED BY <1>4, <2>2, TopmostIsThere
<1> DEFINE Rec(g) == g = [t \in SUBSET Agents |-> IF t = {} THEN svc ELSE Advance(g[t \ {Topmost(t)}], Topmost(t), view)]
           it == CHOOSE g : Rec(g)
<1>5. Rec(f)
  <2>1. ASSUME NEW t \in SUBSET Agents
        PROVE  f[t] = IF t = {} THEN svc ELSE Advance(f[t \ {Topmost(t)}], Topmost(t), view)
    <3>1. CASE t = {}
      BY <1>3, <3>1 DEF SetFold
    <3>2. CASE t # {}
      <4>1. f[t \ {Topmost(t)}] \in V
        BY <1>3 DEF SetFold
      <4> QED BY <1>2, <1>3, <1>4, <3>2, <4>1 DEF SetFold
    <3> QED BY <3>1, <3>2
  <2> QED BY <1>3, <2>1 DEF SetFold
<1>6. Rec(it)
  <2> HIDE DEF Rec
  <2> QED BY <1>5
<1>7. Ticked(svc, view) = it[Agents]
  BY DEF Ticked, MapThenFoldSet, Topmost
<1> HIDE DEF it
<1>8. /\ DOMAIN it = SUBSET Agents
      /\ \A t \in SUBSET Agents : it[t] = IF t = {} THEN svc ELSE Advance(it[t \ {Topmost(t)}], Topmost(t), view)
  BY <1>6
<1> DEFINE U == {t \in SUBSET Agents : it[t] \in V}
<1>9. {} \in U
  BY <1>8
<1>10. ASSUME NEW t \in SUBSET Agents, t # {}, Topmost(t) \in t, t \ {Topmost(t)} \in U PROVE t \in U
  <2>1. it[t] = Advance(it[t \ {Topmost(t)}], Topmost(t), view)
    BY <1>8, <1>10
  <2>2. it[t] \in V
    BY <1>4, <1>10, <2>1
  <2> QED BY <2>2
<1> HIDE DEF U
<1>11. SUBSET Agents \subseteq U
  BY <1>1, <1>9, <1>10, SetInduction
<1>12. \A t \in SUBSET Agents : it[t] \in V
  BY <1>11 DEF U
<1>13. Advances(it, svc, view, V)
  <2>1. it = [t \in SUBSET Agents |-> IF t = {} THEN svc ELSE Advance(it[t \ {Topmost(t)}], Topmost(t), view)]
    BY <1>6
  <2>2. it = [t \in SUBSET Agents |-> it[t]]
    BY <1>8, <2>1
  <2>3. it \in [SUBSET Agents -> V]
    BY <1>12, <2>2
  <2>4. it[{}] = svc
    BY <1>8
  <2> QED BY <1>8, <2>3, <2>4 DEF Advances
<1> QED BY <1>7, <1>13

LEMMA TickedFits ==
  ASSUME NEW view \in MapState, NEW paid \in BOOLEAN, NEW svc, ServiceOK(svc, view, paid)
  PROVE  LET s == Ticked(svc, view) IN
         ServiceOK(s, view, paid) /\ Examined(s) /\ s.caching = svc.caching /\ s.handed = svc.handed
<1> DEFINE V == {s \in ServiceState : ServiceOK(s, view, paid) /\ s.caching = svc.caching /\ s.handed = svc.handed}
<1>1. svc \in V
  BY DEF ServiceOK
<1>2. ASSUME NEW a \in Agents, NEW s \in V PROVE Advance(s, a, view) \in V
  <2>1. ServiceOK(s, view, paid) /\ s.caching = svc.caching /\ s.handed = svc.handed
    OBVIOUS
  <2> HIDE DEF V
  <2>2. /\ ServiceOK(Advance(s, a, view), view, paid) /\ Advance(s, a, view).caching = svc.caching
        /\ Advance(s, a, view).handed = svc.handed
    BY <2>1, AdvanceFits
  <2> QED BY <2>2 DEF V, ServiceOK
<1> HIDE DEF V
<1>3. PICK it : Advances(it, svc, view, V) /\ Ticked(svc, view) = it[Agents]
  BY <1>1, <1>2, TickedFolds
<1>4. \A t \in SUBSET Agents : /\ ServiceOK(it[t], view, paid)
                               /\ it[t].caching = svc.caching /\ it[t].handed = svc.handed
  BY <1>3 DEF Advances, V
<1> DEFINE U == {t \in SUBSET Agents : \A a \in t : Active(it[t].queries[a]) => it[t].queries[a].carry = NoCarry}
<1>5. {} \in U
  OBVIOUS
<1>6. ASSUME NEW t \in SUBSET Agents, t # {}, Topmost(t) \in t, t \ {Topmost(t)} \in U PROVE t \in U
  <2> DEFINE a == Topmost(t)
             s == it[t \ {Topmost(t)}]
  <2>1. a \in Agents /\ it[t] = Advance(s, a, view) /\ ServiceOK(s, view, paid)
    BY <1>3, <1>4, <1>6 DEF Advances
  <2>2. \A b \in t \ {a} : Active(s.queries[b]) => s.queries[b].carry = NoCarry
    BY <1>6
  <2> HIDE DEF a, s
  <2>3. /\ Active(it[t].queries[a]) => it[t].queries[a].carry = NoCarry
        /\ \A b \in Agents \ {a} : it[t].queries[b] = s.queries[b]
    BY <2>1, AdvanceFits
  <2>4. \A b \in t : Active(it[t].queries[b]) => it[t].queries[b].carry = NoCarry
    BY <2>2, <2>3
  <2> QED BY <2>4
<1> HIDE DEF U
<1>7. SUBSET Agents \subseteq U
  BY <1>5, <1>6, SetInduction, PlanningAssumption
<1>8. Agents \in U
  BY <1>7
<1>9. \A a \in Agents : Active(it[Agents].queries[a]) => it[Agents].queries[a].carry = NoCarry
  BY <1>8 DEF U
<1> QED BY <1>3, <1>4, <1>9 DEF Examined

\* The legs are handed over.
LEMMA LegsTakenFits ==
  ASSUME NEW view, NEW paid \in BOOLEAN, NEW svc, ServiceOK(svc, view, paid)
  PROVE  LET s == LegsTaken(svc) IN
         /\ PlannedOK(s, view, paid) /\ s.queries = svc.queries /\ s.caching = svc.caching /\ s.cache = svc.cache
         /\ s.out = svc.out
<1> DEFINE l == svc.legs
           handed == [a \in Agents |-> IF l[a] = NoLegs THEN Nothing ELSE [legs |-> l[a].pending, status |-> l[a].status]]
           legs == [a \in Agents |-> IF l[a] = NoLegs THEN NoLegs ELSE IF l[a].done THEN NoLegs
                                     ELSE [l[a] EXCEPT !.pending = <<>>]]
           s == LegsTaken(svc)
<1>1. svc \in ServiceState /\ \A a \in Agents : l[a] \in LegState \cup {NoLegs}
  BY DEF ServiceOK, ServiceState
<1>2. s = [svc EXCEPT !.handed = handed, !.legs = legs]
  BY DEF LegsTaken
<1>3. ASSUME NEW a \in Agents
      PROVE  /\ handed[a] \in HandedState /\ HandedOK(handed[a], view.content)
             /\ legs[a] \in LegState \cup {NoLegs} /\ (legs[a] # NoLegs => legs[a].pending = <<>>)
             /\ LegsFor(legs[a], svc.queries[a])
  <2>1. PendingOK(l[a], view.content) /\ LegsFor(l[a], svc.queries[a])
    BY DEF ServiceOK, AgentOK, LegsOK
  <2>2. CASE l[a] = NoLegs
    <3>1. handed[a] = Nothing /\ legs[a] = NoLegs
      BY <2>2
    <3>2. Nothing \in HandedState /\ HandedOK(Nothing, view.content)
      BY DEF Nothing, HandedState, HandedOK, LegStatuses
    <3> QED BY <2>1, <2>2, <3>1, <3>2
  <2>3. CASE l[a] # NoLegs
    <3>1. l[a] \in LegState /\ l[a].pending \in Seq(Leg) /\ l[a].status \in LegStatuses
      BY <1>1, <2>3 DEF LegState
    <3> DEFINE h == [legs |-> l[a].pending, status |-> l[a].status]
               k == [l[a] EXCEPT !.pending = <<>>]
    <3>2. handed[a] = h
      BY <2>3
    <3>3. h \in HandedState /\ HandedOK(h, view.content)
      BY <2>1, <2>3, <3>1 DEF HandedState, HandedOK, PendingOK
    <3>4. CASE l[a].done
      <4>1. legs[a] = NoLegs
        BY <2>3, <3>4
      <4>2. ~Active(svc.queries[a])
        BY <2>1, <2>3, <3>4 DEF LegsFor
      <4> QED BY <3>2, <3>3, <4>1, <4>2 DEF LegsFor
    <3>5. CASE ~l[a].done
      <4>1. legs[a] = k
        BY <2>3, <3>5
      <4>2. k \in LegState /\ k.pending = <<>> /\ k.done = l[a].done
        <5>1. <<>> \in Seq(Leg)
          OBVIOUS
        <5> DEFINE n == l[a]
        <5> HIDE DEF n
        <5>2. n \in LegState /\ k = [n EXCEPT !.pending = <<>>] /\ n = l[a]
          BY <3>1 DEF n
        <5> HIDE DEF k, l
        <5> QED BY <5>1, <5>2 DEF LegState
      <4>3. k # NoLegs
        BY <4>2, NoLegsFacts
      <4> HIDE DEF k, legs, handed, h
      <4> QED BY <2>1, <2>3, <3>2, <3>3, <3>5, <4>1, <4>2, <4>3 DEF LegsFor
    <3> QED BY <3>4, <3>5
  <2> QED BY <2>2, <2>3
<1>4. DOMAIN handed = Agents /\ DOMAIN legs = Agents
  OBVIOUS
<1> HIDE DEF handed, legs, s, l
<1>5. handed \in [Agents -> HandedState] /\ legs \in [Agents -> LegState \cup {NoLegs}]
  <2>1. handed = [a \in Agents |-> handed[a]] /\ legs = [a \in Agents |-> legs[a]]
    BY DEF handed, legs
  <2> QED BY <1>3, <2>1
<1>6. /\ s \in ServiceState /\ s.handed = handed /\ s.legs = legs /\ s.queries = svc.queries /\ s.caching = svc.caching
      /\ s.cache = svc.cache /\ s.out = svc.out
  BY <1>1, <1>2, <1>5 DEF ServiceState
<1>7. ASSUME NEW a \in Agents PROVE AgentOK(s, a, view, paid)
  <2>1. AgentOK(svc, a, view, paid)
    BY DEF ServiceOK
  <2>2. PendingOK(legs[a], view.content)
    BY <1>3 DEF PendingOK
  <2> QED BY <1>3, <1>6, <2>1, <2>2 DEF AgentOK, LegsOK
<1>8. ServiceOK(s, view, paid)
  BY <1>6, <1>7 DEF ServiceOK
<1> QED BY <1>3, <1>6, <1>8 DEF PlannedOK, s

\* A query is submitted.
FirstLegs(id, req) == IF req.kind = "refine" THEN LegsOf(id) ELSE NoLegs

HasSubmitted(s, svc, a, id, req, view) ==
  LET t == s.queries[a]
      k == s.legs[a] IN
  /\ s \in ServiceState /\ s.cache = svc.cache /\ s.out = svc.out /\ s.caching = svc.caching /\ s.handed = svc.handed
  /\ \A b \in Agents \ {a} : s.queries[b] = svc.queries[b] /\ s.legs[b] = svc.legs[b]
  /\ k = FirstLegs(id, req) /\ (k # NoLegs => ~k.done /\ k.pending = <<>>) /\ (req.kind = "refine" => k # NoLegs)
  /\ QueryNow(t, view) /\ t # NoQuery /\ Charged(t) = 0
  /\ t.id = id /\ t.req = req /\ t.age = 0 /\ t.restarts = 0 /\ t.continuations = 0 /\ t.spent = 0 /\ t.work = 0
  /\ t.done = <<>> /\ t.search # NoSearch /\ t.search.charged = 0 /\ t.seen = view.version /\ t.seenGraph = view.version
LEMMA SubmittedIs ==
  ASSUME NEW a \in Agents, NEW view \in MapState, NEW svc \in ServiceState, CacheOK(svc.cache, view),
         NEW id \in Nat \ {0}, NEW req \in RequestState
  PROVE  HasSubmitted(Submitted(svc, a, id, req, view), svc, a, id, req, view)
<1> DEFINE z == NewQuery(id, req)
           t == Attempt(svc, z, view)
           k == FirstLegs(id, req)
           s == Submitted(svc, a, id, req, view)
<1>1. /\ svc.cache \in Seq(CacheState) /\ svc.queries \in [Agents -> QueryState \cup {NoQuery}]
      /\ svc.legs \in [Agents -> LegState \cup {NoLegs}]
  BY DEF ServiceState
<1>2. z \in QueryState /\ z.id = id /\ z.spent = 0 /\ z.work = 0 /\ z.age = 0 /\ z.req = req /\ z.restarts = 0 /\ z.continuations = 0
  <2>1. NoCarry \in CarryState /\ <<>> \in Seq(DoneState)
    BY DEF NoCarry, CarryState
  <2> QED BY <2>1 DEF NewQuery, QueryState
<1> HIDE DEF z
<1>3. /\ QueryNow(t, view) /\ t # NoQuery /\ Charged(t) = 0
      /\ t.id = id /\ t.req = req /\ t.age = 0 /\ t.restarts = 0 /\ t.continuations = 0 /\ t.spent = 0 /\ t.work = 0
      /\ t.done = <<>> /\ t.search # NoSearch /\ t.search.charged = 0 /\ t.seen = view.version /\ t.seenGraph = view.version
  BY <1>1, <1>2, AttemptFits
<1> HIDE DEF t
<1>4. /\ k \in LegState \cup {NoLegs} /\ (k # NoLegs => ~k.done /\ k.pending = <<>>)
      /\ (req.kind = "refine" => k # NoLegs)
  <2>1. LegsOf(id) \in LegState /\ ~LegsOf(id).done /\ LegsOf(id).pending = <<>>
    <3>1. <<>> \in Seq(Leg)
      OBVIOUS
    <3> QED BY <3>1 DEF LegsOf, LegState, LegStatuses
  <2> QED BY <2>1, NoLegsFacts DEF FirstLegs
<1>5. s = [svc EXCEPT !.queries = [svc.queries EXCEPT ![a] = t], !.legs = [svc.legs EXCEPT ![a] = k]]
  BY <1>1 DEF Submitted, ServiceState, FirstLegs, t, z
<1> HIDE DEF k, s
<1>6. /\ s \in ServiceState /\ s.queries = [svc.queries EXCEPT ![a] = t] /\ s.legs = [svc.legs EXCEPT ![a] = k]
      /\ s.cache = svc.cache /\ s.out = svc.out /\ s.caching = svc.caching /\ s.handed = svc.handed
  <2>1. t \in QueryState
    BY <1>3 DEF QueryNow
  <2>2. [svc.queries EXCEPT ![a] = t] \in [Agents -> QueryState \cup {NoQuery}]
    BY <1>1, <2>1
  <2>3. [svc.legs EXCEPT ![a] = k] \in [Agents -> LegState \cup {NoLegs}]
    BY <1>1, <1>4
  <2> QED BY <1>5, <2>2, <2>3 DEF ServiceState
<1>7. s.queries[a] = t /\ s.legs[a] = k /\ \A b \in Agents \ {a} : s.queries[b] = svc.queries[b] /\ s.legs[b] = svc.legs[b]
  BY <1>1, <1>6
<1>8. s = Submitted(svc, a, id, req, view) /\ k = FirstLegs(id, req)
  BY DEF s, k
<1>9. HasSubmitted(s, svc, a, id, req, view)
  BY <1>3, <1>4, <1>6, <1>7, <1>8 DEF HasSubmitted
<1> QED BY <1>8, <1>9

LEMMA SubmittedFits ==
  ASSUME NEW a \in Agents, NEW view \in MapState, NEW paid \in BOOLEAN, NEW svc, PlannedOK(svc, view, paid),
         NEW id \in Nat \ {0}, NEW req \in RequestState
  PROVE  LET s == Submitted(svc, a, id, req, view) IN PlannedOK(s, view, paid) /\ (Examined(svc) => Examined(s))
<1> DEFINE s == Submitted(svc, a, id, req, view)
           t == s.queries[a]
           k == s.legs[a]
<1>1. svc \in ServiceState /\ CacheOK(svc.cache, view) /\ ServiceOK(svc, view, paid)
  BY DEF PlannedOK, ServiceOK
<1>9. HasSubmitted(s, svc, a, id, req, view)
  BY <1>1, SubmittedIs
<1> HIDE DEF s
<1>2. /\ s \in ServiceState /\ s.cache = svc.cache /\ s.out = svc.out /\ s.caching = svc.caching /\ s.handed = svc.handed
      /\ \A b \in Agents \ {a} : s.queries[b] = svc.queries[b] /\ s.legs[b] = svc.legs[b]
      /\ (k # NoLegs => ~k.done /\ k.pending = <<>>) /\ (req.kind = "refine" => k # NoLegs)
      /\ QueryNow(t, view) /\ t # NoQuery /\ Charged(t) = 0 /\ t.req = req /\ t.age = 0 /\ t.spent = 0 /\ t.work = 0
  BY <1>9 DEF HasSubmitted
<1>3. BudgetOK(t, a)
  <2>1. PerTick[a] \in Nat /\ req.total \in Nat
    BY RequestFacts, PlanningAssumption
  <2>2. PerTick[a] * t.age = 0
    BY <1>2, <2>1
  <2> QED BY <1>2, <2>1, <2>2 DEF BudgetOK, PaidBut
<1>4. AgentOK(s, a, view, paid)
  <2>1. QueryOK(t, view) /\ PendingOK(k, view.content)
    BY <1>2 DEF QueryNow, QueryOK, PendingOK
  <2>2. LegsFor(k, t)
    BY <1>2 DEF LegsFor
  <2> QED BY <1>3, <2>1, <2>2 DEF AgentOK, LegsOK
<1>5. ASSUME NEW b \in Agents \ {a} PROVE AgentOK(s, b, view, paid)
  <2>1. AgentOK(svc, b, view, paid)
    BY <1>1 DEF ServiceOK
  <2> QED BY <1>2, <2>1 DEF AgentOK, LegsOK
<1>6. ServiceOK(s, view, paid)
  BY <1>1, <1>2, <1>4, <1>5 DEF ServiceOK
<1>7. PlannedOK(s, view, paid)
  BY <1>2, <1>6 DEF PlannedOK
<1>8. Examined(svc) => Examined(s)
  BY <1>2 DEF Examined, QueryNow
<1> QED BY <1>7, <1>8 DEF s

LEMMA CancelledIs ==
  ASSUME NEW a \in Agents, NEW svc \in ServiceState
  PROVE  LET s == Cancelled(svc, a) IN
         /\ s \in ServiceState /\ s.cache = svc.cache /\ s.out = svc.out /\ s.caching = svc.caching /\ s.handed = svc.handed
         /\ s.queries[a] = NoQuery /\ s.legs[a] = NoLegs
         /\ \A b \in Agents \ {a} : s.queries[b] = svc.queries[b] /\ s.legs[b] = svc.legs[b]
<1> DEFINE s == Cancelled(svc, a)
<1>1. svc.queries \in [Agents -> QueryState \cup {NoQuery}] /\ svc.legs \in [Agents -> LegState \cup {NoLegs}]
  BY DEF ServiceState
<1>2. s = [svc EXCEPT !.queries = [svc.queries EXCEPT ![a] = NoQuery], !.legs = [svc.legs EXCEPT ![a] = NoLegs]]
  BY <1>1 DEF Cancelled, ServiceState
<1> HIDE DEF s
<1>3. /\ s \in ServiceState /\ s.queries = [svc.queries EXCEPT ![a] = NoQuery] /\ s.legs = [svc.legs EXCEPT ![a] = NoLegs]
      /\ s.cache = svc.cache /\ s.out = svc.out /\ s.caching = svc.caching /\ s.handed = svc.handed
  <2>1. /\ [svc.queries EXCEPT ![a] = NoQuery] \in [Agents -> QueryState \cup {NoQuery}]
        /\ [svc.legs EXCEPT ![a] = NoLegs] \in [Agents -> LegState \cup {NoLegs}]
    BY <1>1
  <2> QED BY <1>2, <2>1 DEF ServiceState
<1>4. s.queries[a] = NoQuery /\ s.legs[a] = NoLegs /\ \A b \in Agents \ {a} : s.queries[b] = svc.queries[b] /\ s.legs[b] = svc.legs[b]
  BY <1>1, <1>3
<1> QED BY <1>3, <1>4 DEF s

LEMMA CancelledFits ==
  ASSUME NEW a \in Agents, NEW view, NEW paid \in BOOLEAN, NEW svc, PlannedOK(svc, view, paid)
  PROVE  LET s == Cancelled(svc, a) IN PlannedOK(s, view, paid) /\ (Examined(svc) => Examined(s))
<1> DEFINE s == Cancelled(svc, a)
<1>1. svc \in ServiceState /\ ServiceOK(svc, view, paid)
  BY DEF PlannedOK, ServiceOK
<1>2. /\ s \in ServiceState /\ s.cache = svc.cache /\ s.out = svc.out /\ s.caching = svc.caching /\ s.handed = svc.handed
      /\ s.queries[a] = NoQuery /\ s.legs[a] = NoLegs
      /\ \A b \in Agents \ {a} : s.queries[b] = svc.queries[b] /\ s.legs[b] = svc.legs[b]
  BY <1>1, CancelledIs
<1> HIDE DEF s
<1>3. AgentOK(s, a, view, paid)
  BY <1>2 DEF AgentOK, LegsOK, LegsFor, PendingOK, Active
<1>4. ASSUME NEW b \in Agents \ {a} PROVE AgentOK(s, b, view, paid)
  <2>1. AgentOK(svc, b, view, paid)
    BY <1>1 DEF ServiceOK
  <2> QED BY <1>2, <2>1 DEF AgentOK, LegsOK
<1>5. ServiceOK(s, view, paid)
  BY <1>1, <1>2, <1>3, <1>4 DEF ServiceOK
<1> QED BY <1>2, <1>5 DEF PlannedOK, Examined, Active, s

(***************************************************************************)
(* The map changes                                                         *)
(***************************************************************************)
Changed(view, k, t) ==
  [content |-> [view.content EXCEPT ![k] = t], version |-> view.version + 1,
   stamp |-> [view.stamp EXCEPT ![k] = view.version + 1]]

LEMMA ChangedFacts ==
  ASSUME NEW view, MapOK(view), NEW k \in Row, NEW t \in Nat
  PROVE  LET o == Changed(view, k, t) IN
         /\ MapOK(o) /\ o.version = view.version + 1 /\ view.version \in Nat
         /\ view.content \in Content /\ o.content \in Content /\ \A j \in Row \ {k} : o.content[j] = view.content[j]
         /\ o.stamp[k] = view.version + 1 /\ \A j \in Row : view.stamp[j] \in Nat /\ view.stamp[j] <= o.stamp[j]
<1>1. /\ view.version \in Nat /\ view.content \in [Row -> Nat] /\ view.stamp \in [Row -> Nat]
      /\ \A j \in Row : view.stamp[j] <= view.version
  BY DEF MapOK, MapState, Content
<1> DEFINE c == [view.content EXCEPT ![k] = t]
           s == [view.stamp EXCEPT ![k] = view.version + 1]
           v == view.version + 1
<1>2. /\ c \in [Row -> Nat] /\ s \in [Row -> Nat] /\ v \in Nat /\ s[k] = v
      /\ \A j \in Row \ {k} : c[j] = view.content[j] /\ s[j] = view.stamp[j]
  BY <1>1
<1>3. \A j \in Row : view.stamp[j] \in Nat /\ view.stamp[j] <= s[j] /\ s[j] <= v
  BY <1>1, <1>2
<1> HIDE DEF c, s, v
<1>4. Changed(view, k, t) = [content |-> c, version |-> v, stamp |-> s]
  BY DEF Changed, c, s, v
<1> QED BY <1>1, <1>2, <1>3, <1>4 DEF MapOK, MapState, Content, v

\* A search that has not read what has changed is where it was.
LEMMA SearchMoves ==
  ASSUME NEW q \in QueryState, q.search # NoSearch, NEW m \in Content, NEW o \in Content,
         NextSearch(q.req, q.done) # NoSpec, SearchFits(q, m), q.search.spec.alg = "grid",
         \A k \in ReadOf(q.search) : o[k] = m[k]
  PROVE  SearchFits(q, o)
<1> DEFINE s == q.search
           spec == q.search.spec
           cap == CapOf(q.req, Left(q), q.done)
           cold(x) == ColdEnd(q.req, Left(q), q.done, x)
<1>0. q.req \in RequestState /\ Left(q) \in Int /\ q.done \in Seq(DoneState)
  BY QueryFacts
<1>1. s \in SearchState /\ spec = NextSearch(q.req, q.done).spec /\ s.cap = cap /\ s.charged <= cold(m).expansions
  BY DEF SearchFits
<1>2. spec \in SpecState /\ cap \in Int /\ s.charged \in Nat /\ s.hit \in EndState \cup {NoHit}
  BY <1>1 DEF SearchState
<1>3. \A x \in Content : (cap <= 0 => cold(x) = Synthesized) /\ (cap > 0 => cold(x) = Run(x, spec, cap))
  BY <1>0, <1>1, ColdEndFacts
<1> HIDE DEF cap, cold
<1>4. CASE s.hit = NoHit
  <2>1. cap > 0 /\ s.seen = SeenBy(m, spec, s.charged) /\ cap \in Nat
    BY <1>2, <1>4 DEF SearchFits, cap
  <2>2. \A x \in Content : /\ cold(x).expansions = Least(Length(x, spec), cap) /\ Length(x, spec) \in Nat
    BY <1>2, <1>3, <2>1, RunType, StopFacts
  <2>3. DOMAIN s.seen = ReadAfter(m, spec, s.charged)
    BY <1>2, <2>1, SeenFacts
  <2>4. \A k \in ReadAfter(m, spec, s.charged) : o[k] = m[k]
    BY <1>4, <2>3 DEF ReadOf
  <2>5. Least(Length(m, spec), s.charged) = s.charged /\ s.charged <= cap
    <3>1. s.charged <= Least(Length(m, spec), cap) /\ Length(m, spec) \in Nat
      BY <1>1, <2>2
    <3> HIDE DEF s, spec
    <3> QED BY <1>2, <2>1, <3>1 DEF Least
  <2>6. /\ Least(Length(o, spec), s.charged) = s.charged /\ ReadAfter(o, spec, s.charged) = ReadAfter(m, spec, s.charged)
    <3>1. PICK n \in Nat : n = s.charged
      BY <1>2
    <3>2. /\ Least(Length(o, spec), n) = Least(Length(m, spec), n)
          /\ ReadAfter(o, spec, Least(Length(o, spec), n)) = ReadAfter(m, spec, Least(Length(m, spec), n))
      <4>1. \A k \in ReadAfter(m, spec, Least(Length(m, spec), n)) : o[k] = m[k]
        BY <2>4, <2>5, <3>1
      <4> QED BY <1>2, <4>1, SameRun
    <3> QED BY <2>5, <3>1, <3>2
  <2>7. s.charged <= cold(o).expansions
    <3>1. cold(o).expansions = Least(Length(o, spec), cap) /\ Length(o, spec) \in Nat
      BY <2>2
    <3> HIDE DEF s, spec
    <3> QED BY <1>2, <2>1, <2>5, <2>6, <3>1 DEF Least
  <2>8. SeenBy(o, spec, s.charged) = SeenBy(m, spec, s.charged)
    <3>1. /\ SeenBy(o, spec, s.charged) = [k \in ReadAfter(o, spec, s.charged) |-> o[k]]
          /\ SeenBy(m, spec, s.charged) = [k \in ReadAfter(m, spec, s.charged) |-> m[k]]
      BY DEF SeenBy
    <3> QED BY <2>4, <2>6, <3>1
  <2> QED BY <1>1, <1>4, <2>1, <2>7, <2>8 DEF SearchFits, cap, cold
<1>5. CASE s.hit # NoHit
  <2>1. SameEnd(s.hit, cold(m)) /\ s.seen = <<>> /\ s.hit.late = (cap > 0 /\ NeedsExtraIteration(spec, s.hit.status))
    BY <1>5 DEF SearchFits, cold, cap
  <2>2. cold(o) = cold(m)
    <3>1. CASE cap <= 0
      BY <1>3, <3>1
    <3>2. CASE cap > 0
      <4>1. cap \in Nat /\ cold(m) = Run(m, spec, cap) /\ cold(o) = Run(o, spec, cap)
        BY <1>2, <1>3, <3>2
      <4>2. s.hit.reads = ReadAfter(m, spec, Least(Length(m, spec), cap))
        <5>1. Run(m, spec, cap).reads = ReadAfter(m, spec, Least(Length(m, spec), cap))
          BY DEF Run, SearchEnd
        <5> QED BY <2>1, <4>1, <5>1 DEF SameEnd
      <4>3. \A k \in ReadAfter(m, spec, Least(Length(m, spec), cap)) : o[k] = m[k]
        BY <1>5, <4>2 DEF ReadOf
      <4>4. Run(o, spec, cap) = Run(m, spec, cap)
        BY <1>2, <4>1, <4>3, SameRun
      <4> QED BY <4>1, <4>4
    <3> QED BY <1>2, <3>1, <3>2
  <2>3. s.charged <= cold(o).expansions
    BY <1>1, <2>2
  <2> QED BY <1>1, <1>5, <2>1, <2>2, <2>3 DEF SearchFits, cap, cold
<1> QED BY <1>4, <1>5

LEMMA QueryMoves ==
  ASSUME NEW view, MapOK(view), NEW k \in Row, NEW t \in Nat, NEW q, QueryOK(q, view), q.carry = NoCarry
  PROVE  QueryOK(q, Changed(view, k, t))
<1> DEFINE o == Changed(view, k, t)
           m == view.content
           p == o.content
<1>1. /\ o.version = view.version + 1 /\ view.version \in Nat /\ m \in Content /\ p \in Content
      /\ (\A j \in Row \ {k} : p[j] = m[j]) /\ o.stamp[k] = view.version + 1
      /\ \A j \in Row : view.stamp[j] \in Nat /\ view.stamp[j] <= o.stamp[j]
      /\ o.stamp \in [Row -> Nat]
  BY ChangedFacts DEF MapOK, MapState
<1> HIDE DEF o
<1>2. /\ q \in QueryState /\ q.seen <= view.version /\ q.seenGraph <= view.version /\ UsedOK(q) /\ (Stale(q, view) \/ Current(q, m))
      /\ q.seen \in Int /\ q.seenGraph \in Int /\ q.usedHpa \in BOOLEAN
  BY DEF QueryOK, QueryState
<1>3. q.seen <= o.version /\ q.seenGraph <= o.version /\ q.seenGraph # o.version
  BY <1>1, <1>2
<1>4. ChangedFor(q, view) \subseteq ChangedFor(q, o) /\ k \in ChangedFor(q, o)
  <2>1. \A j \in Row : view.stamp[j] > q.seen => o.stamp[j] > q.seen
    <3> TAKE j \in Row
    <3>1. view.stamp[j] \in Nat /\ view.stamp[j] <= o.stamp[j] /\ o.stamp[j] \in Nat
      BY <1>1
    <3> QED BY <1>2, <3>1
  <2>2. o.stamp[k] > q.seen
    BY <1>1, <1>2
  <2> QED BY <2>1, <2>2 DEF ChangedFor, Row
<1>5. Stale(q, view) => Stale(q, o)
  BY <1>3, <1>4 DEF Stale, GraphMoved
<1>6. ASSUME Stale(q, view) PROVE QueryOK(q, o)
  BY <1>2, <1>3, <1>5, <1>6 DEF QueryOK
<1>7. ASSUME q.usedHpa PROVE QueryOK(q, o)
  <2>1. Stale(q, o)
    BY <1>3, <1>7 DEF Stale, GraphMoved
  <2> QED BY <1>2, <1>3, <2>1 DEF QueryOK
<1>8. ASSUME k \in ReadByQuery(q) PROVE QueryOK(q, o)
  <2>1. Stale(q, o)
    BY <1>4, <1>8 DEF Stale
  <2> QED BY <1>2, <1>3, <2>1 DEF QueryOK
<1>9. ASSUME ~Stale(q, view) /\ ~q.usedHpa /\ k \notin ReadByQuery(q) PROVE QueryOK(q, o)
  <2>1. Current(q, m) /\ \A n \in Nat : n < Begun(q) => ~HpaAt(q.req, n)
    BY <1>2, <1>9 DEF UsedOK
  <2>2. q.req \in RequestState /\ Left(q) \in Int /\ q.done \in Seq(DoneState) /\ Len(q.done) \in Nat
    BY <1>2, QueryFacts
  <2>3. (q.search = NoSearch => Begun(q) = Len(q.done)) /\ (q.search # NoSearch => Begun(q) = Len(q.done) + 1)
    <3>1. Begun(q) = Len(q.done) + (IF q.search = NoSearch THEN 0 ELSE 1)
      BY DEF Begun
    <3>2. PICK n \in Nat : n = Len(q.done)
      BY <2>2
    <3>3. CASE q.search = NoSearch
      BY <3>1, <3>2, <3>3
    <3>4. CASE q.search # NoSearch
      BY <3>1, <3>2, <3>4
    <3> QED BY <3>3, <3>4
  <2>4. \A i \in 1..Len(q.done) : q.done[i].reads \subseteq Row /\ k \notin q.done[i].reads
    <3>1. DOMAIN q.done = 1..Len(q.done) /\ \A i \in 1..Len(q.done) : q.done[i] \in DoneState
      BY <2>2
    <3>2. \A i \in 1..Len(q.done) : q.done[i].reads \subseteq Row
      BY <3>1 DEF DoneState
    <3> QED BY <1>9, <3>1, <3>2 DEF ReadByQuery
  <2>5. ColdDone(q.req, Left(q), q.done, p)
    <3>1. ColdDone(q.req, Left(q), q.done, m)
      BY <2>1 DEF Current
    <3>2. \A i \in 0..(Len(q.done) - 1) : ~HpaAt(q.req, i)
      <4>1. \A i \in 0..(Len(q.done) - 1) : i \in Nat /\ i < Begun(q)
        BY <2>2, <2>3
      <4> QED BY <2>1, <4>1
    <3>3. \A i \in 1..Len(q.done) : \A j \in q.done[i].reads : p[j] = m[j]
      BY <1>1, <2>4
    <3> HIDE DEF p, m
    <3> QED BY <1>1, <2>2, <3>1, <3>2, <3>3, ColdMoves
  <2>6. ASSUME q.search # NoSearch PROVE SearchFits(q, p)
    <3>1. NextSearch(q.req, q.done) # NoSpec /\ SearchFits(q, m) /\ q.search \in SearchState
          /\ q.search.spec = NextSearch(q.req, q.done).spec
      BY <2>1, <2>6 DEF Current, SearchFits
    <3>2. ~HpaAt(q.req, Len(q.done))
      BY <2>1, <2>2, <2>3, <2>6
    <3>3. q.search.spec.alg = "grid"
      <4>1. q.search.spec.alg \in {"grid", "hpa"}
        BY <3>1 DEF SearchState, SpecState
      <4>2. q.search.spec.alg = "hpa" <=> HpaAt(q.req, Len(q.done))
        BY <2>2, <3>1, NextFacts
      <4> QED BY <3>2, <4>1, <4>2
    <3>4. ReadOf(q.search) \subseteq Row /\ k \notin ReadOf(q.search)
      <4>1. q.search.hit \in EndState \cup {NoHit} /\ q.search.seen \in SeenState
        BY <3>1 DEF SearchState
      <4>2. q.search.hit # NoHit => q.search.hit.reads \subseteq Row
        BY <4>1 DEF EndState
      <4>3. DOMAIN q.search.seen \subseteq Row
        BY <4>1 DEF SeenState
      <4> QED BY <1>9, <4>2, <4>3 DEF ReadOf, ReadByQuery
    <3>5. \A j \in ReadOf(q.search) : p[j] = m[j]
      BY <1>1, <3>4
    <3> HIDE DEF p, m
    <3> QED BY <1>1, <1>2, <2>6, <3>1, <3>3, <3>5, SearchMoves
  <2>7. Current(q, p)
    BY <2>1, <2>5, <2>6 DEF Current
  <2> QED BY <1>2, <1>3, <2>7 DEF QueryOK
<1>10. QED BY <1>6, <1>7, <1>8, <1>9 DEF o

\* The outcomes have been taken, and the map is another.
LEMMA EmptiedIs ==
  ASSUME NEW svc \in ServiceState
  PROVE  LET s == Emptied(svc) IN
         /\ s \in ServiceState /\ s.queries = svc.queries /\ s.legs = svc.legs
         /\ s.cache = svc.cache /\ s.out = <<>> /\ s.caching = svc.caching /\ s.handed = [a \in Agents |-> Nothing]
<1> DEFINE s == Emptied(svc)
           none == [a \in Agents |-> Nothing]
<1>1. s = [svc EXCEPT !.out = <<>>, !.handed = none]
  BY DEF Emptied
<1>2. none \in [Agents -> HandedState] /\ <<>> \in Seq(OutcomeState)
  <2>1. Nothing \in HandedState
    BY DEF Nothing, HandedState, LegStatuses
  <2> QED BY <2>1
<1> HIDE DEF s, none
<1>3. /\ s \in ServiceState /\ s.queries = svc.queries /\ s.legs = svc.legs
      /\ s.cache = svc.cache /\ s.out = <<>> /\ s.caching = svc.caching /\ s.handed = none
  BY <1>1, <1>2 DEF ServiceState
<1> QED BY <1>3 DEF s, none

LEMMA EmptiedFits ==
  ASSUME NEW view, MapOK(view), NEW paid \in BOOLEAN, NEW svc, PlannedOK(svc, view, paid), Examined(svc),
         NEW o, o = view \/ \E k \in Row, t \in Nat : o = Changed(view, k, t)
  PROVE  LET s == Emptied(svc) IN PlannedOK(s, o, paid) /\ Quiet(s)
<1> DEFINE s == Emptied(svc)
           none == [a \in Agents |-> Nothing]
<1>1. svc \in ServiceState /\ ServiceOK(svc, view, paid) /\ CacheOK(svc.cache, view)
  BY DEF PlannedOK, ServiceOK
<1>2. /\ s \in ServiceState /\ s.queries = svc.queries /\ s.legs = svc.legs
      /\ s.cache = svc.cache /\ s.out = <<>> /\ s.caching = svc.caching /\ s.handed = none
  BY <1>1, EmptiedIs
<1> HIDE DEF s
<1>3. \A a \in Agents : s.handed[a] = Nothing
  BY <1>2
<1>4. svc.cache \in Seq(CacheState) /\ \A a \in Agents : svc.queries[a] \in QueryState \cup {NoQuery}
  BY <1>1 DEF ServiceState
<1>5. CacheOK(s.cache, o)
  <2>1. CASE o = view
    BY <1>1, <1>2, <2>1
  <2>2. CASE \E k \in Row, t \in Nat : o = Changed(view, k, t)
    <3>1. o.version = view.version + 1 /\ view.version \in Nat
      BY <2>2, ChangedFacts
    <3>2. \A i \in DOMAIN svc.cache : svc.cache[i].key[2] <= view.version /\ svc.cache[i].key[2] \in Nat
      <4>1. \A i \in DOMAIN svc.cache : svc.cache[i] \in CacheState
        BY <1>4
      <4>2. \A i \in DOMAIN svc.cache : svc.cache[i].key \in KeyState
        BY <4>1 DEF CacheState
      <4> QED BY <1>1, <4>2 DEF CacheOK, KeyState
    <3>3. \A i \in DOMAIN svc.cache : svc.cache[i].key[2] <= o.version /\ svc.cache[i].key[2] # o.version
      <4> TAKE i \in DOMAIN svc.cache
      <4>1. svc.cache[i].key[2] <= view.version /\ svc.cache[i].key[2] \in Nat
        BY <3>2
      <4> QED BY <3>1, <4>1
    <3> QED BY <1>2, <3>3 DEF CacheOK
  <2> QED BY <2>1, <2>2
<1>6. ASSUME NEW a \in Agents PROVE AgentOK(s, a, o, paid)
  <2>1. AgentOK(svc, a, view, paid)
    BY <1>1 DEF ServiceOK
  <2>2. svc.legs[a] # NoLegs => svc.legs[a].pending = <<>>
    BY DEF PlannedOK
  <2>3. PendingOK(s.legs[a], o.content)
    BY <1>2, <2>2 DEF PendingOK
  <2>4. ASSUME Active(svc.queries[a]) PROVE QueryOK(svc.queries[a], o)
    <3>1. QueryOK(svc.queries[a], view) /\ svc.queries[a].carry = NoCarry
      BY <2>1, <2>4 DEF AgentOK, Examined
    <3>2. CASE o = view
      BY <3>1, <3>2
    <3>3. CASE \E k \in Row, t \in Nat : o = Changed(view, k, t)
      BY <3>1, <3>3, QueryMoves
    <3> QED BY <3>2, <3>3
  <2> QED BY <1>2, <2>1, <2>3, <2>4 DEF AgentOK, LegsOK
<1>7. ServiceOK(s, o, paid)
  BY <1>2, <1>5, <1>6 DEF ServiceOK, OutsOK
<1>8. \A a \in Agents : /\ s.legs[a] # NoLegs => s.legs[a].pending = <<>>
                        /\ HandedOK(s.handed[a], o.content)
  BY <1>2, <1>3 DEF PlannedOK, HandedOK, Nothing
<1> QED BY <1>2, <1>3, <1>7, <1>8 DEF PlannedOK, Quiet, s

(***************************************************************************)
(* Snapshot and restore                                                    *)
(***************************************************************************)
LEMMA UsedBegins ==
  ASSUME NEW q \in QueryState, q.search = NoSearch, UsedOK(q), NEW b, SameButSearch(b, q), b.search # NoSearch,
         b.usedHpa = (q.usedHpa \/ HpaAt(q.req, Len(q.done)))
  PROVE  UsedOK(b)
<1>1. Begun(q) = Len(q.done) /\ Begun(b) = Len(q.done) + 1 /\ Len(q.done) \in Nat
  BY QueryFacts DEF SameButSearch, Begun
<1>2. b.req = q.req
  BY DEF SameButSearch
<1>3. \A k \in Nat : k < Len(q.done) + 1 <=> k < Len(q.done) \/ k = Len(q.done)
  BY <1>1
<1>4. (\E k \in Nat : k < Len(q.done) + 1 /\ HpaAt(q.req, k))
        <=> (\E k \in Nat : k < Len(q.done) /\ HpaAt(q.req, k)) \/ HpaAt(q.req, Len(q.done))
  BY <1>1, <1>3
<1> QED BY <1>1, <1>2, <1>4 DEF UsedOK

\* A search is run again.
Afresh(q) == [q EXCEPT !.done = <<>>, !.search = NoSearch, !.usedHpa = FALSE]
Rerun(r, tick, view) ==
  LET b == BeginSearch(NewService(FALSE), r, view)
  IN  IF NextSearch(r.req, r.done) = NoSpec THEN r
      ELSE [b EXCEPT !.done = Append(@, WithEnd(Result(b.search, view), tick)), !.search = NoSearch]

SameRequest(r, q) ==
  /\ r.id = q.id /\ r.req = q.req /\ r.age = q.age /\ r.restarts = q.restarts /\ r.continuations = q.continuations
  /\ r.spent = q.spent /\ r.seen = q.seen /\ r.seenGraph = q.seenGraph /\ r.carry = q.carry /\ r.work = q.work
ReplayOK(r, q, view) ==
  /\ r \in QueryState /\ SameRequest(r, q) /\ r.search = NoSearch /\ UsedOK(r)
  /\ ColdDone(r.req, Left(r), r.done, view.content)

LEMMA AfreshFits ==
  ASSUME NEW q \in QueryState, NEW view PROVE ReplayOK(Afresh(q), q, view)
<1> DEFINE r == Afresh(q)
<1>1. <<>> \in Seq(DoneState)
  OBVIOUS
<1>2. r \in QueryState /\ SameRequest(r, q) /\ r.search = NoSearch /\ r.done = <<>> /\ r.usedHpa = FALSE
  BY <1>1 DEF Afresh, QueryState, SameRequest
<1> HIDE DEF r
<1>3. UsedOK(r)
  <2>1. Begun(r) = 0
    BY <1>2 DEF Begun
  <2>2. \A n \in Nat : ~(n < 0)
    OBVIOUS
  <2> QED BY <1>2, <2>1, <2>2 DEF UsedOK
<1>4. ColdDone(r.req, Left(r), r.done, view.content)
  BY <1>2, ColdNone
<1> QED BY <1>2, <1>3, <1>4 DEF ReplayOK, r

LEMMA NewServiceFits ==
  ASSUME NEW caching \in BOOLEAN
  PROVE  LET s == NewService(caching) IN
         /\ s \in ServiceState /\ s.caching = caching /\ s.cache = <<>> /\ s.out = <<>>
         /\ \A a \in Agents : s.queries[a] = NoQuery /\ s.legs[a] = NoLegs /\ s.handed[a] = Nothing
         /\ \A view, paid : PlannedOK(s, view, paid)
<1> DEFINE s == NewService(caching)
<1>1. Nothing \in HandedState /\ <<>> \in Seq(CacheState) /\ <<>> \in Seq(OutcomeState)
  <2>1. <<>> \in Seq(Leg)
    OBVIOUS
  <2> QED BY <2>1 DEF Nothing, HandedState, LegStatuses
<1>2. s \in ServiceState /\ s.caching = caching /\ s.cache = <<>> /\ s.out = <<>>
  BY <1>1 DEF NewService, ServiceState
<1>3. \A a \in Agents : s.queries[a] = NoQuery /\ s.legs[a] = NoLegs /\ s.handed[a] = Nothing
  BY DEF NewService
<1> HIDE DEF s
<1>4. \A view : CacheOK(s.cache, view)
  BY <1>2 DEF CacheOK
<1>5. \A view, paid : OutsOK(s.out, view.content, paid)
  BY <1>2 DEF OutsOK
<1>6. \A a \in Agents : \A view, paid : AgentOK(s, a, view, paid)
  BY <1>3 DEF AgentOK, LegsOK, LegsFor, PendingOK, Active
<1>7. \A a \in Agents : \A view : HandedOK(s.handed[a], view.content)
  BY <1>3 DEF HandedOK, Nothing
<1> QED BY <1>2, <1>3, <1>4, <1>5, <1>6, <1>7 DEF PlannedOK, ServiceOK, s

\* One more search has been completed.
OneMore(p, r, tick) == \E x \in DoneState : x.ended = tick /\ p.done = Append(r.done, x)

LEMMA RerunFits ==
  ASSUME NEW view \in MapState, NEW q, NEW r, ReplayOK(r, q, view), NEW tick \in Nat
  PROVE  /\ ReplayOK(Rerun(r, tick, view), q, view)
         /\ NextSearch(r.req, r.done) # NoSpec => OneMore(Rerun(r, tick, view), r, tick)
<1> DEFINE m == view.content
           svc == NewService(FALSE)
           b == BeginSearch(svc, r, view)
           x == WithEnd(Result(b.search, view), tick)
           p == Rerun(r, tick, view)
<1>1. /\ r \in QueryState /\ SameRequest(r, q) /\ r.search = NoSearch /\ UsedOK(r)
      /\ ColdDone(r.req, Left(r), r.done, m)
  BY DEF ReplayOK
<1>2. CASE NextSearch(r.req, r.done) = NoSpec
  BY <1>2 DEF Rerun
<1>3. CASE NextSearch(r.req, r.done) # NoSpec
  <2>1. svc.cache \in Seq(CacheState) /\ CacheOK(svc.cache, view)
    <3>1. svc.cache = <<>>
      BY DEF NewService
    <3> HIDE DEF svc
    <3> QED BY <3>1 DEF CacheOK
  <2> HIDE DEF svc
  <2>2. /\ b \in QueryState /\ SameButSearch(b, r) /\ Current(b, m) /\ b.search # NoSearch
        /\ b.usedHpa = (r.usedHpa \/ HpaAt(r.req, Len(r.done)))
    BY <1>1, <1>3, <2>1, BeginFacts
  <2>3. p = [b EXCEPT !.done = Append(b.done, x), !.search = NoSearch]
    BY <1>3, <2>2 DEF Rerun, QueryState, svc
  <2> HIDE DEF b
  <2>4. UsedOK(b)
    BY <1>1, <2>2, UsedBegins
  <2>5. /\ NextSearch(b.req, b.done) # NoSpec /\ ColdDone(b.req, Left(b), b.done, m)
        /\ Result(b.search, view) \in EndState
        /\ SameEnd(Result(b.search, view), ColdEnd(b.req, Left(b), b.done, m))
    BY <2>2, SearchFacts DEF Current
  <2>15. x.ended = tick
    BY DEF WithEnd
  <2>6. x \in DoneState /\ SameEnd(x, ColdEnd(b.req, Left(b), b.done, m))
    BY <2>5 DEF WithEnd, DoneState, EndState, SameEnd
  <2>7. b.done \in Seq(DoneState) /\ Len(b.done) \in Nat
    BY <2>2, QueryFacts
  <2> HIDE DEF x, p
  <2>8. Append(b.done, x) \in Seq(DoneState) /\ Len(Append(b.done, x)) = Len(b.done) + 1
    BY <2>6, <2>7
  <2>9. /\ p \in QueryState /\ p.done = Append(b.done, x) /\ p.search = NoSearch /\ p.req = b.req /\ p.spent = b.spent
        /\ p.usedHpa = b.usedHpa /\ SameRequest(p, b)
    BY <2>2, <2>3, <2>8 DEF QueryState, SameRequest
  <2>10. Begun(p) = Begun(b)
    <3>1. Begun(p) = Len(p.done) + 0 /\ Begun(b) = Len(b.done) + 1
      BY <2>2, <2>9 DEF Begun
    <3> QED BY <2>7, <2>8, <2>9, <3>1
  <2>11. UsedOK(p)
    BY <2>4, <2>9, <2>10 DEF UsedOK
  <2>12. Left(p) = Left(b)
    BY <2>9 DEF Left
  <2>13. ColdDone(p.req, Left(p), p.done, m)
    BY <2>5, <2>6, <2>7, <2>9, <2>12, ColdAppend
  <2>14. SameRequest(p, q)
    BY <1>1, <2>2, <2>9 DEF SameRequest, SameButSearch
  <2>16. ReplayOK(p, q, view)
    BY <2>9, <2>11, <2>13, <2>14 DEF ReplayOK
  <2>17. OneMore(p, r, tick)
    BY <2>2, <2>6, <2>9, <2>15 DEF SameButSearch, OneMore
  <2> QED BY <2>16, <2>17 DEF p
<1> QED BY <1>2, <1>3

\* The steps of a replay.
Replays(H, q, view) ==
  /\ H[0] = Afresh(q) /\ H[Len(q.done)] = Replayed(q, view)
  /\ \A i \in 1..Len(q.done) : H[i] = Rerun(H[i - 1], q.done[i].ended, view)
  /\ \A i \in 0..Len(q.done) : ReplayOK(H[i], q, view)
LEMMA ReplayedSteps ==
  ASSUME NEW view \in MapState, NEW q \in QueryState
  PROVE  \E H : Replays(H, q, view)
<1> DEFINE n == Len(q.done)
           s == [i \in DOMAIN q.done |-> i]
           r0 == Afresh(q)
           V == {r \in QueryState : ReplayOK(r, q, view)}
           F == [i \in 1..n |-> [r \in V |-> Rerun(r, q.done[i].ended, view)]]
           Rec(it) == it = [t \in SUBSET DOMAIN s |->
                              IF t = {} THEN r0 ELSE Rerun(it[t \ {Max(t)}], q.done[s[Max(t)]].ended, view)]
           g == CHOOSE it : Rec(it)
<1>0. r0 \in V
  BY AfreshFits DEF ReplayOK
<1>1. n \in Nat /\ DOMAIN q.done = 1..n /\ \A i \in 1..n : q.done[i].ended \in Nat
  <2>1. q.done \in Seq(DoneState)
    BY QueryFacts
  <2>2. n \in Nat /\ DOMAIN q.done = 1..n /\ \A i \in 1..n : q.done[i] \in DoneState
    BY <2>1
  <2> QED BY <2>2 DEF DoneState
<1>2. F \in [1..n -> [V -> V]] /\ \A i \in 1..n, r \in V : F[i][r] = Rerun(r, q.done[i].ended, view)
  <2>1. ASSUME NEW i \in 1..n, NEW r \in V PROVE Rerun(r, q.done[i].ended, view) \in V
    <3>1. ReplayOK(Rerun(r, q.done[i].ended, view), q, view)
      BY <1>1, RerunFits
    <3> QED BY <3>1 DEF ReplayOK
  <2> HIDE DEF V
  <2> QED BY <2>1
<1>3. DOMAIN s = 1..n /\ \A i \in 1..n : s[i] = i
  BY <1>1
<1>4. Replayed(q, view) = FoldValue(g, n)
  BY <1>1 DEF FoldValue, Replayed, FoldLeft, MapThenFoldSet, Rerun, Afresh
<1> HIDE DEF F, n, V, r0, s
<1>5. ASSUME NEW t \in SUBSET (1..n), t # {}
      PROVE  Max(t) \in 1..n /\ t \ {Max(t)} \in SUBSET (1..n)
  BY <1>1, <1>5, GreatestIndex
<1>6. PICK it \in [SUBSET (1..n) -> V] : SolvesFold(it, n, V, r0, F)
  BY <1>0, <1>1, <1>2, FoldExists
<1>7. Rec(it)
  <2>1. ASSUME NEW t \in SUBSET (1..n), t # {}
        PROVE it[t] = Rerun(it[t \ {Max(t)}], q.done[s[Max(t)]].ended, view)
    <3>1. Max(t) \in 1..n /\ t \ {Max(t)} \in SUBSET (1..n)
      BY <1>5, <2>1
    <3>2. PICK x \in V : x = it[t \ {Max(t)}]
      BY <3>1
    <3>3. it[t] = F[Max(t)][x]
      BY <1>6, <2>1, <3>2 DEF SolvesFold
    <3>4. F[Max(t)][x] = Rerun(x, q.done[Max(t)].ended, view)
      BY <1>2, <3>1
    <3> QED BY <1>3, <3>1, <3>2, <3>3, <3>4
  <2>2. it[{}] = r0
    BY <1>6 DEF SolvesFold
  <2> QED BY <1>3, <2>1, <2>2
<1>8. Rec(g)
  BY <1>7
<1>9. SolvesFold(g, n, V, r0, F)
  <2> HIDE DEF g
  <2>1. ASSUME NEW t \in SUBSET (1..n), t # {}, g[t \ {Max(t)}] \in V
        PROVE  g[t] = F[Max(t)][g[t \ {Max(t)}]]
    <3>1. Max(t) \in 1..n /\ s[Max(t)] = Max(t)
      BY <1>3, <1>5, <2>1
    <3>2. g[t] = Rerun(g[t \ {Max(t)}], q.done[Max(t)].ended, view)
      <4>1. g[t] = Rerun(g[t \ {Max(t)}], q.done[s[Max(t)]].ended, view)
        BY <1>3, <1>8, <2>1
      <4> QED BY <3>1, <4>1
    <3> HIDE DEF Rec
    <3> QED BY <1>2, <2>1, <3>1, <3>2
  <2>2. g[{}] = r0
    BY <1>3, <1>8
  <2> QED BY <2>1, <2>2 DEF SolvesFold
<1> HIDE DEF g
<1>10. PICK H : StepsOf(H, n, V, r0, F) /\ H[n] = FoldValue(g, n)
  BY <1>0, <1>1, <1>2, <1>9, FoldSteps
<1>11. H \in [0..n -> V] /\ H[0] = r0 /\ \A i \in 1..n : H[i] = F[i][H[i - 1]]
  BY <1>10 DEF StepsOf
<1>12. \A i \in 1..n : H[i] = Rerun(H[i - 1], q.done[i].ended, view)
  <2> TAKE i \in 1..n
  <2>1. i - 1 \in 0..n
    BY <1>1
  <2>2. PICK x \in V : x = H[i - 1]
    BY <1>11, <2>1
  <2>3. H[i] = F[i][x]
    BY <1>11, <2>2
  <2> QED BY <1>2, <2>2, <2>3
<1>13. \A i \in 0..n : ReplayOK(H[i], q, view)
  BY <1>11 DEF V
<1>14. Replays(H, q, view)
  BY <1>4, <1>10, <1>11, <1>12, <1>13 DEF Replays, n, r0
<1> QED BY <1>14

LEMMA ReplayedFits ==
  ASSUME NEW view \in MapState, NEW q \in QueryState
  PROVE  ReplayOK(Replayed(q, view), q, view)
<1>1. PICK H : Replays(H, q, view)
  BY ReplayedSteps
<1>2. Len(q.done) \in Nat
  BY QueryFacts
<1>3. Len(q.done) \in 0..Len(q.done)
  BY <1>2
<1> QED BY <1>1, <1>3 DEF Replays

\* The beginning of what is done is done.
LEMMA ColdBeginning ==
  ASSUME NEW req, NEW left, NEW m, NEW done \in Seq(DoneState), ColdDone(req, left, done, m), NEW i \in 0..Len(done)
  PROVE  ColdDone(req, left, SubSeq(done, 1, i), m)
<1> DEFINE c == SubSeq(done, 1, i)
<1>1. Len(done) \in Nat /\ c \in Seq(DoneState) /\ Len(c) = i /\ \A j \in 1..i : c[j] = done[j]
  BY BeginningFacts
<1> SUFFICES ColdDone(req, left, c, m)
  OBVIOUS
<1> HIDE DEF c
<1>2. ASSUME NEW j \in 1..i
      PROVE  LET d == SubSeq(c, 1, j - 1) IN NextSearch(req, d) # NoSpec /\ SameEnd(c[j], ColdEnd(req, left, d, m))
  <2> DEFINE d == SubSeq(c, 1, j - 1)
             e == SubSeq(done, 1, j - 1)
  <2>1. j \in 1..Len(done) /\ j - 1 \in 0..Len(done) /\ j - 1 \in 0..Len(c) /\ \A k \in 1..(j - 1) : k \in 1..i
    BY <1>1
  <2>2. d \in Seq(DoneState) /\ Len(d) = j - 1 /\ \A k \in 1..(j - 1) : d[k] = c[k]
    BY <1>1, <2>1, BeginningFacts
  <2>3. e \in Seq(DoneState) /\ Len(e) = j - 1 /\ \A k \in 1..(j - 1) : e[k] = done[k]
    BY <2>1, BeginningFacts
  <2>4. NextSearch(req, e) # NoSpec /\ SameEnd(done[j], ColdEnd(req, left, e, m))
    BY <2>1 DEF ColdDone
  <2> HIDE DEF d, e
  <2>5. d = e
    BY <1>1, <2>1, <2>2, <2>3, SameList
  <2>6. c[j] = done[j]
    BY <1>1
  <2> QED BY <2>4, <2>5, <2>6 DEF d
<1> QED BY <1>1, <1>2 DEF ColdDone

\* What has been done alike is done again alike.
LEMMA ReplayedAlike ==
  ASSUME NEW view \in MapState, NEW q \in QueryState, ColdDone(q.req, Left(q), q.done, view.content)
  PROVE  LET r == Replayed(q, view) IN
         Agree(r.done, q.done) /\ \A i \in 1..Len(q.done) : r.done[i].ended = q.done[i].ended
<1> DEFINE n == Len(q.done)
           m == view.content
           d == q.done
<1>0. n \in Nat /\ d \in Seq(DoneState) /\ n = Len(d) /\ \A i \in 1..n : d[i].ended \in Nat
  <2>1. d \in Seq(DoneState)
    BY QueryFacts
  <2>2. \A i \in 1..Len(d) : d[i] \in DoneState
    BY <2>1
  <2> QED BY <2>1, <2>2 DEF DoneState
<1>1. PICK H : Replays(H, q, view)
  BY ReplayedSteps
<1>2. /\ H[0] = Afresh(q) /\ H[n] = Replayed(q, view)
      /\ \A i \in 1..n : H[i] = Rerun(H[i - 1], d[i].ended, view)
      /\ \A i \in 0..n : ReplayOK(H[i], q, view)
  BY <1>1 DEF Replays
<1>3. \A i \in 0..n : H[i].done \in Seq(DoneState) /\ H[i].req = q.req /\ ColdDone(q.req, Left(q), H[i].done, m)
  BY <1>2, QueryFacts DEF ReplayOK, SameRequest, Left
<1> DEFINE Fits(i) == Len(H[i].done) = i /\ \A j \in 1..i : H[i].done[j].ended = d[j].ended
           T == {i \in 0..n : Fits(i)}
<1>4. 0 \in T
  <2>1. H[0].done = <<>>
    BY <1>2 DEF Afresh, QueryState
  <2> QED BY <1>0, <2>1
<1>5. ASSUME NEW i \in 0..n, i \in T, i < n PROVE i + 1 \in T
  <2> DEFINE c == H[i].done
             e == SubSeq(d, 1, i)
             tick == d[i + 1].ended
  <2>1. i \in Nat /\ i + 1 \in 1..n /\ (i + 1) - 1 = i /\ i + 1 \in 0..n
    BY <1>0, <1>5
  <2>2. c \in Seq(DoneState) /\ Len(c) = i /\ ColdDone(q.req, Left(q), c, m) /\ \A j \in 1..i : c[j].ended = d[j].ended
    BY <1>3, <1>5
  <2>3. e \in Seq(DoneState) /\ Len(e) = i /\ ColdDone(q.req, Left(q), e, m)
    <3>1. ColdDone(q.req, Left(q), e, m)
      BY <1>0, ColdBeginning
    <3> QED BY <1>0, <3>1, BeginningFacts
  <2>4. NextSearch(q.req, e) # NoSpec
    BY <1>0, <2>1 DEF ColdDone
  <2> HIDE DEF e
  <2>5. NextSearch(q.req, c) # NoSpec
    BY <2>2, <2>3, <2>4, ColdUnique, AgreeFacts
  <2>6. NextSearch(H[i].req, H[i].done) # NoSpec /\ ReplayOK(H[i], q, view) /\ H[i + 1] = Rerun(H[i], tick, view)
    BY <1>2, <1>3, <2>1, <2>5
  <2>7. tick \in Nat
    BY <1>0, <2>1
  <2> HIDE DEF tick
  <2>8. PICK x \in DoneState : x.ended = tick /\ H[i + 1].done = Append(c, x)
    <3>1. PICK r : r = H[i]
      OBVIOUS
    <3>2. ReplayOK(r, q, view) /\ NextSearch(r.req, r.done) # NoSpec
      BY <2>6, <3>1
    <3>3. OneMore(Rerun(r, tick, view), r, tick)
      BY <2>7, <3>2, RerunFits
    <3> QED BY <2>6, <3>1, <3>3 DEF OneMore
  <2> HIDE DEF c
  <2>9. Len(H[i + 1].done) = i + 1 /\ H[i + 1].done[i + 1] = x /\ \A j \in 1..i : H[i + 1].done[j] = c[j]
    BY <2>1, <2>2, <2>8
  <2>10. \A j \in 1..(i + 1) : H[i + 1].done[j].ended = d[j].ended
    <3>1. \A j \in 1..(i + 1) : j \in 1..i \/ j = i + 1
      BY <2>1
    <3> QED BY <2>2, <2>8, <2>9, <3>1 DEF tick
  <2>11. Fits(i + 1)
    BY <2>9, <2>10
  <2> HIDE DEF Fits
  <2> QED BY <2>1, <2>11
<1> HIDE DEF T
<1>6. 0..n \subseteq T
  BY <1>0, <1>4, <1>5, AllIndices
<1>7. Fits(n)
  <2>1. n \in 0..n
    BY <1>0
  <2>2. n \in T
    BY <1>6, <2>1
  <2> HIDE DEF Fits
  <2> QED BY <2>2 DEF T
<1>8. n \in 0..n
  BY <1>0
<1>9. Agree(H[n].done, d)
  BY <1>0, <1>3, <1>7, <1>8, ColdUnique
<1> QED BY <1>2, <1>7, <1>9

\* A restored query has done what it had, and more or less of what it has read.
LEMMA CarriedFits ==
  ASSUME NEW view \in MapState, NEW q \in QueryState
  PROVE  LET c == Carried(q, view)
             chunks == ChangedFor(q, view) IN
         /\ c \in CarryState /\ (chunks = {} => c = NoCarry)
         /\ chunks # {} => /\ c # NoCarry /\ c.chunks = chunks
                           /\ c.read = IF q.carry = NoCarry THEN ReadByQuery(q) ELSE q.carry.read
<1>1. q.carry \in CarryState /\ q.search \in SearchState \cup {NoSearch} /\ q.done \in Seq(DoneState)
  BY QueryFacts
<1>2. q.carry.chunks \subseteq Row /\ q.carry.read \subseteq Row
  BY <1>1 DEF CarryState
<1>3. ReadOf(q.search) \subseteq Row
  <2>1. CASE q.search \in SearchState
    <3>1. q.search.hit \in EndState \cup {NoHit} /\ q.search.seen \in SeenState
      BY <2>1 DEF SearchState
    <3>2. q.search.hit # NoHit => q.search.hit.reads \subseteq Row
      BY <3>1 DEF EndState
    <3>3. DOMAIN q.search.seen \subseteq Row
      BY <3>1 DEF SeenState
    <3> QED BY <3>2, <3>3 DEF ReadOf
  <2>2. CASE q.search = NoSearch
    <3>1. ReadOf(NoSearch) = {}
      BY DEF ReadOf, NoSearch, NoSpec
    <3> QED BY <2>2, <3>1
  <2> QED BY <1>1, <2>1, <2>2
<1>4. \A i \in DOMAIN q.done : q.done[i].reads \subseteq Row
  <2>1. \A i \in DOMAIN q.done : q.done[i] \in DoneState
    BY <1>1
  <2> QED BY <2>1 DEF DoneState
<1>5. ReadByQuery(q) \subseteq Row /\ ChangedFor(q, view) \subseteq Row
  BY <1>2, <1>3, <1>4 DEF ReadByQuery, ChangedFor, Row
<1>6. NoCarry \in CarryState /\ NoCarry.chunks = {}
  BY DEF NoCarry, CarryState
<1> QED BY <1>2, <1>5, <1>6 DEF Carried, CarryState

LEMMA RestoredSearch ==
  ASSUME NEW view \in MapState, NEW q \in QueryState, Reproduces(q, view), q.search # NoSearch
  PROVE  LET before == Replayed(q, view)
             r == BeginSearch(NewService(FALSE), before, view)
             cold == ColdEnd(before.req, Left(before), before.done, view.content)
             n == Least(q.search.charged, Result(r.search, view).expansions) IN
         /\ r \in QueryState /\ SameButSearch(r, before) /\ UsedOK(r) /\ r.search # NoSearch
         /\ r.search \in SearchState /\ SearchFits(r, view.content) /\ NextSearch(r.req, r.done) # NoSpec
         /\ Result(r.search, view).expansions = cold.expansions /\ cold.expansions \in Nat
         /\ n \in Nat /\ n <= cold.expansions /\ n <= q.search.charged
         /\ (q.search.charged <= cold.expansions => n = q.search.charged)
         /\ r.search.hit # NoHit => r.search.cap <= 0
<1> DEFINE before == Replayed(q, view)
           svc == NewService(FALSE)
           r == BeginSearch(svc, before, view)
           m == view.content
           e == Result(r.search, view)
           cold == ColdEnd(before.req, Left(before), before.done, m)
<1>1. /\ before \in QueryState /\ SameRequest(before, q) /\ before.search = NoSearch /\ UsedOK(before)
      /\ ColdDone(before.req, Left(before), before.done, m)
  BY ReplayedFits DEF ReplayOK
<1>2. NextSearch(before.req, before.done) # NoSpec
  BY DEF Reproduces
<1> HIDE DEF before
<1>3. svc.cache \in Seq(CacheState) /\ CacheOK(svc.cache, view) /\ svc.caching = FALSE
  <2>1. svc.cache = <<>> /\ svc.caching = FALSE
    BY DEF NewService
  <2> HIDE DEF svc
  <2> QED BY <2>1 DEF CacheOK
<1> HIDE DEF svc
<1>4. /\ r \in QueryState /\ SameButSearch(r, before) /\ Current(r, m) /\ r.search # NoSearch /\ r.search \in SearchState
      /\ r.usedHpa = (before.usedHpa \/ HpaAt(before.req, Len(before.done)))
      /\ r.search.hit # NoHit => r.search.cap <= 0
  <2>1. ~Cacheable(svc, before)
    BY <1>3 DEF Cacheable
  <2> QED BY <1>1, <1>2, <1>3, <2>1, BeginFacts
<1> HIDE DEF r
<1>5. UsedOK(r)
  BY <1>1, <1>4, UsedBegins
<1>6. SearchFits(r, m) /\ NextSearch(r.req, r.done) # NoSpec
  BY <1>4 DEF Current
<1>7. e.expansions \in Nat /\ SameEnd(e, ColdEnd(r.req, Left(r), r.done, m))
  BY <1>4, SearchFacts
<1>8. r.req = before.req /\ Left(r) = Left(before) /\ r.done = before.done
  BY <1>4 DEF SameButSearch, Left
<1>9. e.expansions = cold.expansions
  BY <1>7, <1>8 DEF SameEnd
<1>10. q.search.charged \in Nat
  BY QueryFacts
<1> HIDE DEF e, cold
<1>11. LET n == Least(q.search.charged, e.expansions) IN
       /\ n \in Nat /\ n <= cold.expansions /\ n <= q.search.charged
       /\ (q.search.charged <= cold.expansions => n = q.search.charged)
  BY <1>7, <1>9, <1>10 DEF Least
<1> QED BY <1>4, <1>5, <1>6, <1>7, <1>9, <1>11 DEF r, svc, before, e, cold

\* What the restore makes of a query.
RerunTo(q, r, view) ==
  LET n == Least(q.search.charged, Result(r.search, view).expansions)
  IN  [r EXCEPT !.search.charged = IF IsStrategy(q.req) THEN n ELSE q.search.charged,
                !.search.seen = IF r.search.hit = NoHit THEN SeenBy(view.content, r.search.spec, n) ELSE @]

LEMMA RerunToFits ==
  ASSUME NEW view \in MapState, NEW q \in QueryState, Reproduces(q, view), q.search # NoSearch
  PROVE  LET before == Replayed(q, view)
             r == RerunTo(q, BeginSearch(NewService(FALSE), before, view), view)
             cold == ColdEnd(before.req, Left(before), before.done, view.content) IN
         /\ r \in QueryState /\ SameRequest(r, q) /\ r.done = before.done /\ UsedOK(r) /\ r.search # NoSearch
         /\ NextSearch(r.req, r.done) # NoSpec /\ cold.expansions \in Nat
         /\ q.search.charged <= cold.expansions => SearchFits(r, view.content) /\ r.search.charged = q.search.charged
         /\ ~IsStrategy(q.req) => r.search.charged = q.search.charged
         /\ r.search.hit # NoHit => r.search.cap <= 0
<1> DEFINE before == Replayed(q, view)
           b == BeginSearch(NewService(FALSE), before, view)
           m == view.content
           s == b.search
           cold == ColdEnd(before.req, Left(before), before.done, m)
           n == Least(q.search.charged, Result(s, view).expansions)
           charged == IF IsStrategy(q.req) THEN n ELSE q.search.charged
           seen == IF s.hit = NoHit THEN SeenBy(m, s.spec, n) ELSE s.seen
           e == [s EXCEPT !.charged = charged, !.seen = seen]
           r == RerunTo(q, b, view)
<1>0. m \in Content /\ q.search.charged \in Nat
  BY QueryFacts DEF MapState
<1>1. /\ b \in QueryState /\ SameButSearch(b, before) /\ UsedOK(b) /\ s # NoSearch
      /\ s \in SearchState /\ SearchFits(b, m) /\ NextSearch(b.req, b.done) # NoSpec
      /\ cold.expansions \in Nat /\ n \in Nat /\ n <= cold.expansions
      /\ (q.search.charged <= cold.expansions => n = q.search.charged)
      /\ s.hit # NoHit => s.cap <= 0
  BY RestoredSearch
<1>2. SameRequest(before, q)
  BY ReplayedFits DEF ReplayOK
<1>3. r = [b EXCEPT !.search = e]
  <2> DEFINE c == charged
  <2> HIDE DEF c
  <2>1. r = [b EXCEPT !.search.charged = c, !.search.seen = seen]
    BY DEF RerunTo, c
  <2> HIDE DEF b, seen, r
  <2> QED BY <1>1, <2>1 DEF QueryState, SearchState, c
<1> HIDE DEF cold, n, before, b, r
<1>4. charged \in Nat /\ seen \in SeenState
  <2>1. SeenBy(m, s.spec, n) \in SeenState /\ s.seen \in SeenState
    BY <1>0, <1>1, SeenFacts DEF SearchState
  <2> QED BY <1>0, <1>1, <2>1
<1>5. (q.search.charged <= cold.expansions => charged = q.search.charged /\ charged = n) /\ (~IsStrategy(q.req) => charged = q.search.charged)
  BY <1>1
<1>6. s.hit = NoHit => seen = SeenBy(m, s.spec, n)
  OBVIOUS
<1>7. s.hit # NoHit => seen = s.seen
  OBVIOUS
<1>8. s.spec \in SpecState /\ s.cap \in Int /\ s.hit \in EndState \cup {NoHit}
  BY <1>1 DEF SearchState
<1> HIDE DEF charged, seen
<1>9. e \in SearchState /\ e.spec = s.spec /\ e.cap = s.cap /\ e.hit = s.hit /\ e.charged = charged /\ e.seen = seen
  <2> HIDE DEF s
  <2> QED BY <1>1, <1>4, <1>8 DEF SearchState
<1>10. e # NoSearch
  BY <1>9, NoEnd
<1> HIDE DEF e
<1>11. /\ r \in QueryState /\ r.search = e /\ r.done = b.done /\ r.req = b.req /\ r.spent = b.spent /\ r.usedHpa = b.usedHpa
       /\ SameRequest(r, b)
  BY <1>1, <1>3, <1>9 DEF QueryState, SameRequest
<1>12. SameRequest(r, q) /\ r.done = before.done
  BY <1>1, <1>2, <1>11 DEF SameRequest, SameButSearch
<1>13. UsedOK(r)
  BY <1>1, <1>10, <1>11 DEF UsedOK, Begun
<1>14. Left(r) = Left(b) /\ Left(b) = Left(before) /\ b.req = before.req /\ b.done = before.done
  BY <1>1, <1>11 DEF Left, SameButSearch
<1>15. ASSUME q.search.charged <= cold.expansions PROVE SearchFits(r, m) /\ r.search.charged = q.search.charged
  <2>1. charged = n /\ charged = q.search.charged
    BY <1>5, <1>15
  <2>2. ColdEnd(r.req, Left(r), r.done, m) = cold /\ ColdEnd(b.req, Left(b), b.done, m) = cold
    BY <1>11, <1>14 DEF cold
  <2>3. e.charged <= cold.expansions
    BY <1>1, <1>9, <2>1
  <2> HIDE DEF s, m
  <2>4. SearchFits(r, m)
    BY <1>1, <1>6, <1>7, <1>9, <1>11, <1>14, <2>1, <2>2, <2>3 DEF SearchFits, s
  <2> QED BY <1>9, <1>11, <2>1, <2>4
<1>16. ~IsStrategy(q.req) => r.search.charged = q.search.charged
  BY <1>5, <1>9, <1>11
<1>17. NextSearch(r.req, r.done) # NoSpec
  BY <1>1, <1>11
<1>18. r.search.hit # NoHit => r.search.cap <= 0
  BY <1>1, <1>9, <1>11
<1> QED BY <1>1, <1>10, <1>11, <1>12, <1>13, <1>15, <1>16, <1>17, <1>18 DEF cold, before, r, b

Resumes(r, q, view) ==
  /\ QueryOK(r, view) /\ r # NoQuery /\ r.id = q.id /\ r.req = q.req /\ r.age = q.age /\ r.restarts = q.restarts
  /\ r.continuations = q.continuations /\ r.spent = q.spent /\ r.work = q.work
  /\ r.seen = view.version /\ (r.seenGraph = view.version <=> q.seenGraph = view.version)
  /\ r.carry = Carried(q, view) /\ r.usedHpa = q.usedHpa /\ r.done = Replayed(q, view).done
  /\ (r.search = NoSearch <=> q.search = NoSearch) /\ (r.search.hit # NoHit => r.search.cap <= 0)
  /\ ~IsStrategy(q.req) \/ ~Stale(q, view) => r.search.charged = q.search.charged
LEMMA QueryRestoredIs ==
  ASSUME NEW view, MapOK(view), NEW q, QueryOK(q, view), Reproduces(q, view)
  PROVE  Resumes(QueryRestored(q, view), q, view)
<1> DEFINE before == Replayed(q, view)
           u == RerunTo(q, BeginSearch(NewService(FALSE), before, view), view)
           p == IF q.search = NoSearch THEN before ELSE u
           carry == Carried(q, view)
           graph == IF q.seenGraph # view.version THEN -1 ELSE view.version
           m == view.content
           r == QueryRestored(q, view)
<1>0. view \in MapState /\ view.version \in Nat /\ m \in Content
  BY DEF MapOK, MapState
<1>1. q \in QueryState /\ q.seenGraph <= view.version /\ UsedOK(q) /\ (Stale(q, view) \/ Current(q, m))
  BY DEF QueryOK
<1>2. /\ before \in QueryState /\ SameRequest(before, q) /\ before.search = NoSearch /\ UsedOK(before)
      /\ ColdDone(before.req, Left(before), before.done, m)
  BY <1>0, <1>1, ReplayedFits DEF ReplayOK
<1>3. Len(before.done) = Len(q.done) /\ \A i \in DOMAIN q.done : before.done[i].expansions = q.done[i].expansions
  BY DEF Reproduces
<1>4. r = [p EXCEPT !.seen = view.version, !.seenGraph = graph, !.carry = carry]
  BY DEF QueryRestored, RerunTo
<1>5. carry \in CarryState /\ (ChangedFor(q, view) # {} => /\ carry # NoCarry /\ carry.chunks = ChangedFor(q, view)
                           /\ carry.read = IF q.carry = NoCarry THEN ReadByQuery(q) ELSE q.carry.read)
  BY <1>0, <1>1, CarriedFits
<1> DEFINE cold == ColdEnd(before.req, Left(before), before.done, m)
<1>6. /\ p \in QueryState /\ SameRequest(p, q) /\ p.done = before.done /\ UsedOK(p)
      /\ p.search = NoSearch <=> q.search = NoSearch
      /\ q.search # NoSearch /\ q.search.charged <= cold.expansions => SearchFits(p, m) /\ p.search.charged = q.search.charged
      /\ ~IsStrategy(q.req) => p.search.charged = q.search.charged
      /\ p.search.hit # NoHit => p.search.cap <= 0
  <2>1. CASE q.search = NoSearch
    <3>1. NoSearch.hit = NoHit
      BY DEF NoSearch
    <3> HIDE DEF u, before, cold
    <3>2. p = before
      BY <2>1
    <3> QED BY <1>2, <2>1, <3>1, <3>2
  <2>2. CASE q.search # NoSearch
    <3>1. /\ u \in QueryState /\ SameRequest(u, q) /\ u.done = before.done /\ UsedOK(u) /\ u.search # NoSearch
          /\ q.search.charged <= cold.expansions => SearchFits(u, m) /\ u.search.charged = q.search.charged
          /\ ~IsStrategy(q.req) => u.search.charged = q.search.charged
          /\ u.search.hit # NoHit => u.search.cap <= 0
      BY <1>0, <1>1, <2>2, RerunToFits
    <3> HIDE DEF u, before, cold
    <3> QED BY <2>2, <3>1
  <2> QED BY <2>1, <2>2
<1> HIDE DEF before, u, p, carry, r
<1>7. graph \in Int /\ graph <= view.version /\ (graph = view.version <=> q.seenGraph = view.version)
  BY <1>0
<1> HIDE DEF graph
<1>8. /\ r \in QueryState /\ r.seen = view.version /\ r.seenGraph = graph /\ r.carry = carry /\ r.done = p.done /\ r.search = p.search
      /\ r.req = p.req /\ r.spent = p.spent /\ r.age = p.age /\ r.work = p.work /\ r.usedHpa = p.usedHpa
      /\ r.id = p.id /\ r.restarts = p.restarts /\ r.continuations = p.continuations
  <2>1. view.version \in Int
    BY <1>0
  <2> QED BY <1>4, <1>5, <1>6, <1>7, <2>1 DEF QueryState
<1>9. /\ r.req = q.req /\ r.spent = q.spent /\ r.age = q.age /\ r.work = q.work
      /\ r.id = q.id /\ r.restarts = q.restarts /\ r.continuations = q.continuations
  BY <1>6, <1>8 DEF SameRequest
<1>10. Begun(r) = Begun(q) /\ Begun(p) = Begun(q)
  BY <1>3, <1>6, <1>8 DEF Begun
<1>11. UsedOK(r) /\ r.usedHpa = q.usedHpa
  <2>1. UsedOK(r)
    BY <1>6, <1>8, <1>10 DEF UsedOK
  <2>2. r.usedHpa \in BOOLEAN /\ q.usedHpa \in BOOLEAN
    BY <1>1, <1>8, QueryFacts
  <2> QED BY <1>1, <1>9, <1>10, <2>1, <2>2 DEF UsedOK
<1>12. r.seen <= view.version /\ r.seenGraph <= view.version /\ r # NoQuery
  BY <1>0, <1>7, <1>8, QueryFacts
<1>13. Stale(q, view) => Stale(r, view)
  <2>1. GraphMoved(q, view) => GraphMoved(r, view)
    BY <1>7, <1>8, <1>11 DEF GraphMoved
  <2>2. ASSUME ChangedFor(q, view) \cap (IF q.carry = NoCarry THEN ReadByQuery(q) ELSE q.carry.read) # {}
        PROVE  Stale(r, view)
    <3>1. ChangedFor(q, view) # {}
      BY <2>2
    <3>2. ChangedFor(q, view) \subseteq ChangedFor(r, view)
      BY <1>5, <1>8, <3>1 DEF ChangedFor
    <3> QED BY <1>5, <1>8, <2>2, <3>1, <3>2 DEF Stale
  <2> QED BY <2>1, <2>2 DEF Stale
<1>14. q.done \in Seq(DoneState) /\ before.done \in Seq(DoneState) /\ r.done = before.done /\ r.req = before.req
       /\ Left(r) = Left(before) /\ Left(before) = Left(q)
  BY <1>1, <1>2, <1>6, <1>8, QueryFacts DEF SameRequest, Left
<1>15. ASSUME ~Stale(q, view)
       PROVE  Current(r, m) /\ (q.search # NoSearch => r.search.charged = q.search.charged)
  <2>1. NextSearch(q.req, q.done) # NoSpec /\ ColdDone(q.req, Left(q), q.done, m) /\ (q.search # NoSearch => SearchFits(q, m))
    BY <1>1, <1>15 DEF Current
  <2>2. Agree(before.done, q.done)
    <3>1. ColdDone(q.req, Left(q), before.done, m)
      BY <1>2, <1>9, <1>14
    <3> QED BY <1>3, <1>14, <2>1, <3>1, ColdUnique
  <2>3. NextSearch(r.req, r.done) # NoSpec /\ ColdDone(r.req, Left(r), r.done, m)
    BY <1>2, <1>9, <1>14, <2>1, <2>2, AgreeFacts
  <2>4. ASSUME q.search # NoSearch PROVE SearchFits(r, m) /\ r.search.charged = q.search.charged
    <3>1. q.search.charged <= ColdEnd(q.req, Left(q), q.done, m).expansions
      BY <2>1, <2>4 DEF SearchFits
    <3>2. cold = ColdEnd(q.req, Left(q), q.done, m)
      BY <1>9, <1>14, <2>2, AgreeFacts
    <3>3. SearchFits(p, m) /\ p.search.charged = q.search.charged
      BY <1>6, <2>4, <3>1, <3>2
    <3>4. p.search = r.search /\ p.req = r.req /\ Left(p) = Left(r) /\ p.done = r.done
      BY <1>8 DEF Left
    <3> QED BY <3>3, <3>4 DEF SearchFits
  <2> QED BY <1>8, <1>6, <2>3, <2>4 DEF Current
<1>16. QueryOK(r, view)
  BY <1>8, <1>11, <1>12, <1>13, <1>15 DEF QueryOK
<1>17. ASSUME ~IsStrategy(q.req) \/ ~Stale(q, view) PROVE r.search.charged = q.search.charged
  <2>1. CASE q.search = NoSearch
    BY <1>6, <1>8, <2>1
  <2>2. CASE q.search # NoSearch
    BY <1>6, <1>8, <1>15, <1>17, <2>2
  <2> QED BY <2>1, <2>2
<1>18. /\ r.seen = view.version /\ (r.seenGraph = view.version <=> q.seenGraph = view.version)
       /\ (r.search = NoSearch <=> q.search = NoSearch) /\ (r.search.hit # NoHit => r.search.cap <= 0)
  BY <1>6, <1>7, <1>8
<1>19. r.carry = Carried(q, view) /\ r.done = Replayed(q, view).done
  BY <1>8, <1>14 DEF carry, before
<1>20. Resumes(r, q, view)
  BY <1>9, <1>11, <1>12, <1>16, <1>17, <1>18, <1>19 DEF Resumes
<1> QED BY <1>20 DEF r

LEMMA QueryRestoredFits ==
  ASSUME NEW view, MapOK(view), NEW q, QueryOK(q, view), Reproduces(q, view)
  PROVE  LET r == QueryRestored(q, view) IN
         /\ QueryOK(r, view) /\ r # NoQuery /\ r.req = q.req
         /\ \A a : BudgetOK(q, a) /\ (~IsStrategy(q.req) \/ ~Stale(q, view)) => BudgetOK(r, a)
<1> DEFINE r == QueryRestored(q, view)
<1>1. Resumes(r, q, view)
  BY QueryRestoredIs
<1> HIDE DEF r
<1>2. /\ QueryOK(r, view) /\ r # NoQuery /\ r.req = q.req /\ r.spent = q.spent /\ r.work = q.work /\ r.age = q.age
      /\ r.done = Replayed(q, view).done
      /\ ~IsStrategy(q.req) \/ ~Stale(q, view) => r.search.charged = q.search.charged
  BY <1>1 DEF Resumes
<1>3. r \in QueryState /\ q \in QueryState /\ r.done \in Seq(DoneState) /\ q.done \in Seq(DoneState)
  BY <1>2, QueryFacts DEF QueryOK
<1>4. Costs(r.done) = Costs(q.done)
  <2>1. Len(r.done) = Len(q.done) /\ \A i \in DOMAIN q.done : r.done[i].expansions = q.done[i].expansions
    BY <1>2 DEF Reproduces
  <2>2. DOMAIN r.done = DOMAIN q.done
    BY <1>3, <2>1
  <2> QED BY <2>1, <2>2, CostsAgree
<1>5. ASSUME NEW a, BudgetOK(q, a), ~IsStrategy(q.req) \/ ~Stale(q, view) PROVE BudgetOK(r, a)
  <2>1. Charged(r) = Charged(q)
    BY <1>2, <1>3, <1>4, <1>5, QueryFacts
  <2> QED BY <1>2, <1>5, <2>1 DEF BudgetOK, PaidBut
<1> QED BY <1>2, <1>5 DEF r

LEMMA RestoredFits ==
  ASSUME NEW view, MapOK(view), NEW paid, NEW svc, PlannedOK(svc, view, paid), Restorable(svc, view), NEW more \in BOOLEAN,
         more => /\ paid
                 /\ \A a \in Agents : LET q == svc.queries[a] IN Active(q) => ~IsStrategy(q.req) \/ ~Stale(q, view)
  PROVE  LET s == Restored(svc, view) IN PlannedOK(s, view, more) /\ Quiet(s)
<1> DEFINE Q == svc.queries
           queries == [a \in Agents |-> IF Active(Q[a]) THEN QueryRestored(Q[a], view) ELSE NoQuery]
           legs == [a \in Agents |-> IF Active(Q[a]) THEN svc.legs[a] ELSE NoLegs]
           s == Restored(svc, view)
           fresh == NewService(svc.caching)
<1>1. /\ svc \in ServiceState /\ svc.caching \in BOOLEAN /\ ServiceOK(svc, view, paid)
      /\ \A a \in Agents : /\ AgentOK(svc, a, view, paid) /\ (svc.legs[a] # NoLegs => svc.legs[a].pending = <<>>)
                           /\ Q[a] \in QueryState \cup {NoQuery} /\ svc.legs[a] \in LegState \cup {NoLegs}
  BY DEF PlannedOK, ServiceOK, ServiceState
<1>2. /\ fresh \in ServiceState /\ fresh.cache = <<>> /\ fresh.out = <<>>
      /\ (\A a \in Agents : fresh.handed[a] = Nothing) /\ PlannedOK(fresh, view, more)
  BY <1>1, NewServiceFits
<1>3. s = [fresh EXCEPT !.queries = queries, !.legs = legs]
  BY DEF Restored
<1>4. ASSUME NEW a \in Agents, Active(Q[a])
      PROVE  /\ queries[a] \in QueryState /\ QueryOK(queries[a], view) /\ queries[a].req = Q[a].req
             /\ (more => BudgetOK(queries[a], a))
  <2>1. queries[a] = QueryRestored(Q[a], view)
    BY <1>4
  <2>2. QueryOK(Q[a], view) /\ (paid => BudgetOK(Q[a], a)) /\ Reproduces(Q[a], view)
    BY <1>1, <1>4 DEF AgentOK, Restorable
  <2>3. more => BudgetOK(Q[a], a) /\ (~IsStrategy(Q[a].req) \/ ~Stale(Q[a], view))
    BY <1>4, <2>2
  <2> HIDE DEF queries, Q
  <2>4. QueryOK(queries[a], view) /\ queries[a].req = Q[a].req /\ (more => BudgetOK(queries[a], a))
    BY <2>1, <2>2, <2>3, QueryRestoredFits
  <2> QED BY <2>4 DEF QueryOK
<1>5. \A a \in Agents : ~Active(Q[a]) => queries[a] = NoQuery /\ legs[a] = NoLegs
  OBVIOUS
<1>6. \A a \in Agents : Active(Q[a]) => legs[a] = svc.legs[a]
  OBVIOUS
<1>7. DOMAIN queries = Agents /\ DOMAIN legs = Agents /\ queries = [a \in Agents |-> queries[a]] /\ legs = [a \in Agents |-> legs[a]]
  OBVIOUS
<1> HIDE DEF queries, legs, s, fresh
<1>8. queries \in [Agents -> QueryState \cup {NoQuery}] /\ legs \in [Agents -> LegState \cup {NoLegs}]
  <2>1. \A a \in Agents : queries[a] \in QueryState \cup {NoQuery} /\ legs[a] \in LegState \cup {NoLegs}
    BY <1>1, <1>4, <1>5, <1>6
  <2> QED BY <1>7, <2>1
<1>9. /\ s \in ServiceState /\ s.queries = queries /\ s.legs = legs /\ s.cache = <<>> /\ s.out = <<>>
      /\ s.handed = fresh.handed
  BY <1>2, <1>3, <1>8 DEF ServiceState
<1>10. ASSUME NEW a \in Agents PROVE AgentOK(s, a, view, more) /\ (s.legs[a] # NoLegs => s.legs[a].pending = <<>>)
  <2>1. CASE Active(Q[a])
    <3>1. LegsFor(svc.legs[a], Q[a]) /\ PendingOK(svc.legs[a], view.content)
      BY <1>1 DEF AgentOK, LegsOK
    <3>2. LegsFor(legs[a], queries[a])
      BY <1>4, <1>6, <2>1, <3>1 DEF LegsFor
    <3> QED BY <1>1, <1>4, <1>6, <1>9, <2>1, <3>1, <3>2 DEF AgentOK, LegsOK
  <2>2. CASE ~Active(Q[a])
    <3>1. s.queries[a] = NoQuery /\ s.legs[a] = NoLegs
      BY <1>5, <1>9, <2>2
    <3> QED BY <3>1 DEF AgentOK, LegsOK, LegsFor, PendingOK, Active
  <2> QED BY <2>1, <2>2
<1>11. CacheOK(s.cache, view) /\ OutsOK(s.out, view.content, more)
  BY <1>9 DEF CacheOK, OutsOK
<1>12. ServiceOK(s, view, more)
  BY <1>9, <1>10, <1>11 DEF ServiceOK
<1>13. \A a \in Agents : HandedOK(s.handed[a], view.content)
  BY <1>2, <1>9 DEF HandedOK, Nothing
<1>14. PlannedOK(s, view, more) /\ Quiet(s)
  BY <1>2, <1>9, <1>10, <1>12, <1>13 DEF PlannedOK, Quiet
<1> QED BY <1>14 DEF s

(***************************************************************************)
(* The three services                                                      *)
(***************************************************************************)
\* The accounts of a service are held to its limits as long as they are.
LEMMA PlannedLess ==
  ASSUME NEW svc, NEW view, NEW paid, NEW less, less => paid, PlannedOK(svc, view, paid)
  PROVE  PlannedOK(svc, view, less)
BY PaidLess DEF PlannedOK

LEMMA AccountedLess == ASSUME excused \subseteq excused' PROVE \A x : Accounted(x)' => Accounted(x)
BY DEF Accounted

LEMMA AccountedType == \A x : Accounted(x) \in BOOLEAN
BY DEF Accounted

LEMMA PlanInit == Init => PlanInv
<1> SUFFICES ASSUME Init PROVE PlanInv
  OBVIOUS
<1>1. MapOK(map)
  <2>1. PICK m \in Maps : map = [content |-> m, version |-> 0, stamp |-> [k \in 1..Chunks |-> 0]]
    BY DEF Init
  <2>2. m \in Content
    BY TwinsAssumption DEF Content, Row
  <2> QED BY <2>1, <2>2 DEF MapOK, MapState, Row
<1>2. ASSUME NEW x \in Services PROVE PlannedOK(service[x], map, Accounted(x)) /\ Quiet(service[x])
  <2>1. service[x] = NewService(x # "cold") /\ (x # "cold") \in BOOLEAN
    BY DEF Init
  <2> DEFINE c == x # "cold"
  <2> HIDE DEF c
  <2>2. service[x] = NewService(c) /\ c \in BOOLEAN
    BY <2>1 DEF c
  <2> QED BY <2>2, NewServiceFits DEF Quiet
<1>3. phase = "plan" /\ nextQuery = 1 /\ restores = 0 /\ DOMAIN service = Services
  BY DEF Init
<1> QED BY <1>1, <1>2, <1>3 DEF PlanInv

LEMMA PlanKeepsPlanInv == PlanInv /\ Plan => PlanInv'
<1> SUFFICES ASSUME PlanInv, Plan PROVE PlanInv'
  OBVIOUS
<1>1. phase = "plan" /\ phase' = "act" /\ map' = map /\ nextQuery' = nextQuery /\ restores' = restores
  BY DEF Plan
<1>2. service' = [x \in Services |-> LegsTaken(Ticked(service[x], map))] /\ excused \subseteq excused'
  BY DEF Plan
<1>3. map \in MapState
  BY DEF PlanInv, MapOK
<1>4. ASSUME NEW x \in Services PROVE PlannedOK(service'[x], map, Accounted(x)) /\ Examined(service'[x])
  <2> DEFINE paid == Accounted(x)
             s == service[x]
  <2>1. paid \in BOOLEAN
    BY AccountedType
  <2> HIDE DEF paid
  <2>2. ServiceOK(s, map, paid)
    BY DEF PlanInv, PlannedOK, paid
  <2>3. service'[x] = LegsTaken(Ticked(s, map))
    BY <1>2
  <2> HIDE DEF s
  <2> DEFINE t == Ticked(s, map)
  <2>4. ServiceOK(t, map, paid) /\ Examined(t)
    BY <1>3, <2>1, <2>2, TickedFits
  <2> HIDE DEF t
  <2>5. PlannedOK(LegsTaken(t), map, paid) /\ LegsTaken(t).queries = t.queries
    BY <2>1, <2>4, LegsTakenFits
  <2>6. Examined(LegsTaken(t))
    BY <2>4, <2>5 DEF Examined
  <2> QED BY <2>3, <2>5, <2>6 DEF paid, t
<1>5. ASSUME NEW x \in Services PROVE PlannedOK(service'[x], map', Accounted(x)')
  BY <1>1, <1>2, <1>4, AccountedLess, PlannedLess
<1>6. DOMAIN service' = Services
  BY <1>2
<1> QED BY <1>1, <1>4, <1>5, <1>6 DEF PlanInv

LEMMA ActKeepsPlanInv ==
  ASSUME PlanInv, NEW a \in Agents, Cancel(a) \/ \E req \in Requests[a] : Submit(a, req) PROVE PlanInv'
<1>1. phase = "act" /\ phase' = phase /\ map' = map /\ restores' = restores /\ excused' = excused
      /\ nextQuery' \in Nat \ {0} /\ DOMAIN service' = Services
  BY DEF PlanInv, Cancel, Submit
<1>2. map \in MapState /\ nextQuery \in Nat \ {0}
  BY DEF PlanInv, MapOK
<1>3. ASSUME NEW x \in Services PROVE PlannedOK(service'[x], map, Accounted(x)) /\ Examined(service'[x])
  <2> DEFINE paid == Accounted(x)
             s == service[x]
  <2>1. paid \in BOOLEAN
    BY AccountedType
  <2> HIDE DEF paid
  <2>2. PlannedOK(s, map, paid) /\ Examined(s)
    BY <1>1 DEF PlanInv, paid
  <2>3. CASE Cancel(a)
    <3>1. service'[x] = Cancelled(s, a)
      BY <2>3 DEF Cancel
    <3> HIDE DEF s
    <3>2. PlannedOK(Cancelled(s, a), map, paid) /\ Examined(Cancelled(s, a))
      BY <2>1, <2>2, CancelledFits
    <3> QED BY <3>1, <3>2 DEF paid
  <2>4. CASE \E req \in Requests[a] : Submit(a, req)
    <3>1. PICK req \in Requests[a] : Submit(a, req)
      BY <2>4
    <3>2. req \in RequestState
      BY TwinsAssumption DEF RequestState, Kinds, Row
    <3>3. service'[x] = Submitted(s, a, nextQuery, req, map)
      BY <3>1 DEF Submit
    <3> HIDE DEF s
    <3>4. PlannedOK(Submitted(s, a, nextQuery, req, map), map, paid) /\ Examined(Submitted(s, a, nextQuery, req, map))
      BY <1>2, <2>1, <2>2, <3>2, SubmittedFits
    <3> QED BY <3>3, <3>4 DEF paid
  <2> QED BY <2>3, <2>4
<1>4. \A x : Accounted(x)' = Accounted(x)
  BY <1>1 DEF Accounted
<1> QED BY <1>1, <1>2, <1>3, <1>4 DEF PlanInv

LEMMA SenseKeepsPlanInv == PlanInv /\ Sense => PlanInv'
<1> SUFFICES ASSUME PlanInv, Sense PROVE PlanInv'
  OBVIOUS
<1>1. phase = "act" /\ phase' = "plan" /\ nextQuery' = nextQuery /\ restores' = restores
      /\ service' = [x \in Services |-> Emptied(service[x])] /\ excused \subseteq excused'
  BY DEF Sense
<1>2. MapOK(map)
  BY DEF PlanInv
<1>3. map' = map \/ \E k \in Row, t \in Nat : map' = Changed(map, k, t)
  BY TwinsAssumption DEF Sense, Changed, Row
<1>4. MapOK(map')
  <2>1. CASE map' = map
    BY <1>2, <2>1
  <2>2. CASE \E k \in Row, t \in Nat : map' = Changed(map, k, t)
    BY <1>2, <2>2, ChangedFacts
  <2> QED BY <1>3, <2>1, <2>2
<1>5. ASSUME NEW x \in Services PROVE PlannedOK(service'[x], map', Accounted(x)) /\ Quiet(service'[x])
  <2> DEFINE paid == Accounted(x)
             s == service[x]
  <2>1. paid \in BOOLEAN
    BY AccountedType
  <2> HIDE DEF paid
  <2>2. PlannedOK(s, map, paid) /\ Examined(s)
    BY <1>1 DEF PlanInv, paid
  <2>3. service'[x] = Emptied(s)
    BY <1>1
  <2> HIDE DEF s
  <2>4. PlannedOK(Emptied(s), map', paid) /\ Quiet(Emptied(s))
    BY <1>2, <1>3, <2>1, <2>2, EmptiedFits
  <2> QED BY <2>3, <2>4 DEF paid
<1>6. ASSUME NEW x \in Services PROVE PlannedOK(service'[x], map', Accounted(x)')
  BY <1>1, <1>5, AccountedLess, PlannedLess
<1>7. DOMAIN service' = Services /\ nextQuery \in Nat \ {0} /\ restores \in Nat
  BY <1>1 DEF PlanInv
<1> QED BY <1>1, <1>4, <1>5, <1>6, <1>7 DEF PlanInv

LEMMA RestoreKeepsPlanInv == PlanInv /\ Restore => PlanInv'
<1> SUFFICES ASSUME PlanInv, Restore PROVE PlanInv'
  OBVIOUS
<1> DEFINE svc == service["restored"]
<1>1. /\ phase = "plan" /\ phase' = phase /\ map' = map /\ nextQuery' = nextQuery /\ restores' = restores + 1
      /\ thrown' = ~Restorable(svc, map) /\ service' = IF thrown' THEN service ELSE [service EXCEPT !["restored"] = Restored(svc, map)]
      /\ excused' = IF \E a \in Agents : Disturbed(svc.queries[a]) THEN excused \cup {"replay"} ELSE excused
  BY DEF Restore
<1>2. /\ MapOK(map) /\ nextQuery \in Nat \ {0} /\ restores + 1 \in Nat /\ DOMAIN service = Services /\ DOMAIN service' = Services
  BY <1>1 DEF PlanInv
<1>3. \A x \in Services : PlannedOK(service[x], map, Accounted(x)) /\ Quiet(service[x])
  BY <1>1 DEF PlanInv
<1>4. excused \subseteq excused'
  BY <1>1
<1>5. ASSUME NEW x \in Services, service'[x] = service[x] PROVE PlannedOK(service'[x], map', Accounted(x)') /\ Quiet(service'[x])
  BY <1>1, <1>3, <1>4, <1>5, AccountedLess, PlannedLess
<1>6. ASSUME Restorable(svc, map)
      PROVE  PlannedOK(Restored(svc, map), map, Accounted("restored")') /\ Quiet(Restored(svc, map))
  <2> DEFINE more == Accounted("restored")'
  <2>1. more \in BOOLEAN
    BY DEF Accounted
  <2>2. ASSUME more
        PROVE  /\ Accounted("restored")
               /\ \A a \in Agents : Active(svc.queries[a]) => ~IsStrategy(svc.queries[a].req) \/ ~Stale(svc.queries[a], map)
    <3>1. "replay" \notin excused'
      BY <2>2 DEF Accounted
    <3>2. \A a \in Agents : ~Disturbed(svc.queries[a])
      BY <1>1, <3>1
    <3>3. \A q : Active(q) /\ IsStrategy(q.req) /\ Stale(q, map) => Disturbed(q)
      BY DEF Disturbed, Stale, ReadByQuery
    <3> QED BY <1>1, <3>1, <3>2, <3>3 DEF Accounted
  <2>3. PlannedOK(svc, map, Accounted("restored"))
    BY <1>3 DEF Services
  <2> HIDE DEF more, svc
  <2> QED BY <1>2, <1>6, <2>1, <2>2, <2>3, RestoredFits DEF more
<1>7. ASSUME NEW x \in Services PROVE PlannedOK(service'[x], map', Accounted(x)') /\ Quiet(service'[x])
  <2>1. CASE service'[x] = service[x]
    BY <1>5, <2>1
  <2>2. CASE service'[x] # service[x]
    <3>1. x = "restored" /\ Restorable(svc, map) /\ service'[x] = Restored(svc, map)
      BY <1>1, <1>2, <2>2
    <3> HIDE DEF svc
    <3> QED BY <1>1, <1>6, <3>1
  <2> QED BY <2>1, <2>2
<1> QED BY <1>1, <1>2, <1>7 DEF PlanInv

\* In every run the services keep `PlanInv`: a query that has missed no change has completed the
\* searches a cold run on the map as it is would have (tick), one that has is going to be restarted
\* (changeSinceLastSlice), and a cached result under the view's version is the one a search would have.
THEOREM PlanningAlways == Spec => []PlanInv
<1>1. ASSUME PlanInv, [Next]_vars PROVE PlanInv'
  <2>1. CASE Plan
    BY <1>1, <2>1, PlanKeepsPlanInv
  <2>2. CASE Sense
    BY <1>1, <2>2, SenseKeepsPlanInv
  <2>3. CASE Restore
    BY <1>1, <2>3, RestoreKeepsPlanInv
  <2>4. CASE \E a \in Agents : Cancel(a) \/ \E req \in Requests[a] : Submit(a, req)
    BY <1>1, <2>4, ActKeepsPlanInv
  <2>5. CASE UNCHANGED vars
    BY <1>1, <2>5 DEF vars, PlanInv, Accounted
  <2> QED BY <1>1, <2>1, <2>2, <2>3, <2>4, <2>5 DEF Next
<1> QED BY <1>1, PlanInit, PTL DEF Spec

(***************************************************************************)
(* What the runs check                                                     *)
(***************************************************************************)
LEMMA ColdCosts ==
  ASSUME NEW c \in Seq(EndState) PROVE Costs(c) \in Nat
<1> DEFINE s == [i \in DOMAIN c |-> c[i].expansions]
<1>1. Len(c) \in Nat /\ DOMAIN c = 1..Len(c) /\ \A i \in 1..Len(c) : c[i] \in EndState
  OBVIOUS
<1>2. \A i \in 1..Len(c) : c[i].expansions \in Nat
  BY <1>1 DEF EndState
<1>3. s \in [1..Len(c) -> Nat]
  BY <1>1, <1>2
<1> HIDE DEF s
<1>4. SumOf(s) \in Nat
  BY <1>1, <1>3, SumType
<1> QED BY <1>4 DEF Costs, s

\* One step of a cold run.
ColdStep(req, left, m, c) ==
  IF NextSearch(req, c) = NoSpec THEN c ELSE Append(c, ColdEnd(req, left, c, m))
ColdSteps(H, n, req, left, m) ==
  /\ H[0] = <<>> /\ \A i \in 1..n : H[i] = ColdStep(req, left, m, H[i - 1])
  /\ \A i \in 0..n : H[i] \in Seq(EndState)

LEMMA ColdStepFits ==
  ASSUME NEW req \in RequestState, NEW left \in Int, NEW m \in Content, NEW c \in Seq(EndState)
  PROVE  ColdStep(req, left, m, c) \in Seq(EndState)
<1>1. CASE NextSearch(req, c) = NoSpec
  BY <1>1 DEF ColdStep
<1>2. CASE NextSearch(req, c) # NoSpec
  <2> DEFINE cap == CapOf(req, left, c)
             e == ColdEnd(req, left, c, m)
  <2>1. NextSearch(req, c).spec \in SpecState /\ NextSearch(req, c).budget \in Nat
    BY <1>2, NextFacts
  <2>2. Costs(c) \in Nat
    BY ColdCosts
  <2>3. cap \in Int
    BY <2>1, <2>2 DEF CapOf, Least
  <2>4. e \in EndState
    <3>1. CASE cap <= 0
      <4>1. Synthesized \in EndState
        BY DEF Synthesized, EndState, Statuses
      <4> QED BY <3>1, <4>1 DEF ColdEnd
    <3>2. CASE ~(cap <= 0)
      <4>1. cap \in Nat
        BY <2>3, <3>2
      <4> QED BY <2>1, <3>2, <4>1, RunType DEF ColdEnd
    <3> QED BY <3>1, <3>2
  <2> HIDE DEF e, cap
  <2> QED BY <1>2, <2>4 DEF ColdStep, e
<1> QED BY <1>1, <1>2

LEMMA ColdRunSteps ==
  ASSUME NEW req \in RequestState, NEW left \in Int, map \in MapState
  PROVE  \E H : ColdSteps(H, MaxSearches, req, left, map.content) /\ ColdRun(req, left) = H[MaxSearches]
<1> DEFINE n == MaxSearches
           m == map.content
           s == [i \in 1..n |-> i]
           V == Seq(EndState)
           F == [i \in 1..n |-> [c \in V |-> ColdStep(req, left, m, c)]]
           Rec(it) == it = [t \in SUBSET DOMAIN s |->
                              IF t = {} THEN <<>> ELSE ColdStep(req, left, m, it[t \ {Max(t)}])]
           g == CHOOSE it : Rec(it)
<1>0. <<>> \in V /\ m \in Content
  BY DEF MapState
<1>1. n \in Nat /\ DOMAIN s = 1..n
  BY PlanningAssumption DEF MaxSearches, Max2
<1>2. F \in [1..n -> [V -> V]] /\ \A i \in 1..n, c \in V : F[i][c] = ColdStep(req, left, m, c)
  <2>1. ASSUME NEW c \in V PROVE ColdStep(req, left, m, c) \in V
    BY <1>0, ColdStepFits
  <2> HIDE DEF V
  <2> QED BY <2>1
<1>3. ColdRun(req, left) = FoldValue(g, n)
  BY <1>1 DEF FoldValue, ColdRun, FoldLeft, MapThenFoldSet, ColdStep, ColdEnd, CapOf, Costs
<1> HIDE DEF F, n, V, m, s
<1>4. ASSUME NEW t \in SUBSET (1..n), t # {}
      PROVE  Max(t) \in 1..n /\ t \ {Max(t)} \in SUBSET (1..n)
  BY <1>1, <1>4, GreatestIndex
<1>5. PICK it \in [SUBSET (1..n) -> V] : SolvesFold(it, n, V, <<>>, F)
  BY <1>0, <1>1, <1>2, FoldExists
<1>6. Rec(it)
  <2>1. ASSUME NEW t \in SUBSET (1..n), t # {} PROVE it[t] = ColdStep(req, left, m, it[t \ {Max(t)}])
    <3>1. Max(t) \in 1..n /\ t \ {Max(t)} \in SUBSET (1..n)
      BY <1>4, <2>1
    <3>2. PICK x \in V : x = it[t \ {Max(t)}]
      BY <3>1
    <3>3. it[t] = F[Max(t)][x]
      BY <1>5, <2>1, <3>2 DEF SolvesFold
    <3> QED BY <1>2, <3>1, <3>2, <3>3
  <2>2. it[{}] = <<>>
    BY <1>5 DEF SolvesFold
  <2> QED BY <1>1, <2>1, <2>2
<1>7. Rec(g)
  BY <1>6
<1>8. SolvesFold(g, n, V, <<>>, F)
  <2> HIDE DEF g
  <2>1. ASSUME NEW t \in SUBSET (1..n), t # {}, g[t \ {Max(t)}] \in V
        PROVE  g[t] = F[Max(t)][g[t \ {Max(t)}]]
    <3>1. Max(t) \in 1..n
      BY <1>4, <2>1
    <3>2. g[t] = ColdStep(req, left, m, g[t \ {Max(t)}])
      BY <1>1, <1>7, <2>1
    <3> HIDE DEF Rec
    <3> QED BY <1>2, <2>1, <3>1, <3>2
  <2>2. g[{}] = <<>>
    BY <1>1, <1>7
  <2> QED BY <2>1, <2>2 DEF SolvesFold
<1> HIDE DEF g
<1>9. PICK H : StepsOf(H, n, V, <<>>, F) /\ H[n] = FoldValue(g, n)
  BY <1>0, <1>1, <1>2, <1>8, FoldSteps
<1>10. ColdSteps(H, n, req, left, m)
  BY <1>1, <1>2, <1>9 DEF ColdSteps, StepsOf, V
<1> QED BY <1>3, <1>9, <1>10 DEF n, m

\* Completed searches that end as a cold run's do are the cold run.
LEMMA ColdRunIs ==
  ASSUME map \in MapState, NEW req \in RequestState, NEW left \in Int, NEW d \in Seq(DoneState), d # <<>>,
         NextSearch(req, d) = NoSpec, ColdDone(req, left, d, map.content)
  PROVE  Last(ColdRun(req, left)).status = Last(d).status /\ Costs(ColdRun(req, left)) = Costs(d)
<1> DEFINE n == MaxSearches
           m == map.content
           k == Len(d)
           Fits(i, c) == /\ Len(c) <= k /\ (Len(c) = i \/ Len(c) = k)
                         /\ \A j \in 1..Len(c) : SameEnd(d[j], c[j])
<1>0. n \in Nat /\ k \in Nat /\ k >= 1
  BY PlanningAssumption DEF MaxSearches, Max2
<1>1. k <= n
  <2>1. k - 1 \in 0..k /\ k \in 1..k
    BY <1>0
  <2>2. SubSeq(d, 1, k - 1) \in Seq(DoneState) /\ Len(SubSeq(d, 1, k - 1)) = k - 1
    BY <2>1, BeginningFacts
  <2>3. NextSearch(req, SubSeq(d, 1, k - 1)) # NoSpec
    BY <2>1 DEF ColdDone
  <2>4. k - 1 < n
    BY <2>2, <2>3, NextFacts
  <2> QED BY <1>0, <2>4
<1>2. PICK H : ColdSteps(H, n, req, left, m) /\ ColdRun(req, left) = H[n]
  BY ColdRunSteps
<1> HIDE DEF n
<1>3. \A i \in 0..n : Fits(i, H[i])
  <2> DEFINE T == {i \in 0..n : Fits(i, H[i])}
  <2>1. 0 \in T
    <3>1. H[0] = <<>>
      BY <1>2 DEF ColdSteps
    <3> QED BY <1>0, <3>1
  <2>2. ASSUME NEW i \in 0..n, i \in T, i < n PROVE i + 1 \in T
    <3>1. i \in Nat /\ i + 1 \in 1..n /\ i + 1 \in 0..n /\ (i + 1) - 1 = i
      BY <1>0, <2>2
    <3> DEFINE c == H[i]
               e == ColdEnd(req, left, c, m)
    <3>2. c \in Seq(EndState) /\ H[i + 1] = ColdStep(req, left, m, c) /\ H[i + 1] \in Seq(EndState)
      BY <1>2, <3>1 DEF ColdSteps
    <3>3. Fits(i, c)
      BY <2>2
    <3> HIDE DEF c, m
    <3>4. Len(c) \in Nat /\ Len(c) <= k /\ (Len(c) = i \/ Len(c) = k) /\ \A j \in 1..Len(c) : SameEnd(d[j], c[j])
      BY <3>2, <3>3
    <3>5. CASE Len(c) = k
      <4>1. c[Len(c)].status = d[Len(d)].status
        BY <1>0, <3>4, <3>5 DEF SameEnd
      <4>2. NextSearch(req, c) = NextSearch(req, d)
        BY <3>2, <3>5, <4>1, NextAgrees
      <4>3. H[i + 1] = c
        BY <3>2, <4>2 DEF ColdStep
      <4>4. Fits(i + 1, c)
        BY <3>4, <3>5
      <4> HIDE DEF Fits
      <4> QED BY <3>1, <4>3, <4>4
    <3>6. CASE Len(c) # k
      <4> DEFINE v == SubSeq(d, 1, i)
      <4>1. Len(c) = i /\ i < k /\ i \in 0..k /\ i + 1 \in 1..k
        BY <1>0, <3>1, <3>4, <3>6
      <4>2. v \in Seq(DoneState) /\ Len(v) = i /\ DOMAIN v = 1..i /\ \A j \in 1..i : v[j] = d[j]
        BY <4>1, BeginningFacts
      <4>3. NextSearch(req, v) # NoSpec /\ SameEnd(d[i + 1], ColdEnd(req, left, v, m))
        BY <3>1, <4>1 DEF ColdDone, m
      <4> HIDE DEF v
      <4>4. \A j \in 1..i : c[j].expansions = v[j].expansions /\ c[j].status = v[j].status
        BY <3>4, <4>1, <4>2 DEF SameEnd
      <4>5. NextSearch(req, c) = NextSearch(req, v)
        <5>1. Len(c) > 0 => c[Len(c)].status = v[Len(v)].status
          BY <3>1, <4>1, <4>2, <4>4
        <5> QED BY <3>2, <4>1, <4>2, <5>1, NextAgrees
      <4>6. Costs(c) = Costs(v)
        <5>1. DOMAIN c = DOMAIN v
          BY <3>2, <4>1, <4>2
        <5> QED BY <4>2, <4>4, <5>1, CostsAgree
      <4>7. e = ColdEnd(req, left, v, m)
        BY <4>5, <4>6 DEF ColdEnd, CapOf
      <4> HIDE DEF e
      <4>8. H[i + 1] = Append(c, e)
        BY <3>2, <4>3, <4>5 DEF ColdStep, e
      <4>9. Len(H[i + 1]) = i + 1 /\ H[i + 1][i + 1] = e /\ \A j \in 1..i : H[i + 1][j] = c[j]
        BY <3>2, <4>1, <4>8
      <4>10. \A j \in 1..(i + 1) : SameEnd(d[j], H[i + 1][j])
        <5>1. \A j \in 1..(i + 1) : j \in 1..i \/ j = i + 1
          BY <3>1
        <5> QED BY <3>4, <4>1, <4>3, <4>7, <4>9, <5>1
      <4>11. Fits(i + 1, H[i + 1])
        BY <1>0, <4>1, <4>9, <4>10
      <4> HIDE DEF Fits
      <4> QED BY <3>1, <4>11
    <3> QED BY <3>5, <3>6
  <2> HIDE DEF T
  <2>3. 0..n \subseteq T
    BY <1>0, <2>1, <2>2, AllIndices
  <2> QED BY <2>3 DEF T
<1> DEFINE c == H[n]
<1>4. c \in Seq(EndState) /\ Fits(n, c)
  BY <1>0, <1>2, <1>3 DEF ColdSteps
<1> HIDE DEF c
<1>5. Len(c) = k /\ \A j \in 1..k : SameEnd(d[j], c[j])
  BY <1>0, <1>1, <1>4
<1>6. Last(c).status = Last(d).status
  BY <1>0, <1>5 DEF Last, SameEnd
<1>7. Costs(c) = Costs(d)
  <2>1. DOMAIN c = DOMAIN d /\ DOMAIN c = 1..k
    BY <1>4, <1>5
  <2> QED BY <1>5, <2>1, CostsAgree DEF SameEnd
<1> QED BY <1>2, <1>6, <1>7 DEF c

LEMMA InvCurrent == PlanInv => AnswersAreCurrent
<1> SUFFICES ASSUME PlanInv PROVE AnswersAreCurrent
  OBVIOUS
<1>1. map \in MapState
  BY DEF PlanInv, MapOK
<1>2. OutcomesAreCurrent
  <2> SUFFICES ASSUME NEW x \in Services, NEW i \in DOMAIN service[x].out
               PROVE  LET o == service[x].out[i]
                          cold == ColdRun(o.req, o.req.total - o.spent)
                      IN  \/ o.status = "budget_exceeded" /\ o.charge = o.spent /\ o.spent >= o.req.total
                          \/ o.status = Last(cold).status /\ o.charge = o.spent + SumOf([j \in DOMAIN cold |-> cold[j].expansions])
    BY DEF OutcomesAreCurrent, Answers
  <2> DEFINE o == service[x].out[i]
             left == o.req.total - o.spent
             cold == ColdRun(o.req, left)
  <2>1. service[x] \in ServiceState /\ OutsOK(service[x].out, map.content, Accounted(x))
    BY DEF PlanInv, PlannedOK, ServiceOK
  <2>2. OutcomeOK(o, map.content)
    BY <2>1 DEF OutsOK
  <2>3. o \in OutcomeState
    <3>1. service[x].out \in Seq(OutcomeState)
      BY <2>1 DEF ServiceState
    <3> QED BY <3>1
  <2> HIDE DEF o
  <2>4. o.req \in RequestState /\ o.spent \in Nat
    BY <2>3 DEF OutcomeState
  <2>5. left \in Int
    BY <2>4, RequestFacts
  <2>6. CASE o.status = "budget_exceeded" /\ o.charge = o.spent /\ o.spent >= o.req.total
    BY <2>6 DEF o
  <2>7. CASE \E d \in Seq(DoneState) :
               /\ d # <<>> /\ NextSearch(o.req, d) = NoSpec /\ ColdDone(o.req, left, d, map.content)
               /\ o.status = Last(d).status /\ o.charge = o.spent + Costs(d)
    <3>1. PICK d \in Seq(DoneState) :
               /\ d # <<>> /\ NextSearch(o.req, d) = NoSpec /\ ColdDone(o.req, left, d, map.content)
               /\ o.status = Last(d).status /\ o.charge = o.spent + Costs(d)
      BY <2>7
    <3> HIDE DEF left
    <3>2. Last(cold).status = Last(d).status /\ Costs(cold) = Costs(d)
      BY <1>1, <2>4, <2>5, <3>1, ColdRunIs
    <3>3. o.status = Last(cold).status /\ o.charge = o.spent + Costs(cold)
      BY <3>1, <3>2
    <3> QED BY <3>3 DEF Costs, cold, left, o
  <2> QED BY <2>2, <2>6, <2>7 DEF OutcomeOK, left
<1>3. LegsAreCurrent
  BY DEF LegsAreCurrent, PlanInv, PlannedOK, HandedOK, LegOK
<1> QED BY <1>2, <1>3 DEF AnswersAreCurrent

LEMMA OneTickLess == \A p, n \in Nat : p * (n - 1) <= p * n
OBVIOUS

LEMMA InvBudget == PlanInv => BudgetHolds
<1> SUFFICES ASSUME PlanInv PROVE BudgetHolds
  OBVIOUS
<1>1. ASSUME NEW x \in Services, Accounted(x), NEW a \in Agents, Active(service[x].queries[a])
      PROVE  LET q == service[x].queries[a] IN
             /\ q.work <= Least(q.req.total, PerTick[a] * q.age) /\ q.spent + Charged(q) = q.work
             /\ PerTick[a] * (q.age - 1) <= q.req.total
  <2> DEFINE q == service[x].queries[a]
  <2>1. QueryOK(q, map) /\ BudgetOK(q, a)
    BY <1>1 DEF PlanInv, PlannedOK, ServiceOK, AgentOK
  <2> HIDE DEF q
  <2>2. q \in QueryState
    BY <2>1 DEF QueryOK
  <2>3. q.work \in Int /\ q.age \in Nat /\ q.req.total \in Nat /\ PerTick[a] \in Nat
    BY <2>2, QueryFacts, PlanningAssumption
  <2>4. PerTick[a] * q.age \in Nat /\ PerTick[a] * (q.age - 1) \in Int
    BY <2>3
  <2>5. q.spent + Charged(q) = q.work /\ q.work <= q.req.total /\ q.work = PerTick[a] * q.age
    <3>1. q.work + 0 = PerTick[a] * q.age
      BY <2>1 DEF BudgetOK, PaidBut
    <3> QED BY <2>1, <2>3, <3>1 DEF BudgetOK, PaidBut
  <2>6. PerTick[a] * (q.age - 1) <= q.work
    BY <2>3, <2>5, OneTickLess
  <2>7. PerTick[a] * (q.age - 1) <= q.req.total
    BY <2>3, <2>4, <2>5, <2>6
  <2>8. q.work <= Least(q.req.total, PerTick[a] * q.age)
    BY <2>3, <2>5 DEF Least
  <2> QED BY <2>5, <2>7, <2>8 DEF q
<1>2. ASSUME NEW x \in Services, Accounted(x), NEW o \in Answers(x) PROVE OutcomePaid(o)
  BY <1>2 DEF PlanInv, PlannedOK, ServiceOK, OutsOK, Answers
<1>3. WithinBudget
  BY <1>1, <1>2 DEF WithinBudget, OutcomePaid
<1>4. QueryEndsInTime
  BY <1>1 DEF QueryEndsInTime
<1> QED BY <1>3, <1>4 DEF BudgetHolds

\* Whatever is restarted, continued, cached or restored, the searches of a query spend no more than
\* its total and its agent's ticks allow, it is charged what they spent, and it ends in time (tick,
\* stepStrategy), for every map, budget, cache and number of agents.
THEOREM PlanningKeepsBudgets == Spec => []BudgetHolds
BY PlanningAlways, InvBudget, PTL

\* Every path and leg that is handed over holds on the map of that tick, and every outcome is what a
\* cold run on it finds and costs (tick, finishStage, takeLegs), however the map has changed meanwhile.
THEOREM PlanningAnswersAreCurrent == Spec => []AnswersAreCurrent
BY PlanningAlways, InvCurrent, PTL

(***************************************************************************)
(* The services, next to one another                                       *)
(***************************************************************************)
\* Two queries that have done the same work, whatever they have read and
\* wherever their results are from.
SameTrace(c, d) ==
  Len(c) = Len(d) /\ \A i \in 1..Len(c) : /\ c[i].status = d[i].status /\ c[i].expansions = d[i].expansions
                                          /\ c[i].ended = d[i].ended
SameWork(p, q) ==
  /\ p.id = q.id /\ p.req = q.req /\ p.age = q.age /\ p.restarts = q.restarts /\ p.continuations = q.continuations
  /\ p.spent = q.spent /\ p.work = q.work /\ SameTrace(p.done, q.done)
  /\ (p.search = NoSearch <=> q.search = NoSearch) /\ p.search.charged = q.search.charged

\* ... and that go by the same graph, and by the same changes.
SameGraph(p, q, view) == p.seenGraph = view.version <=> q.seenGraph = view.version
Counts(q, view) == ~Stale(q, view) /\ ChangedFor(q, view) # {} /\ ReadByQuery(q) # {}
SameQuery(p, q, view) ==
  /\ SameWork(p, q) /\ SameGraph(p, q, view) /\ ChangedFor(p, view) = ChangedFor(q, view)
  /\ (Stale(p, view) <=> Stale(q, view)) /\ (Counts(p, view) <=> Counts(q, view))

SameAgent(s, u, a, view) ==
  /\ s.legs[a] = u.legs[a] /\ (Active(s.queries[a]) <=> Active(u.queries[a]))
  /\ Active(s.queries[a]) => SameQuery(s.queries[a], u.queries[a], view)
SameService(s, u, view) ==
  /\ s.out = u.out /\ s.handed = u.handed
  /\ \A a \in Agents : SameAgent(s, u, a, view)

\* What a query has examined, and that its legs end with it.
TidyQuery(q, view) ==
  /\ MustRestart(q, view) => Stale(q, view)
  /\ ~IsStrategy(q.req) => q.done = <<>>
Tidy(s, view) ==
  \A a \in Agents : LET q == s.queries[a] IN
    (Active(q) => TidyQuery(q, view)) /\ (~Active(q) => s.legs[a] = NoLegs)
UpToDate(s, view) == \A a \in Agents : LET q == s.queries[a] IN Active(q) => q.seen = view.version

TwinInv ==
  /\ \A x \in Services : Tidy(service[x], map) /\ (phase = "act" => UpToDate(service[x], map))
  /\ excused \cap {"ahead", "coarse"} = {} => SameService(service["cached"], service["cold"], map)
  /\ excused = {} => ~thrown /\ SameService(service["restored"], service["cached"], map)

\* What such queries have in common.
LEMMA SameWorkFacts ==
  ASSUME NEW p \in QueryState, NEW q \in QueryState, SameWork(p, q)
  PROVE  /\ Len(p.done) = Len(q.done) /\ Costs(p.done) = Costs(q.done) /\ Left(p) = Left(q) /\ Charged(p) = Charged(q)
         /\ CompletedCharge(p) = CompletedCharge(q)
         /\ NextSearch(p.req, p.done) = NextSearch(q.req, q.done) /\ Begun(p) = Begun(q)
         /\ CapOf(p.req, Left(p), p.done) = CapOf(q.req, Left(q), q.done)
         /\ \A m : ColdEnd(p.req, Left(p), p.done, m) = ColdEnd(q.req, Left(q), q.done, m)
         /\ UsedOK(p) /\ UsedOK(q) => p.usedHpa = q.usedHpa
         /\ p.done = <<>> <=> q.done = <<>>
<1>1. /\ p.done \in Seq(DoneState) /\ q.done \in Seq(DoneState) /\ Len(p.done) \in Nat
      /\ Charged(p) = Costs(p.done) + p.search.charged /\ Charged(q) = Costs(q.done) + q.search.charged
      /\ CompletedCharge(p) = Costs(p.done) /\ CompletedCharge(q) = Costs(q.done)
      /\ p.usedHpa \in BOOLEAN /\ q.usedHpa \in BOOLEAN
  BY QueryFacts
<1>2. /\ Len(p.done) = Len(q.done) /\ p.req = q.req /\ p.spent = q.spent /\ p.search.charged = q.search.charged
      /\ (p.search = NoSearch <=> q.search = NoSearch)
      /\ \A i \in 1..Len(p.done) : p.done[i].status = q.done[i].status /\ p.done[i].expansions = q.done[i].expansions
  BY DEF SameWork, SameTrace
<1>3. Costs(p.done) = Costs(q.done)
  <2>1. DOMAIN p.done = 1..Len(p.done) /\ DOMAIN q.done = 1..Len(p.done)
    BY <1>1, <1>2
  <2> QED BY <1>2, <2>1, CostsAgree
<1>4. Left(p) = Left(q) /\ Begun(p) = Begun(q)
  BY <1>2 DEF Left, Begun
<1>5. NextSearch(p.req, p.done) = NextSearch(q.req, q.done)
  <2>1. Len(p.done) > 0 => p.done[Len(p.done)].status = q.done[Len(q.done)].status
    BY <1>1, <1>2
  <2>2. NextSearch(p.req, p.done) = NextSearch(p.req, q.done)
    BY <1>1, <1>2, <2>1, NextAgrees
  <2> QED BY <1>2, <2>2
<1>6. CapOf(p.req, Left(p), p.done) = CapOf(q.req, Left(q), q.done)
  BY <1>3, <1>4, <1>5 DEF CapOf
<1>7. \A m : ColdEnd(p.req, Left(p), p.done, m) = ColdEnd(q.req, Left(q), q.done, m)
  BY <1>5, <1>6 DEF ColdEnd
<1>8. UsedOK(p) /\ UsedOK(q) => p.usedHpa = q.usedHpa
  BY <1>1, <1>2, <1>4 DEF UsedOK
<1>9. p.done = <<>> <=> q.done = <<>>
  BY <1>1, <1>2
<1> QED BY <1>1, <1>2, <1>3, <1>4, <1>5, <1>6, <1>7, <1>8, <1>9

LEMMA SameWorkOrder ==
  /\ \A q : SameWork(q, q)
  /\ \A p, q : SameWork(p, q) => SameWork(q, p)
  /\ \A p, q, r : SameWork(p, q) /\ SameWork(q, r) => SameWork(p, r)
<1>1. \A p, q : SameTrace(p, q) => SameTrace(q, p)
  BY DEF SameTrace
<1>2. \A p, q, r : SameTrace(p, q) /\ SameTrace(q, r) => SameTrace(p, r)
  BY DEF SameTrace
<1>3. \A p : SameTrace(p, p)
  BY DEF SameTrace
<1> QED BY <1>1, <1>2, <1>3 DEF SameWork

LEMMA SameServiceOrder ==
  ASSUME NEW view
  PROVE  /\ \A s : SameService(s, s, view)
         /\ \A s, u, v : SameService(s, u, view) /\ SameService(u, v, view) => SameService(s, v, view)
<1>1. \A p, q, r : SameQuery(p, q, view) /\ SameQuery(q, r, view) => SameQuery(p, r, view)
  BY SameWorkOrder DEF SameQuery, SameGraph
<1>2. \A q : SameQuery(q, q, view)
  BY SameWorkOrder DEF SameQuery, SameGraph
<1>3. \A s, u, v, a : SameAgent(s, u, a, view) /\ SameAgent(u, v, a, view) => SameAgent(s, v, a, view)
  BY <1>1 DEF SameAgent
<1>4. \A s, a : SameAgent(s, s, a, view)
  BY <1>2 DEF SameAgent
<1> QED BY <1>3, <1>4 DEF SameService

\* A search that has begun alike.
LEMMA BeganAlike ==
  ASSUME NEW view \in MapState, NEW s, s.cache \in Seq(CacheState), CacheOK(s.cache, view),
         NEW u, u.cache \in Seq(CacheState), CacheOK(u.cache, view),
         NEW p, QueryNow(p, view), NEW q, QueryNow(q, view), SameWork(p, q)
  PROVE  SameWork(Began(s, p, view), Began(u, q, view))
<1> DEFINE b == Began(s, p, view)
           c == Began(u, q, view)
<1>1. /\ b.search # NoSearch /\ b.search.charged = p.search.charged /\ Unmoved(b, p) /\ b.done = p.done /\ b.work = p.work
      /\ c.search # NoSearch /\ c.search.charged = q.search.charged /\ Unmoved(c, q) /\ c.done = q.done /\ c.work = q.work
  BY BeganFits
<1> HIDE DEF b, c
<1>2. SameWork(b, c)
  BY <1>1 DEF SameWork, Unmoved
<1> QED BY <1>2 DEF b, c

\* Only the first search of a lazy refine is coarse.
LEMMA CoarseIsFirst ==
  ASSUME NEW req \in RequestState, NEW done \in Seq(DoneState), NextSearch(req, done) # NoSpec
  PROVE  NextSearch(req, done).spec.coarse => req.kind = "refine" /\ Len(done) = 0
<1>1. req.kind \in Kinds /\ Len(done) \in Nat
  BY RequestFacts
<1>2. \A from, to : ~Grid(from, to).coarse /\ ~Hpa(from, to).coarse
  BY DEF Grid, Hpa
<1>3. CASE req.kind = "grid"
  BY <1>1, <1>2, <1>3 DEF NextSearch, IsFallback, NoSpec
<1>4. CASE req.kind = "hpa"
  BY <1>1, <1>2, <1>4 DEF NextSearch, IsFallback, NoSpec
<1>5. CASE req.kind \in {"gridThenGrid", "gridThenHpa"}
  BY <1>1, <1>2, <1>5 DEF NextSearch, IsFallback, NoSpec
<1>6. CASE req.kind = "refine"
  BY <1>1, <1>2, <1>6 DEF NextSearch, IsFallback, NoSpec
<1> QED BY <1>1, <1>3, <1>4, <1>5, <1>6 DEF Kinds

\* A search ends as its twin does; that it is late is told apart for a coarse path only.
LEMMA EndsAlike ==
  ASSUME NEW view \in MapState, NEW p, QueryNow(p, view), p.search # NoSearch, NEW q, QueryNow(q, view), q.search # NoSearch,
         SameWork(p, q)
  PROVE  LET r == Result(p.search, view)
             e == Result(q.search, view) IN
         /\ SameEnd(r, e) /\ p.search.spec = q.search.spec /\ p.search.spec \in SpecState
         /\ r \in EndState /\ e \in EndState
         /\ r.late = e.late \/ (p.req.kind = "refine" /\ Len(p.done) = 0 /\ r.status = "found")
<1> DEFINE m == view.content
           r == Result(p.search, view)
           e == Result(q.search, view)
           cap == CapOf(p.req, Left(p), p.done)
           spec == p.search.spec
           cold == ColdEnd(p.req, Left(p), p.done, m)
<1>1. p \in QueryState /\ Current(p, m) /\ q \in QueryState /\ Current(q, m) /\ m \in Content
  BY DEF QueryNow, MapState
<1>2. cold = ColdEnd(q.req, Left(q), q.done, m) /\ cap = CapOf(q.req, Left(q), q.done)
      /\ NextSearch(p.req, p.done) = NextSearch(q.req, q.done)
  BY <1>1, SameWorkFacts
<1>3. /\ NextSearch(p.req, p.done) # NoSpec /\ r \in EndState /\ SameEnd(r, cold) /\ spec = NextSearch(p.req, p.done).spec
      /\ e \in EndState /\ SameEnd(e, cold) /\ q.search.spec = spec /\ spec \in SpecState
      /\ SearchFits(p, m) /\ SearchFits(q, m)
  BY <1>1, <1>2, SearchFacts
<1>4. SameEnd(r, e)
  BY <1>3 DEF SameEnd
<1>5. /\ p.search.hit = NoHit => r = cold /\ cap > 0
      /\ q.search.hit = NoHit => e = cold /\ cap > 0
  BY <1>1, <1>2, ResultFits
<1>6. /\ p.search.hit # NoHit => r.late = (cap > 0 /\ NeedsExtraIteration(spec, r.status))
      /\ q.search.hit # NoHit => e.late = (cap > 0 /\ NeedsExtraIteration(spec, e.status))
  BY <1>2, <1>3 DEF SearchFits, Result
<1>7. cap > 0 => cold.late = (cold.status # "found" \/ (spec.alg = "hpa" /\ ~spec.coarse))
  <2>1. p.req \in RequestState /\ Left(p) \in Int /\ p.done \in Seq(DoneState)
    BY <1>1, QueryFacts
  <2>2. cap > 0 => cold = Run(m, spec, cap)
    BY <1>1, <1>3, <2>1, ColdEndFacts
  <2> HIDE DEF cap, spec, m, cold
  <2>3. \A status, n, reads : /\ SearchEnd(spec, status, n, reads).status = status
                              /\ SearchEnd(spec, status, n, reads).late = (status # "found" \/ (spec.alg = "hpa" /\ ~spec.coarse))
    BY DEF SearchEnd
  <2> QED BY <2>2, <2>3 DEF Run
<1>8. spec.coarse => p.req.kind = "refine" /\ Len(p.done) = 0
  <2>1. p.req \in RequestState /\ p.done \in Seq(DoneState)
    BY <1>1, QueryFacts
  <2> QED BY <1>3, <2>1, CoarseIsFirst
<1>9. r.status = cold.status /\ e.status = cold.status /\ r.late \in BOOLEAN /\ e.late \in BOOLEAN
  BY <1>3 DEF SameEnd, EndState
<1> HIDE DEF r, e, cold, cap, spec
<1>10. r.late = e.late \/ (p.req.kind = "refine" /\ Len(p.done) = 0 /\ r.status = "found")
  <2>1. CASE ~(spec.coarse /\ r.status = "found")
    <3>1. CASE cap > 0
      <4>1. NeedsExtraIteration(spec, r.status) = (cold.status # "found" \/ (spec.alg = "hpa" /\ ~spec.coarse))
        BY <1>9, <2>1 DEF NeedsExtraIteration
      <4>2. r.late = (cold.status # "found" \/ (spec.alg = "hpa" /\ ~spec.coarse))
        BY <1>5, <1>6, <1>7, <1>9, <3>1, <4>1
      <4>3. e.late = (cold.status # "found" \/ (spec.alg = "hpa" /\ ~spec.coarse))
        BY <1>5, <1>6, <1>7, <1>9, <3>1, <4>1
      <4> QED BY <4>2, <4>3
    <3>2. CASE ~(cap > 0)
      BY <1>5, <1>6, <1>9, <3>2
    <3> QED BY <3>1, <3>2
  <2>2. CASE spec.coarse /\ r.status = "found"
    BY <1>8, <2>2
  <2> QED BY <2>1, <2>2
<1> QED BY <1>3, <1>4, <1>10 DEF r, e, spec

\* A turn, in its three outcomes: the search goes on, the query ends with it, or the next search follows.
Used(t, q, r) == Least(t.left, r.expansions - q.search.charged)
Pauses(t, q, r) ==
  \/ q.search.charged + Used(t, q, r) < r.expansions
  \/ r.late /\ Used(t, q, r) >= t.left
Closed(k, status) == IF k = NoLegs THEN k ELSE [k EXCEPT !.done = TRUE, !.status = status]

LEMMA CompletedIs ==
  ASSUME NEW a \in Agents, NEW svc \in ServiceState, NEW q, NEW status, NEW charge
  PROVE  LET c == Completed(svc, a, q, status, charge) IN
         /\ c.out = Append(svc.out, Outcome(q, a, status, charge)) /\ c.queries[a] = NoQuery
         /\ c.legs[a] = Closed(svc.legs[a], status)
<1> DEFINE o == Outcome(q, a, status, charge)
           c == Completed(svc, a, q, status, charge)
           k == Closed(svc.legs[a], status)
<1>1. /\ svc.queries \in [Agents -> QueryState \cup {NoQuery}] /\ svc.legs \in [Agents -> LegState \cup {NoLegs}]
  BY DEF ServiceState
<1>2. c = [svc EXCEPT !.queries = [svc.queries EXCEPT ![a] = NoQuery], !.legs = [svc.legs EXCEPT ![a] = k],
                      !.out = Append(svc.out, o)]
  <2>1. c = [svc EXCEPT !.queries[a] = NoQuery, !.legs[a] = k, !.out = Append(svc.out, o)]
    <3> HIDE DEF o
    <3> QED BY <1>1 DEF Completed, Closed, ServiceState, o
  <2> HIDE DEF o, k, c
  <2> QED BY <1>1, <2>1 DEF ServiceState
<1> HIDE DEF k, o, c
<1>3. /\ c.queries = [svc.queries EXCEPT ![a] = NoQuery] /\ c.legs = [svc.legs EXCEPT ![a] = k] /\ c.out = Append(svc.out, o)
      /\ c.handed = svc.handed
  BY <1>2 DEF ServiceState
<1> QED BY <1>1, <1>3 DEF c, k, o

LEMMA TurnOutcome ==
  ASSUME NEW a \in Agents, NEW view \in MapState, NEW t \in TurnState, CacheOK(t.svc.cache, view), t.left > 0,
         PendingOK(t.svc.legs[a], view.content), NEW q, QueryNow(q, view), q.search # NoSearch, LegsFor(t.svc.legs[a], q)
  PROVE  LET r == Result(q.search, view)
             used == Used(t, q, r)
             u == InSearch(t, a, view, q, r)
             after == HasEnded(q, r)
             k == WithLeg(t.svc.legs[a], q, r)
             charge == after.spent + CompletedCharge(after) IN
         /\ used \in Nat /\ used <= t.left /\ q.search.charged + used \in Nat /\ q.search.charged + used <= r.expansions
         /\ r.expansions \in Nat /\ q.search.charged <= q.search.charged + used /\ t.left - used \in Nat
         /\ Pauses(t, q, r) => /\ ~u.on /\ u.left = t.left /\ u.svc = t.svc /\ u.q = GoesOn(q, view, q.search.charged + used)
         /\ ~Pauses(t, q, r) => used = r.expansions - q.search.charged
         /\ ~Pauses(t, q, r) /\ NextSearch(after.req, after.done) = NoSpec =>
              /\ ~u.on /\ u.left = t.left /\ u.q = NoQuery /\ u.svc.legs[a] = Closed(k, r.status)
              /\ u.svc.out = Append(t.svc.out, Outcome(after, a, r.status, charge))
         /\ ~Pauses(t, q, r) /\ NextSearch(after.req, after.done) # NoSpec =>
              /\ (u.on <=> t.left - used > 0) /\ u.left = t.left - used /\ u.q = after /\ u.svc.legs[a] = k
              /\ u.svc.out = t.svc.out
<1> DEFINE m == view.content
           r == Result(q.search, view)
           used == Used(t, q, r)
           u == InSearch(t, a, view, q, r)
           svc == t.svc
           after == HasEnded(q, r)
           k == WithLeg(svc.legs[a], q, r)
           charge == after.spent + CompletedCharge(after)
           n == q.search.charged + used
           left == t.left - used
           stored == Stored(svc, q, view, r)
           next == [stored EXCEPT !.legs[a] = k]
<1>1. q \in QueryState /\ Current(q, m)
  BY DEF QueryNow
<1>2. r.expansions \in Nat /\ q.search.charged <= r.expansions /\ q.search.charged \in Nat
  BY <1>1, SearchFacts, QueryFacts
<1>3. t.left \in Int /\ svc \in ServiceState /\ t = [svc |-> svc, q |-> t.q, left |-> t.left, on |-> t.on]
  BY DEF TurnState
<1>4. /\ svc.legs \in [Agents -> LegState \cup {NoLegs}] /\ svc.legs[a] \in LegState \cup {NoLegs}
  BY <1>3 DEF ServiceState
<1>5. stored \in ServiceState /\ stored = [svc EXCEPT !.cache = stored.cache]
  BY <1>1, <1>3, StoredFits
<1>6. k \in LegState \cup {NoLegs}
  BY <1>4, WithLegFits
<1>7. u = IF Pauses(t, q, r) THEN [t EXCEPT !.q = GoesOn(q, view, n), !.on = FALSE]
          ELSE AfterSearch(t, a, [stored EXCEPT !.legs[a] = WithLeg(@, q, r)], after, r.status, left)
  <2>1. u = Spend(t, a, view, q, r, used)
    BY DEF InSearch, Used
  <2>2. Pauses(t, q, r) <=> (\/ q.search.charged + used < r.expansions
                             \/ r.late /\ used >= t.left)
    BY DEF Pauses
  <2> HIDE DEF u, r, used
  <2> QED BY <2>1, <2>2 DEF Spend
<1>8. [stored EXCEPT !.legs[a] = WithLeg(@, q, r)] = next /\ stored.legs = svc.legs /\ stored.out = svc.out
  <2> HIDE DEF r, stored
  <2>1. stored.legs = svc.legs /\ stored.out = svc.out
    <3> DEFINE c == stored.cache
    <3>1. stored = [svc EXCEPT !.cache = c]
      BY <1>5
    <3> HIDE DEF c
    <3> QED BY <1>3, <3>1 DEF ServiceState
  <2> QED BY <1>5, <2>1 DEF ServiceState
<1> HIDE DEF r, stored, k, after
<1>9. /\ used \in Nat /\ used <= t.left /\ n \in Nat /\ n <= r.expansions /\ q.search.charged <= n /\ left \in Nat
      /\ (~Pauses(t, q, r) => used = r.expansions - q.search.charged)
  BY <1>2, <1>3 DEF Used, Pauses, Least
<1> HIDE DEF used, n, left
<1>10. next \in ServiceState /\ next.legs[a] = k /\ next.out = svc.out
  <2>1. next = [stored EXCEPT !.legs = [stored.legs EXCEPT ![a] = k]]
    BY <1>5 DEF ServiceState
  <2>2. [svc.legs EXCEPT ![a] = k] \in [Agents -> LegState \cup {NoLegs}] /\ [svc.legs EXCEPT ![a] = k][a] = k
    BY <1>4, <1>6
  <2> HIDE DEF next
  <2>3. stored \in ServiceState /\ stored.out = svc.out
    BY <1>5, <1>8
  <2>4. next = [stored EXCEPT !.legs = [svc.legs EXCEPT ![a] = k]]
    BY <1>8, <2>1
  <2> QED BY <2>2, <2>3, <2>4 DEF ServiceState
<1> HIDE DEF next, u, charge
<1>11. ASSUME Pauses(t, q, r)
       PROVE  ~u.on /\ u.left = t.left /\ u.svc = svc /\ u.q = GoesOn(q, view, n)
  <2>1. u = [t EXCEPT !.q = GoesOn(q, view, n), !.on = FALSE]
    BY <1>7, <1>11
  <2> QED BY <1>3, <2>1
<1>12. ASSUME ~Pauses(t, q, r), NextSearch(after.req, after.done) = NoSpec
       PROVE  /\ ~u.on /\ u.left = t.left /\ u.q = NoQuery /\ u.svc.legs[a] = Closed(k, r.status)
              /\ u.svc.out = Append(svc.out, Outcome(after, a, r.status, charge))
  <2> DEFINE c == Completed(next, a, after, r.status, charge)
  <2>1. u = [t EXCEPT !.q = NoQuery, !.on = FALSE, !.svc = c]
    BY <1>7, <1>8, <1>12 DEF AfterSearch, charge
  <2>2. c.legs[a] = Closed(k, r.status) /\ c.out = Append(svc.out, Outcome(after, a, r.status, charge))
    <3>1. next \in ServiceState /\ a \in Agents
      BY <1>10
    <3>2. /\ Completed(next, a, after, r.status, charge).legs[a] = Closed(next.legs[a], r.status)
          /\ Completed(next, a, after, r.status, charge).out = Append(next.out, Outcome(after, a, r.status, charge))
      BY <3>1, CompletedIs
    <3> QED BY <1>10, <3>2
  <2> HIDE DEF c
  <2> QED BY <1>3, <2>1, <2>2
<1>13. ASSUME ~Pauses(t, q, r), NextSearch(after.req, after.done) # NoSpec
       PROVE  (u.on <=> left > 0) /\ u.left = left /\ u.q = after /\ u.svc.legs[a] = k /\ u.svc.out = svc.out
  <2>1. u = [svc |-> next, q |-> after, left |-> left, on |-> left > 0]
    BY <1>7, <1>8, <1>13 DEF AfterSearch
  <2> QED BY <1>10, <2>1
<1> QED BY <1>2, <1>9, <1>11, <1>12, <1>13 DEF r, used, u, after, k, charge, n, left

\* What a coarse search leaves that has found its path with the last expansion of a slice.
OnTheDot(q) == Active(q) /\ q.req.kind = "refine" /\ Len(q.done) = 1 /\ q.search = NoSearch

\* Two slices of an agent, turn by turn: they go along until one is on the dot.
Along(t, u, a, view) ==
  /\ t.on <=> u.on
  /\ t.left = u.left /\ t.svc.out = u.svc.out /\ t.svc.legs[a] = u.svc.legs[a]
  /\ Active(t.q) <=> Active(u.q)
  /\ Active(t.q) => SameWork(t.q, u.q) /\ SameGraph(t.q, u.q, view)
Parted(t, u) == ~t.on /\ ~u.on /\ (OnTheDot(t.q) \/ OnTheDot(u.q))

\* A slice looks at the view as it is, and the legs of a query end with it.
Attends(t, a, view) ==
  /\ Active(t.q) => t.q.seen = view.version
  /\ ~Active(t.q) => t.svc.legs[a] = NoLegs \/ t.svc.legs[a].done

\* What an action is told does not depend on what tells twins apart.
LEMMA OutcomesAlike ==
  ASSUME NEW p \in QueryState, NEW q \in QueryState, SameWork(p, q), NEW a, NEW status, NEW charge
  PROVE  Outcome(p, a, status, charge) = Outcome(q, a, status, charge)
<1> DEFINE trace(d) == [i \in DOMAIN d |-> [expansions |-> d[i].expansions, ended |-> d[i].ended]]
<1>1. /\ p.done \in Seq(DoneState) /\ q.done \in Seq(DoneState) /\ Len(p.done) = Len(q.done)
      /\ \A i \in 1..Len(p.done) : p.done[i].expansions = q.done[i].expansions /\ p.done[i].ended = q.done[i].ended
  BY QueryFacts DEF SameWork, SameTrace
<1>2. DOMAIN p.done = 1..Len(p.done) /\ DOMAIN q.done = 1..Len(p.done)
  BY <1>1
<1>3. trace(p.done) = trace(q.done)
  BY <1>1, <1>2
<1>4. /\ p.id = q.id /\ p.req = q.req /\ p.spent = q.spent /\ p.age = q.age /\ p.work = q.work
      /\ p.restarts = q.restarts /\ p.continuations = q.continuations
  BY DEF SameWork
<1> HIDE DEF trace
<1> QED BY <1>3, <1>4 DEF Outcome, trace

LEMMA LegsAlike ==
  ASSUME NEW p \in QueryState, NEW q \in QueryState, SameWork(p, q), p.search.spec = q.search.spec,
         NEW r, NEW e, r.status = e.status, NEW l
  PROVE  WithLeg(l, p, r) = WithLeg(l, q, e)
<1>1. p.req = q.req /\ (p.done = <<>> <=> q.done = <<>>) /\ Len(p.done) = Len(q.done)
  BY SameWorkFacts DEF SameWork
<1> QED BY <1>1 DEF WithLeg

\* The search of both goes on, and the search of both ends.
LEMMA GoOnAlike ==
  ASSUME NEW view \in MapState, NEW p, QueryNow(p, view), p.search # NoSearch, NEW q, QueryNow(q, view), q.search # NoSearch,
         SameWork(p, q), NEW n \in Nat, p.search.charged <= n, n <= Result(p.search, view).expansions
  PROVE  SameWork(GoesOn(p, view, n), GoesOn(q, view, n))
<1> DEFINE g == GoesOn(p, view, n)
           h == GoesOn(q, view, n)
<1>1. Result(q.search, view).expansions = Result(p.search, view).expansions /\ q.search.charged = p.search.charged
  BY EndsAlike DEF SameEnd, SameWork
<1>2. /\ Unmoved(g, p) /\ g.done = p.done /\ g.work = p.work + (n - p.search.charged) /\ g.search # NoSearch /\ g.search.charged = n
  BY GoesOnFits
<1>3. /\ Unmoved(h, q) /\ h.done = q.done /\ h.work = q.work + (n - q.search.charged) /\ h.search # NoSearch /\ h.search.charged = n
  BY <1>1, GoesOnFits
<1> HIDE DEF g, h
<1>4. SameWork(g, h)
  BY <1>1, <1>2, <1>3 DEF SameWork, Unmoved
<1> QED BY <1>4 DEF g, h

LEMMA EndAlike ==
  ASSUME NEW view \in MapState, NEW p, QueryNow(p, view), p.search # NoSearch, NEW q, QueryNow(q, view), q.search # NoSearch,
         SameWork(p, q)
  PROVE  SameWork(HasEnded(p, Result(p.search, view)), HasEnded(q, Result(q.search, view)))
<1> DEFINE r == Result(p.search, view)
           e == Result(q.search, view)
           g == HasEnded(p, r)
           h == HasEnded(q, e)
           x == WithEnd(r, p.age)
           y == WithEnd(e, q.age)
<1>1. r.expansions = e.expansions /\ r.status = e.status /\ r \in EndState /\ e \in EndState
  BY EndsAlike DEF SameEnd
<1>2. p \in QueryState /\ q \in QueryState
  BY DEF QueryNow
<1>3. /\ Unmoved(g, p) /\ g.done = Append(p.done, x) /\ g.work = p.work + (r.expansions - p.search.charged) /\ g.search = NoSearch
      /\ Unmoved(h, q) /\ h.done = Append(q.done, y) /\ h.work = q.work + (e.expansions - q.search.charged) /\ h.search = NoSearch
  BY HasEndedFits
<1> HIDE DEF r, e, g, h
<1>4. x \in DoneState /\ y \in DoneState /\ x.status = y.status /\ x.expansions = y.expansions /\ x.ended = y.ended
  BY <1>1, <1>2, QueryFacts DEF WithEnd, DoneState, EndState, SameWork
<1> HIDE DEF x, y
<1>5. SameTrace(g.done, h.done)
  <2>1. p.done \in Seq(DoneState) /\ q.done \in Seq(DoneState) /\ SameTrace(p.done, q.done) /\ Len(p.done) \in Nat
    BY <1>2, QueryFacts DEF SameWork
  <2>2. /\ Len(g.done) = Len(p.done) + 1 /\ g.done[Len(p.done) + 1] = x /\ \A i \in 1..Len(p.done) : g.done[i] = p.done[i]
    BY <1>3, <1>4, <2>1, AppendedOne
  <2>3. /\ Len(h.done) = Len(q.done) + 1 /\ h.done[Len(q.done) + 1] = y /\ \A i \in 1..Len(q.done) : h.done[i] = q.done[i]
    BY <1>3, <1>4, <2>1, AppendedOne
  <2>4. Len(p.done) = Len(q.done)
    BY <2>1 DEF SameTrace
  <2>5. \A i \in 1..Len(g.done) : i = Len(p.done) + 1 \/ i \in 1..Len(p.done)
    BY <2>1, <2>2
  <2> QED BY <1>4, <2>1, <2>2, <2>3, <2>4, <2>5 DEF SameTrace
<1>6. SameWork(g, h)
  BY <1>1, <1>3, <1>5 DEF SameWork, Unmoved
<1> QED BY <1>6 DEF g, h, r, e

\* A coarse path that is found with the last expansion of a slice.
LEMMA CoarseIsOnTheDot ==
  ASSUME NEW view \in MapState, NEW q, QueryNow(q, view), q.search # NoSearch, q.req.kind = "refine", Len(q.done) = 0,
         Result(q.search, view).status = "found"
  PROVE  LET after == HasEnded(q, Result(q.search, view)) IN
         OnTheDot(after) /\ NextSearch(after.req, after.done) # NoSpec
<1> DEFINE r == Result(q.search, view)
           after == HasEnded(q, r)
           done == after.done
<1>1. /\ after \in QueryState /\ after.search = NoSearch /\ Len(done) = 0 + 1 /\ Last(done).status = "found"
      /\ done # <<>> /\ after.req = q.req
  BY HasEndedFits
<1>2. after # NoQuery /\ q.req \in RequestState
  BY <1>1, QueryFacts DEF QueryNow
<1> HIDE DEF after
<1>3. Len(done) = 1 /\ ~Failed(done)
  BY <1>1 DEF Failed
<1>4. OnTheDot(after)
  BY <1>1, <1>2, <1>3 DEF OnTheDot, Active
<1>5. q.req.from < q.req.to /\ q.req.from \in Nat /\ q.req.to \in Nat
  BY <1>2, RequestFacts DEF RequestState
<1>6. 1 \in 1..(q.req.to - q.req.from)
  BY <1>5
<1> HIDE DEF done
<1>7. NextSearch(q.req, done).spec = Grid(q.req.from + 1 - 1, q.req.from + 1)
  BY <1>3, <1>6 DEF NextSearch, IsFallback
<1>8. NextSearch(q.req, done) # NoSpec
  BY <1>7 DEF NoSpec, Grid
<1> QED BY <1>1, <1>4, <1>8 DEF after, r, done

\* Two turns go along, or one of them is on the dot.
LEMMA TurnsAlike ==
  ASSUME NEW a \in Agents, NEW view \in MapState, NEW t, NEW u, NEW base, NEW other, NEW n, NEW k,
         TurnOK(t, a, view, base, FALSE, n), TurnOK(u, a, view, other, FALSE, k), t.on, u.on, Along(t, u, a, view)
  PROVE  Along(Turn(t, a, view), Turn(u, a, view), a, view) \/ Parted(Turn(t, a, view), Turn(u, a, view))
<1> DEFINE p == Began(t.svc, t.q, view)
           q == Began(u.svc, u.q, view)
           r == Result(p.search, view)
           e == Result(q.search, view)
           T == Turn(t, a, view)
           U == Turn(u, a, view)
           g == HasEnded(p, r)
           h == HasEnded(q, e)
           l == WithLeg(t.svc.legs[a], p, r)
           m == p.search.charged + Used(t, p, r)
<1>1. /\ t \in TurnState /\ SliceOK(t.svc, a, view, base, FALSE) /\ LegsFor(t.svc.legs[a], t.q) /\ t.left > 0 /\ QueryNow(t.q, view)
      /\ u \in TurnState /\ SliceOK(u.svc, a, view, other, FALSE) /\ LegsFor(u.svc.legs[a], u.q) /\ u.left > 0 /\ QueryNow(u.q, view)
      /\ Active(t.q) /\ Active(u.q)
  BY DEF TurnOK
<1>2. /\ t.svc.cache \in Seq(CacheState) /\ CacheOK(t.svc.cache, view) /\ PendingOK(t.svc.legs[a], view.content)
      /\ u.svc.cache \in Seq(CacheState) /\ CacheOK(u.svc.cache, view) /\ PendingOK(u.svc.legs[a], view.content)
  BY <1>1 DEF SliceOK, ServiceState
<1>3. /\ SameWork(t.q, u.q) /\ SameGraph(t.q, u.q, view) /\ t.left = u.left /\ t.svc.out = u.svc.out /\ t.svc.legs[a] = u.svc.legs[a]
  BY <1>1 DEF Along
<1>4. /\ QueryNow(p, view) /\ p.search # NoSearch /\ Unmoved(p, t.q) /\ p.done = t.q.done
      /\ QueryNow(q, view) /\ q.search # NoSearch /\ Unmoved(q, u.q) /\ q.done = u.q.done
  BY <1>1, <1>2, BeganFits
<1>5. SameWork(p, q)
  BY <1>1, <1>2, <1>3, BeganAlike
<1>6. T = InSearch(t, a, view, p, r) /\ U = InSearch(u, a, view, q, e)
  BY TurnIs
<1> SUFFICES Along(T, U, a, view) \/ Parted(T, U)
  OBVIOUS
<1> HIDE DEF p, q, T, U
<1>7. p \in QueryState /\ q \in QueryState /\ SameGraph(p, q, view)
  BY <1>3, <1>4 DEF QueryNow, SameGraph, Unmoved
<1>8. LegsFor(t.svc.legs[a], p) /\ LegsFor(u.svc.legs[a], q)
  <2>1. p # NoQuery /\ q # NoQuery
    BY <1>7, QueryFacts
  <2> QED BY <1>1, <1>4, <2>1 DEF LegsFor, Active, Unmoved
<1>9. /\ SameEnd(r, e) /\ p.search.spec = q.search.spec
      /\ r.late = e.late \/ (p.req.kind = "refine" /\ Len(p.done) = 0 /\ r.status = "found")
  BY <1>4, <1>5, EndsAlike
<1>10. r.status = e.status /\ r.expansions = e.expansions /\ p.search.charged = q.search.charged /\ p.req = q.req
       /\ Len(p.done) = Len(q.done)
  BY <1>5, <1>9 DEF SameEnd, SameWork, SameTrace
<1>11. l = WithLeg(u.svc.legs[a], q, e)
  BY <1>3, <1>5, <1>7, <1>9, <1>10, LegsAlike
<1>12. SameWork(g, h)
  BY <1>4, <1>5, EndAlike
<1>13. g \in QueryState /\ h \in QueryState /\ Unmoved(g, p) /\ Unmoved(h, q)
  BY <1>4, HasEndedFits
<1>14. /\ NextSearch(g.req, g.done) = NextSearch(h.req, h.done) /\ g.spent + CompletedCharge(g) = h.spent + CompletedCharge(h)
  BY <1>12, <1>13, SameWorkFacts DEF SameWork
<1>15. Used(t, p, r) = Used(u, q, e) /\ m = q.search.charged + Used(u, q, e)
  BY <1>3, <1>10 DEF Used
<1>16. /\ m \in Nat /\ p.search.charged <= m /\ m <= r.expansions /\ t.left - Used(t, p, r) \in Nat
       /\ Used(t, p, r) \in Nat /\ Used(t, p, r) <= t.left
       /\ Pauses(t, p, r) => ~T.on /\ T.left = t.left /\ T.svc = t.svc /\ T.q = GoesOn(p, view, m)
       /\ ~Pauses(t, p, r) /\ NextSearch(g.req, g.done) = NoSpec =>
            /\ ~T.on /\ T.left = t.left /\ T.q = NoQuery /\ T.svc.legs[a] = Closed(l, r.status)
            /\ T.svc.out = Append(t.svc.out, Outcome(g, a, r.status, g.spent + CompletedCharge(g)))
       /\ ~Pauses(t, p, r) /\ NextSearch(g.req, g.done) # NoSpec =>
            /\ (T.on <=> t.left - Used(t, p, r) > 0) /\ T.left = t.left - Used(t, p, r) /\ T.q = g /\ T.svc.legs[a] = l
            /\ T.svc.out = t.svc.out
  BY <1>1, <1>2, <1>4, <1>6, <1>8, TurnOutcome
<1>17. /\ Pauses(u, q, e) => ~U.on /\ U.left = u.left /\ U.svc = u.svc /\ U.q = GoesOn(q, view, m)
       /\ ~Pauses(u, q, e) /\ NextSearch(h.req, h.done) = NoSpec =>
            /\ ~U.on /\ U.left = u.left /\ U.q = NoQuery /\ U.svc.legs[a] = Closed(l, e.status)
            /\ U.svc.out = Append(u.svc.out, Outcome(h, a, e.status, h.spent + CompletedCharge(h)))
       /\ ~Pauses(u, q, e) /\ NextSearch(h.req, h.done) # NoSpec =>
            /\ (U.on <=> u.left - Used(u, q, e) > 0) /\ U.left = u.left - Used(u, q, e) /\ U.q = h /\ U.svc.legs[a] = l
            /\ U.svc.out = u.svc.out
  BY <1>1, <1>2, <1>4, <1>6, <1>8, <1>11, <1>15, TurnOutcome
<1> HIDE DEF l, m, g, h, r, e
<1>18. CASE Pauses(t, p, r) /\ Pauses(u, q, e)
  <2>1. SameWork(GoesOn(p, view, m), GoesOn(q, view, m))
    BY <1>4, <1>5, <1>16, GoOnAlike DEF r
  <2>2. /\ Unmoved(GoesOn(p, view, m), p) /\ Unmoved(GoesOn(q, view, m), q)
        /\ GoesOn(p, view, m) # NoQuery /\ GoesOn(q, view, m) # NoQuery
    <3>1. q.search.charged <= m /\ m <= e.expansions
      BY <1>10, <1>16
    <3> QED BY <1>4, <1>16, <3>1, GoesOnFits DEF r, e
  <2>3. SameGraph(GoesOn(p, view, m), GoesOn(q, view, m), view)
    BY <1>7, <2>2 DEF SameGraph, Unmoved
  <2>4. /\ ~T.on /\ T.left = t.left /\ T.svc = t.svc /\ T.q = GoesOn(p, view, m)
        /\ ~U.on /\ U.left = u.left /\ U.svc = u.svc /\ U.q = GoesOn(q, view, m)
    BY <1>16, <1>17, <1>18
  <2>5. (T.on <=> U.on) /\ T.left = U.left /\ T.svc.out = U.svc.out /\ T.svc.legs[a] = U.svc.legs[a]
    BY <1>3, <2>4
  <2>6. Active(T.q) /\ Active(U.q)
    BY <2>2, <2>4 DEF Active
  <2>7. SameWork(T.q, U.q) /\ SameGraph(T.q, U.q, view)
    BY <2>1, <2>3, <2>4
  <2> QED BY <2>5, <2>6, <2>7 DEF Along
<1>19. CASE ~Pauses(t, p, r) /\ ~Pauses(u, q, e)
  <2>1. CASE NextSearch(g.req, g.done) = NoSpec
    <3>1. Outcome(g, a, r.status, g.spent + CompletedCharge(g)) = Outcome(h, a, e.status, h.spent + CompletedCharge(h))
      BY <1>10, <1>12, <1>13, <1>14, OutcomesAlike
    <3>2. /\ ~T.on /\ T.left = t.left /\ T.q = NoQuery /\ T.svc.legs[a] = Closed(l, r.status)
          /\ T.svc.out = Append(t.svc.out, Outcome(g, a, r.status, g.spent + CompletedCharge(g)))
      BY <1>16, <1>19, <2>1
    <3>3. /\ ~U.on /\ U.left = u.left /\ U.q = NoQuery /\ U.svc.legs[a] = Closed(l, e.status)
          /\ U.svc.out = Append(u.svc.out, Outcome(h, a, e.status, h.spent + CompletedCharge(h)))
      BY <1>14, <1>17, <1>19, <2>1
    <3>4. (T.on <=> U.on) /\ T.left = U.left /\ T.svc.out = U.svc.out /\ T.svc.legs[a] = U.svc.legs[a]
      BY <1>3, <1>10, <3>1, <3>2, <3>3
    <3>5. ~Active(T.q) /\ ~Active(U.q)
      BY <3>2, <3>3 DEF Active
    <3> QED BY <3>4, <3>5 DEF Along
  <2>2. CASE NextSearch(g.req, g.done) # NoSpec
    <3>1. SameGraph(g, h, view)
      BY <1>7, <1>13 DEF SameGraph, Unmoved
    <3>2. g # NoQuery /\ h # NoQuery
      BY <1>13, QueryFacts
    <3>3. /\ (T.on <=> t.left - Used(t, p, r) > 0) /\ T.left = t.left - Used(t, p, r) /\ T.q = g /\ T.svc.legs[a] = l
          /\ T.svc.out = t.svc.out
      BY <1>16, <1>19, <2>2
    <3>4. /\ (U.on <=> u.left - Used(u, q, e) > 0) /\ U.left = u.left - Used(u, q, e) /\ U.q = h /\ U.svc.legs[a] = l
          /\ U.svc.out = u.svc.out
      BY <1>14, <1>17, <1>19, <2>2
    <3>5. (T.on <=> U.on) /\ T.left = U.left /\ T.svc.out = U.svc.out /\ T.svc.legs[a] = U.svc.legs[a]
      BY <1>3, <1>15, <3>3, <3>4
    <3>6. Active(T.q) /\ Active(U.q)
      BY <3>2, <3>3, <3>4 DEF Active
    <3>7. SameWork(T.q, U.q) /\ SameGraph(T.q, U.q, view)
      BY <1>12, <3>1, <3>3, <3>4
    <3> QED BY <3>5, <3>6, <3>7 DEF Along
  <2> QED BY <2>1, <2>2
<1>20. CASE ~(Pauses(t, p, r) <=> Pauses(u, q, e))
  <2>1. /\ ~(r.late = e.late) /\ Used(t, p, r) >= t.left
    BY <1>3, <1>10, <1>15, <1>20 DEF Pauses
  <2>2. Used(t, p, r) = t.left
    BY <1>1, <1>16, <2>1 DEF TurnState
  <2>3. /\ OnTheDot(g) /\ NextSearch(g.req, g.done) # NoSpec
        /\ OnTheDot(h) /\ NextSearch(h.req, h.done) # NoSpec
    BY <1>4, <1>9, <1>10, <2>1, CoarseIsOnTheDot DEF g, h, r, e
  <2>4. CASE Pauses(t, p, r)
    <3>1. ~T.on /\ U.q = h /\ (U.on <=> u.left - Used(u, q, e) > 0)
      BY <1>16, <1>17, <1>20, <2>3, <2>4
    <3>2. ~U.on
      <4>1. u.left \in Int /\ u.left - Used(u, q, e) = 0
        BY <1>1, <1>3, <1>15, <2>2 DEF TurnState
      <4> QED BY <3>1, <4>1
    <3> QED BY <2>3, <3>1, <3>2 DEF Parted
  <2>5. CASE ~Pauses(t, p, r)
    <3>1. ~U.on /\ T.q = g /\ (T.on <=> t.left - Used(t, p, r) > 0)
      BY <1>16, <1>17, <1>20, <2>3, <2>5
    <3>2. ~T.on
      <4>1. t.left \in Int /\ t.left - Used(t, p, r) = 0
        BY <1>1, <2>2 DEF TurnState
      <4> QED BY <3>1, <4>1
    <3> QED BY <2>3, <3>1, <3>2 DEF Parted
  <2> QED BY <2>4, <2>5
<1> QED BY <1>18, <1>19, <1>20

\* A turn keeps to the view, and closes the legs of a query that ends.
LEMMA TurnAttends ==
  ASSUME NEW a \in Agents, NEW view \in MapState, NEW t, NEW base, NEW n,
         TurnOK(t, a, view, base, FALSE, n), t.on, Attends(t, a, view)
  PROVE  Attends(Turn(t, a, view), a, view)
<1> DEFINE p == Began(t.svc, t.q, view)
           r == Result(p.search, view)
           T == Turn(t, a, view)
           g == HasEnded(p, r)
           l == WithLeg(t.svc.legs[a], p, r)
           m == p.search.charged + Used(t, p, r)
<1>1. /\ t \in TurnState /\ SliceOK(t.svc, a, view, base, FALSE) /\ LegsFor(t.svc.legs[a], t.q) /\ t.left > 0 /\ QueryNow(t.q, view)
      /\ Active(t.q)
  BY DEF TurnOK
<1>2. /\ t.svc.cache \in Seq(CacheState) /\ CacheOK(t.svc.cache, view) /\ PendingOK(t.svc.legs[a], view.content)
      /\ t.svc.legs[a] \in LegState \cup {NoLegs}
  BY <1>1 DEF SliceOK, ServiceState
<1>3. QueryNow(p, view) /\ p.search # NoSearch /\ Unmoved(p, t.q)
  BY <1>1, <1>2, BeganFits
<1>4. T = InSearch(t, a, view, p, r)
  BY TurnIs
<1> SUFFICES Attends(T, a, view)
  OBVIOUS
<1> HIDE DEF p, T
<1>5. LegsFor(t.svc.legs[a], p) /\ p.seen = view.version
  <2>1. p # NoQuery
    BY <1>3, QueryFacts DEF QueryNow
  <2> QED BY <1>1, <1>3, <2>1 DEF LegsFor, Active, Unmoved, Attends
<1>6. Unmoved(g, p) /\ g \in QueryState
  BY <1>3, HasEndedFits
<1>7. l \in LegState \cup {NoLegs}
  BY <1>2, <1>3, <1>5, WithLegFits
<1>8. /\ m \in Nat /\ p.search.charged <= m /\ m <= r.expansions
      /\ Pauses(t, p, r) => T.q = GoesOn(p, view, m)
      /\ ~Pauses(t, p, r) /\ NextSearch(g.req, g.done) = NoSpec => T.q = NoQuery /\ T.svc.legs[a] = Closed(l, r.status)
      /\ ~Pauses(t, p, r) /\ NextSearch(g.req, g.done) # NoSpec => T.q = g
  BY <1>1, <1>2, <1>3, <1>4, <1>5, TurnOutcome
<1>9. Unmoved(GoesOn(p, view, m), p) /\ GoesOn(p, view, m) # NoQuery
  BY <1>3, <1>8, GoesOnFits
<1>10. Closed(l, r.status) = NoLegs \/ Closed(l, r.status).done
  <2> HIDE DEF l, r
  <2>1. CASE l = NoLegs
    BY <2>1 DEF Closed
  <2>2. CASE l # NoLegs
    BY <1>7, <2>2 DEF Closed, LegState
  <2> QED BY <2>1, <2>2
<1> HIDE DEF l, m, g, r
<1>11. g # NoQuery
  BY <1>6, QueryFacts
<1> QED BY <1>5, <1>6, <1>8, <1>9, <1>10, <1>11 DEF Attends, Active, Unmoved

(***************************************************************************)
(* Slices, next to one another                                             *)
(***************************************************************************)
\* What a slice leaves of an agent: only a strategy has completed searches.
Settled(s, a, view) ==
  LET q == s.queries[a] IN
  /\ Active(q) => q.seen = view.version /\ (~IsStrategy(q.req) => q.done = <<>>)
  /\ ~Active(q) => s.legs[a] = NoLegs \/ s.legs[a].done

LEMMA OneSearchIsNone ==
  ASSUME NEW q, NEW view, QueryNow(q, view), ~IsStrategy(q.req) PROVE q.done = <<>>
<1>1. q \in QueryState /\ NextSearch(q.req, q.done) # NoSpec
  BY DEF QueryNow, Current
<1>2. q.req \in RequestState /\ q.done \in Seq(DoneState) /\ q.req.kind \in Kinds
  BY <1>1, QueryFacts, RequestFacts
<1>3. q.req.kind \in {"grid", "hpa"}
  BY <1>2 DEF Kinds, IsStrategy, IsFallback
<1>4. Len(q.done) = 0
  BY <1>1, <1>2, <1>3, NextFacts
<1> QED BY <1>2, <1>4

LEMMA SliceAttends ==
  ASSUME NEW a \in Agents, NEW view \in MapState, NEW base, NEW svc, NEW q, NEW s, q.seen = view.version, q # NoQuery,
         NEW H, SliceEnds(H, svc, q, s, a, view, base, FALSE)
  PROVE  Settled(s, a, view)
<1> DEFINE n == MaxSearches
           t0 == [svc |-> svc, q |-> q, left |-> PerTick[a], on |-> TRUE]
           T == {i \in 0..n : Attends(H[i], a, view)}
<1>0. n \in Nat
  BY PlanningAssumption DEF MaxSearches, Max2
<1>1. /\ H[0] = t0 /\ \A i \in 1..n : H[i] = IF H[i - 1].on THEN Turn(H[i - 1], a, view) ELSE H[i - 1]
      /\ \A i \in 0..n : TurnOK(H[i], a, view, base, FALSE, i)
      /\ s.queries[a] = H[n].q /\ s.legs = H[n].svc.legs
  BY DEF SliceEnds, Turns
<1> HIDE DEF n
<1>2. 0 \in T
  <2>1. t0.q = q
    OBVIOUS
  <2>2. Attends(t0, a, view)
    BY <2>1 DEF Attends, Active
  <2> QED BY <1>0, <1>1, <2>2
<1>3. ASSUME NEW i \in 0..n, i \in T, i < n PROVE i + 1 \in T
  <2>1. i \in Nat /\ i + 1 \in 1..n /\ i + 1 \in 0..n /\ (i + 1) - 1 = i
    BY <1>0, <1>3
  <2>2. H[i + 1] = IF H[i].on THEN Turn(H[i], a, view) ELSE H[i]
    BY <1>1, <2>1
  <2>3. TurnOK(H[i], a, view, base, FALSE, i) /\ Attends(H[i], a, view)
    BY <1>1, <1>3
  <2>4. H[i].on => Attends(Turn(H[i], a, view), a, view)
    BY <2>1, <2>3, TurnAttends
  <2>5. Attends(H[i + 1], a, view)
    BY <2>2, <2>3, <2>4
  <2> QED BY <2>1, <2>5
<1> HIDE DEF T
<1>4. 0..n \subseteq T
  BY <1>0, <1>2, <1>3, AllIndices
<1>5. Attends(H[n], a, view)
  BY <1>0, <1>4 DEF T
<1>6. Active(H[n].q) => QueryNow(H[n].q, view)
  <2>1. n \in 0..n
    BY <1>0
  <2>2. TurnOK(H[n], a, view, base, FALSE, n)
    BY <1>1, <2>1
  <2> QED BY <2>2 DEF TurnOK
<1>7. Active(s.queries[a]) /\ ~IsStrategy(s.queries[a].req) => s.queries[a].done = <<>>
  BY <1>1, <1>6, OneSearchIsNone
<1> QED BY <1>1, <1>5, <1>7 DEF Attends, Settled

\* Two agents are alike.
Alike(s, u, a, view) ==
  LET p == s.queries[a]
      q == u.queries[a] IN
  /\ s.out = u.out /\ s.legs[a] = u.legs[a] /\ (Active(p) <=> Active(q))
  /\ Active(p) => SameWork(p, q) /\ SameGraph(p, q, view)

LEMMA SlicesAlike ==
  ASSUME NEW a \in Agents, NEW view \in MapState, NEW base, NEW svc, NEW p, NEW s, NEW other, NEW twin, NEW q, NEW u,
         NEW G, SliceEnds(G, svc, p, s, a, view, base, FALSE), NEW H, SliceEnds(H, twin, q, u, a, view, other, FALSE),
         svc.out = twin.out, svc.legs[a] = twin.legs[a], p # NoQuery, q # NoQuery, SameWork(p, q), SameGraph(p, q, view)
  PROVE  Alike(s, u, a, view) \/ OnTheDot(s.queries[a]) \/ OnTheDot(u.queries[a])
<1> DEFINE n == MaxSearches
           t0 == [svc |-> svc, q |-> p, left |-> PerTick[a], on |-> TRUE]
           u0 == [svc |-> twin, q |-> q, left |-> PerTick[a], on |-> TRUE]
           T == {i \in 0..n : Along(G[i], H[i], a, view) \/ Parted(G[i], H[i])}
<1>0. n \in Nat
  BY PlanningAssumption DEF MaxSearches, Max2
<1>1. /\ G[0] = t0 /\ \A i \in 1..n : G[i] = IF G[i - 1].on THEN Turn(G[i - 1], a, view) ELSE G[i - 1]
      /\ \A i \in 0..n : TurnOK(G[i], a, view, base, FALSE, i)
      /\ s.queries[a] = G[n].q /\ s.legs = G[n].svc.legs /\ s.out = G[n].svc.out
  BY DEF SliceEnds, Turns
<1>2. /\ H[0] = u0 /\ \A i \in 1..n : H[i] = IF H[i - 1].on THEN Turn(H[i - 1], a, view) ELSE H[i - 1]
      /\ \A i \in 0..n : TurnOK(H[i], a, view, other, FALSE, i)
      /\ u.queries[a] = H[n].q /\ u.legs = H[n].svc.legs /\ u.out = H[n].svc.out
  BY DEF SliceEnds, Turns
<1> HIDE DEF n
<1>3. 0 \in T
  <2>1. /\ t0.q = p /\ t0.svc = svc /\ t0.left = PerTick[a] /\ t0.on
        /\ u0.q = q /\ u0.svc = twin /\ u0.left = PerTick[a] /\ u0.on
    OBVIOUS
  <2> HIDE DEF t0, u0
  <2>2. Along(t0, u0, a, view)
    BY <2>1 DEF Along, Active
  <2> QED BY <1>0, <1>1, <1>2, <2>2
<1>4. ASSUME NEW i \in 0..n, i \in T, i < n PROVE i + 1 \in T
  <2> DEFINE g == G[i]
             h == H[i]
  <2>1. i \in Nat /\ i + 1 \in 1..n /\ i + 1 \in 0..n /\ (i + 1) - 1 = i
    BY <1>0, <1>4
  <2>2. /\ G[i + 1] = IF g.on THEN Turn(g, a, view) ELSE g
        /\ H[i + 1] = IF h.on THEN Turn(h, a, view) ELSE h
    BY <1>1, <1>2, <2>1
  <2>3. TurnOK(g, a, view, base, FALSE, i) /\ TurnOK(h, a, view, other, FALSE, i) /\ (Along(g, h, a, view) \/ Parted(g, h))
    BY <1>1, <1>2, <1>4
  <2> HIDE DEF g, h
  <2>4. CASE g.on /\ Along(g, h, a, view)
    <3>1. h.on
      BY <2>4 DEF Along
    <3>2. Along(Turn(g, a, view), Turn(h, a, view), a, view) \/ Parted(Turn(g, a, view), Turn(h, a, view))
      BY <2>3, <2>4, <3>1, TurnsAlike
    <3> QED BY <2>1, <2>2, <2>4, <3>1, <3>2
  <2>5. CASE ~g.on /\ Along(g, h, a, view)
    <3>1. ~h.on
      BY <2>5 DEF Along
    <3> QED BY <2>1, <2>2, <2>5, <3>1
  <2>6. CASE Parted(g, h)
    <3>1. ~g.on /\ ~h.on
      BY <2>6 DEF Parted
    <3> QED BY <2>1, <2>2, <2>6, <3>1
  <2> QED BY <2>3, <2>4, <2>5, <2>6
<1> HIDE DEF T
<1>5. 0..n \subseteq T
  BY <1>0, <1>3, <1>4, AllIndices
<1>6. Along(G[n], H[n], a, view) \/ Parted(G[n], H[n])
  BY <1>0, <1>5 DEF T
<1>7. Along(G[n], H[n], a, view) => Alike(s, u, a, view)
  BY <1>1, <1>2 DEF Along, Alike
<1>8. Parted(G[n], H[n]) => OnTheDot(s.queries[a]) \/ OnTheDot(u.queries[a])
  BY <1>1, <1>2 DEF Parted
<1> QED BY <1>6, <1>7, <1>8

\* The slice of a service, and the query it begins with.
LEMMA SliceOfService ==
  ASSUME NEW a \in Agents, NEW view \in MapState, NEW svc, ServiceOK(svc, view, FALSE), NEW q, QueryNow(q, view),
         LegsFor(svc.legs[a], q)
  PROVE  \E H : SliceEnds(H, svc, q, Slice(svc, a, q, view), a, view, svc, FALSE)
<1>1. SliceOK(svc, a, view, svc, FALSE)
  BY DEF ServiceOK, SliceOK, AgentOK
<1> QED BY <1>1, SliceIs

\* An agent that has been advanced has examined what changed.
LEMMA AdvanceSettles ==
  ASSUME NEW a \in Agents, NEW view \in MapState, NEW svc, ServiceOK(svc, view, FALSE),
         ~Active(svc.queries[a]) => svc.legs[a] = NoLegs
  PROVE  Settled(Advance(svc, a, view), a, view)
<1> DEFINE p == svc.queries[a]
           q == Aged(p)
           again == Again(q)
           s == Advance(svc, a, view)
<1>1. svc \in ServiceState /\ AgentOK(svc, a, view, FALSE) /\ svc.cache \in Seq(CacheState) /\ CacheOK(svc.cache, view)
      /\ LegsFor(svc.legs[a], p)
  BY DEF ServiceOK, ServiceState, AgentOK, LegsOK
<1>2. CASE ~Active(p)
  <2>1. s = svc
    BY <1>2 DEF Advance
  <2> QED BY <1>2, <2>1 DEF Settled
<1>3. CASE Active(p)
  <2>1. QueryOK(p, view)
    BY <1>1, <1>3 DEF AgentOK
  <2>2. q \in QueryState /\ QueryOK(q, view) /\ q.req = p.req
    BY <2>1, AgedFits
  <2>3. s = IF ~MustRestart(q, view) THEN Slice(svc, a, Continued(q, view), view)
            ELSE IF HandedOut(svc, a) THEN Interrupted(svc, a)
            ELSE IF again.spent >= q.req.total THEN Completed(svc, a, again, "budget_exceeded", again.spent)
            ELSE Slice(svc, a, Attempt(svc, again, view), view)
    BY <1>3, AdvanceIs
  <2>4. again \in QueryState /\ again.req = q.req
    BY <2>2, AgainFits
  <2> HIDE DEF p, q, again
  <2>5. ASSUME NEW c, QueryNow(c, view), c.req = q.req, c.seen = view.version, c # NoQuery
        PROVE  Settled(Slice(svc, a, c, view), a, view)
    <3>1. LegsFor(svc.legs[a], c)
      BY <1>1, <1>3, <2>2, <2>5 DEF LegsFor
    <3>2. PICK H : SliceEnds(H, svc, c, Slice(svc, a, c, view), a, view, svc, FALSE)
      BY <2>5, <3>1, SliceOfService
    <3> QED BY <2>5, <3>2, SliceAttends
  <2>6. CASE ~MustRestart(q, view)
    <3>1. QueryNow(Continued(q, view), view) /\ Continued(q, view).req = q.req
          /\ Continued(q, view).seen = view.version /\ Continued(q, view) # NoQuery
      BY <2>2, <2>6, ContinuedFits
    <3> QED BY <2>3, <2>5, <2>6, <3>1
  <2>7. CASE MustRestart(q, view) /\ HandedOut(svc, a)
    <3>1. s.queries[a] = NoQuery /\ s.legs[a].done
      BY <1>1, <2>3, <2>7, InterruptedIs
    <3> QED BY <3>1 DEF Settled, Active
  <2>8. CASE MustRestart(q, view) /\ ~HandedOut(svc, a) /\ again.spent >= q.req.total
    <3>1. s.queries[a] = NoQuery /\ s.legs[a] = Closed(svc.legs[a], "budget_exceeded")
      BY <1>1, <2>3, <2>8, CompletedIs
    <3>2. svc.legs[a] \in LegState \cup {NoLegs}
      BY <1>1 DEF ServiceState
    <3>3. s.legs[a] = NoLegs \/ s.legs[a].done
      BY <3>1, <3>2 DEF Closed, LegState
    <3> QED BY <3>1, <3>3 DEF Settled, Active
  <2>9. CASE MustRestart(q, view) /\ ~HandedOut(svc, a) /\ ~(again.spent >= q.req.total)
    <3>1. /\ QueryNow(Attempt(svc, again, view), view) /\ Attempt(svc, again, view).req = q.req
          /\ Attempt(svc, again, view).seen = view.version /\ Attempt(svc, again, view) # NoQuery
      BY <1>1, <2>4, AttemptFits
    <3> QED BY <2>3, <2>5, <2>9, <3>1
  <2> QED BY <2>6, <2>7, <2>8, <2>9
<1> QED BY <1>2, <1>3

\* Two agents that are alike are advanced alike.
LEMMA AdvanceAlike ==
  ASSUME NEW a \in Agents, NEW view \in MapState, NEW svc, ServiceOK(svc, view, FALSE), NEW twin, ServiceOK(twin, view, FALSE),
         Active(svc.queries[a]) => TidyQuery(svc.queries[a], view), Active(twin.queries[a]) => TidyQuery(twin.queries[a], view),
         svc.out = twin.out, SameAgent(svc, twin, a, view)
  PROVE  LET s == Advance(svc, a, view)
             u == Advance(twin, a, view) IN
         Alike(s, u, a, view) \/ OnTheDot(s.queries[a]) \/ OnTheDot(u.queries[a])
<1> DEFINE p0 == svc.queries[a]
           q0 == twin.queries[a]
           p == Aged(p0)
           q == Aged(q0)
           s == Advance(svc, a, view)
           u == Advance(twin, a, view)
<1>1. /\ svc \in ServiceState /\ AgentOK(svc, a, view, FALSE) /\ svc.cache \in Seq(CacheState) /\ CacheOK(svc.cache, view)
      /\ LegsFor(svc.legs[a], p0)
      /\ twin \in ServiceState /\ AgentOK(twin, a, view, FALSE) /\ twin.cache \in Seq(CacheState) /\ CacheOK(twin.cache, view)
      /\ LegsFor(twin.legs[a], q0)
  BY DEF ServiceOK, ServiceState, AgentOK, LegsOK
<1>2. svc.legs[a] = twin.legs[a] /\ (Active(p0) <=> Active(q0)) /\ (Active(p0) => SameQuery(p0, q0, view))
  BY DEF SameAgent
<1>3. CASE ~Active(p0)
  <2>1. s = svc /\ u = twin
    BY <1>2, <1>3 DEF Advance
  <2> QED BY <1>2, <1>3, <2>1 DEF Alike
<1>4. CASE Active(p0)
  <2>1. /\ QueryOK(p0, view) /\ QueryOK(q0, view) /\ Active(q0) /\ SameQuery(p0, q0, view)
        /\ TidyQuery(p0, view) /\ TidyQuery(q0, view)
    BY <1>1, <1>2, <1>4 DEF AgentOK
  <2>2. /\ p \in QueryState /\ QueryOK(p, view) /\ q \in QueryState /\ QueryOK(q, view)
        /\ p.req = p0.req /\ q.req = q0.req
    BY <2>1, AgedFits
  <2>3. SameQuery(p, q, view) /\ (MustRestart(p, view) <=> MustRestart(q, view)) /\ (MustRestart(p, view) <=> Stale(p, view))
    <3>1. /\ p.id = p0.id /\ p.req = p0.req /\ p.age = p0.age + 1 /\ p.restarts = p0.restarts
          /\ p.continuations = p0.continuations /\ p.spent = p0.spent /\ p.seenGraph = p0.seenGraph /\ p.done = p0.done
          /\ p.search = p0.search /\ p.work = p0.work /\ ReadByQuery(p) = ReadByQuery(p0)
          /\ ChangedFor(p, view) = ChangedFor(p0, view)
          /\ (Stale(p, view) <=> Stale(p0, view)) /\ (MustRestart(p, view) <=> MustRestart(p0, view))
      BY <2>1, AgedFits
    <3>2. /\ q.id = q0.id /\ q.req = q0.req /\ q.age = q0.age + 1 /\ q.restarts = q0.restarts
          /\ q.continuations = q0.continuations /\ q.spent = q0.spent /\ q.seenGraph = q0.seenGraph /\ q.done = q0.done
          /\ q.search = q0.search /\ q.work = q0.work /\ ReadByQuery(q) = ReadByQuery(q0)
          /\ ChangedFor(q, view) = ChangedFor(q0, view)
          /\ (Stale(q, view) <=> Stale(q0, view)) /\ (MustRestart(q, view) <=> MustRestart(q0, view))
      BY <2>1, AgedFits
    <3>3. /\ SameWork(p0, q0) /\ SameGraph(p0, q0, view) /\ ChangedFor(p0, view) = ChangedFor(q0, view)
          /\ (Stale(p0, view) <=> Stale(q0, view)) /\ (Counts(p0, view) <=> Counts(q0, view))
      BY <2>1 DEF SameQuery
    <3> HIDE DEF p, q
    <3>4. SameWork(p, q)
      BY <3>1, <3>2, <3>3 DEF SameWork
    <3>5. SameGraph(p, q, view) /\ (Counts(p, view) <=> Counts(q, view))
      BY <3>1, <3>2, <3>3 DEF SameGraph, Counts
    <3>6. /\ MustRestart(p0, view) <=> Stale(p0, view)
          /\ MustRestart(q0, view) <=> Stale(q0, view)
      BY <2>1, StaleRestarts DEF TidyQuery
    <3> QED BY <3>1, <3>2, <3>3, <3>4, <3>5, <3>6 DEF SameQuery
  <2>4. /\ s = IF ~MustRestart(p, view) THEN Slice(svc, a, Continued(p, view), view)
               ELSE IF HandedOut(svc, a) THEN Interrupted(svc, a)
               ELSE IF Again(p).spent >= p.req.total THEN Completed(svc, a, Again(p), "budget_exceeded", Again(p).spent)
               ELSE Slice(svc, a, Attempt(svc, Again(p), view), view)
        /\ u = IF ~MustRestart(q, view) THEN Slice(twin, a, Continued(q, view), view)
               ELSE IF HandedOut(twin, a) THEN Interrupted(twin, a)
               ELSE IF Again(q).spent >= q.req.total THEN Completed(twin, a, Again(q), "budget_exceeded", Again(q).spent)
               ELSE Slice(twin, a, Attempt(twin, Again(q), view), view)
    BY <1>4, <2>1, AdvanceIs
  <2>5. LegsFor(svc.legs[a], p) /\ LegsFor(twin.legs[a], q) /\ p.req = q.req
    BY <1>1, <1>4, <2>1, <2>2, <2>3 DEF LegsFor, SameQuery, SameWork
  <2>6. HandedOut(svc, a) <=> HandedOut(twin, a)
    BY <1>2 DEF HandedOut
  <2> HIDE DEF p0, q0, p, q
  <2>7. ASSUME NEW c, QueryNow(c, view), c.req = p.req, c # NoQuery, NEW d, QueryNow(d, view), d.req = q.req, d # NoQuery,
               SameWork(c, d), SameGraph(c, d, view)
        PROVE  LET x == Slice(svc, a, c, view)
                   y == Slice(twin, a, d, view) IN
               Alike(x, y, a, view) \/ OnTheDot(x.queries[a]) \/ OnTheDot(y.queries[a])
    <3>1. LegsFor(svc.legs[a], c) /\ LegsFor(twin.legs[a], d)
      BY <1>1, <1>4, <2>1, <2>2, <2>7 DEF LegsFor
    <3>2. PICK G : SliceEnds(G, svc, c, Slice(svc, a, c, view), a, view, svc, FALSE)
      BY <2>7, <3>1, SliceOfService
    <3>3. PICK H : SliceEnds(H, twin, d, Slice(twin, a, d, view), a, view, twin, FALSE)
      BY <2>7, <3>1, SliceOfService
    <3> QED BY <1>2, <2>7, <3>2, <3>3, SlicesAlike
  <2>8. CASE ~MustRestart(p, view)
    <3> DEFINE c == Continued(p, view)
               d == Continued(q, view)
    <3>1. /\ QueryNow(c, view) /\ c # NoQuery /\ c.id = p.id /\ c.req = p.req /\ c.age = p.age /\ c.restarts = p.restarts
          /\ c.spent = p.spent /\ c.done = p.done /\ c.search = p.search /\ c.work = p.work
          /\ c.seenGraph = IF p.usedHpa THEN view.version ELSE p.seenGraph
          /\ c.continuations = IF ChangedFor(p, view) # {} /\ ReadByQuery(p) # {} THEN p.continuations + 1 ELSE p.continuations
      BY <2>2, <2>8, ContinuedFits
    <3>2. /\ QueryNow(d, view) /\ d # NoQuery /\ d.id = q.id /\ d.req = q.req /\ d.age = q.age /\ d.restarts = q.restarts
          /\ d.spent = q.spent /\ d.done = q.done /\ d.search = q.search /\ d.work = q.work
          /\ d.seenGraph = IF q.usedHpa THEN view.version ELSE q.seenGraph
          /\ d.continuations = IF ChangedFor(q, view) # {} /\ ReadByQuery(q) # {} THEN q.continuations + 1 ELSE q.continuations
      BY <2>2, <2>3, <2>8, ContinuedFits
    <3>3. s = Slice(svc, a, c, view) /\ u = Slice(twin, a, d, view)
      BY <2>3, <2>4, <2>8
    <3> HIDE DEF c, d, s, u
    <3>4. (ChangedFor(p, view) # {} /\ ReadByQuery(p) # {}) <=> (ChangedFor(q, view) # {} /\ ReadByQuery(q) # {})
      BY <2>3, <2>8 DEF SameQuery, Counts
    <3>5. SameWork(p, q) /\ SameGraph(p, q, view) /\ p.usedHpa = q.usedHpa
      BY <2>2, <2>3, SameWorkFacts DEF SameQuery, QueryOK
    <3>6. SameWork(c, d)
      BY <3>1, <3>2, <3>4, <3>5 DEF SameWork
    <3>7. SameGraph(c, d, view)
      BY <3>1, <3>2, <3>5 DEF SameGraph
    <3>8. Alike(s, u, a, view) \/ OnTheDot(s.queries[a]) \/ OnTheDot(u.queries[a])
      BY <2>7, <3>1, <3>2, <3>3, <3>6, <3>7
    <3> QED BY <3>8 DEF s, u
  <2>9. CASE MustRestart(p, view) /\ HandedOut(svc, a)
    <3>1. s = Interrupted(svc, a) /\ u = Interrupted(twin, a)
      BY <2>3, <2>4, <2>6, <2>9
    <3> HIDE DEF s, u
    <3>2. /\ s.queries[a] = NoQuery /\ s.legs[a] = Broken(svc.legs[a]) /\ s.out = svc.out
          /\ u.queries[a] = NoQuery /\ u.legs[a] = Broken(twin.legs[a]) /\ u.out = twin.out
      BY <1>1, <2>6, <2>9, <3>1, InterruptedIs
    <3>3. Alike(s, u, a, view)
      BY <1>2, <3>2 DEF Alike, Active
    <3> QED BY <3>3 DEF s, u
  <2> DEFINE again == Again(p)
             afresh == Again(q)
  <2>10. /\ again \in QueryState /\ again.id = p.id /\ again.req = p.req /\ again.age = p.age /\ again.restarts = p.restarts + 1
         /\ again.continuations = p.continuations /\ again.spent = p.spent + Charged(p) /\ again.done = p.done
         /\ again.search = p.search /\ again.work = p.work
    BY <2>2, AgainFits
  <2>11. /\ afresh \in QueryState /\ afresh.id = q.id /\ afresh.req = q.req /\ afresh.age = q.age /\ afresh.restarts = q.restarts + 1
         /\ afresh.continuations = q.continuations /\ afresh.spent = q.spent + Charged(q) /\ afresh.done = q.done
         /\ afresh.search = q.search /\ afresh.work = q.work
    BY <2>2, AgainFits
  <2> HIDE DEF again, afresh
  <2>12. SameWork(again, afresh)
    <3>1. SameWork(p, q) /\ Charged(p) = Charged(q)
      BY <2>2, <2>3, SameWorkFacts DEF SameQuery
    <3> QED BY <2>10, <2>11, <3>1 DEF SameWork
  <2>13. CASE MustRestart(p, view) /\ ~HandedOut(svc, a) /\ again.spent >= p.req.total
    <3>1. /\ s = Completed(svc, a, again, "budget_exceeded", again.spent)
          /\ u = Completed(twin, a, afresh, "budget_exceeded", again.spent)
      BY <2>3, <2>4, <2>5, <2>6, <2>12, <2>13 DEF again, afresh, SameWork
    <3> HIDE DEF s, u
    <3>2. Outcome(again, a, "budget_exceeded", again.spent) = Outcome(afresh, a, "budget_exceeded", again.spent)
      BY <2>10, <2>11, <2>12, OutcomesAlike
    <3>3. /\ s.out = Append(svc.out, Outcome(again, a, "budget_exceeded", again.spent)) /\ s.queries[a] = NoQuery
          /\ s.legs[a] = Closed(svc.legs[a], "budget_exceeded")
          /\ u.out = Append(twin.out, Outcome(afresh, a, "budget_exceeded", again.spent)) /\ u.queries[a] = NoQuery
          /\ u.legs[a] = Closed(twin.legs[a], "budget_exceeded")
      BY <1>1, <3>1, CompletedIs
    <3>4. Alike(s, u, a, view)
      BY <1>2, <3>2, <3>3 DEF Alike, Active
    <3> QED BY <3>4 DEF s, u
  <2>14. CASE MustRestart(p, view) /\ ~HandedOut(svc, a) /\ ~(again.spent >= p.req.total)
    <3> DEFINE c == Attempt(svc, again, view)
               d == Attempt(twin, afresh, view)
    <3>1. s = Slice(svc, a, c, view) /\ u = Slice(twin, a, d, view)
      BY <2>3, <2>4, <2>5, <2>6, <2>12, <2>14 DEF again, afresh, SameWork
    <3> HIDE DEF s, u
    <3>2. /\ QueryNow(c, view) /\ c # NoQuery /\ c.id = again.id
          /\ c.req = again.req /\ c.spent = again.spent /\ c.work = again.work /\ c.age = again.age /\ c.done = <<>>
          /\ c.restarts = again.restarts /\ c.continuations = again.continuations
          /\ c.search # NoSearch /\ c.search.charged = 0 /\ c.seenGraph = view.version
      BY <1>1, <2>10, AttemptFits
    <3>3. /\ QueryNow(d, view) /\ d # NoQuery /\ d.id = afresh.id
          /\ d.req = afresh.req /\ d.spent = afresh.spent /\ d.work = afresh.work /\ d.age = afresh.age /\ d.done = <<>>
          /\ d.restarts = afresh.restarts /\ d.continuations = afresh.continuations
          /\ d.search # NoSearch /\ d.search.charged = 0 /\ d.seenGraph = view.version
      BY <1>1, <2>11, AttemptFits
    <3> HIDE DEF c, d
    <3>4. SameWork(c, d) /\ SameGraph(c, d, view)
      BY <2>12, <3>2, <3>3 DEF SameWork, SameTrace, SameGraph
    <3>5. Alike(s, u, a, view) \/ OnTheDot(s.queries[a]) \/ OnTheDot(u.queries[a])
      BY <2>7, <2>10, <2>11, <3>1, <3>2, <3>3, <3>4
    <3> QED BY <3>5 DEF s, u
  <2> QED BY <2>8, <2>9, <2>13, <2>14
<1> QED BY <1>3, <1>4

(***************************************************************************)
(* Plans, next to one another                                              *)
(***************************************************************************)
\* A service that is right, whatever it says it has spent.
Sound(svc, view) == ServiceOK(svc, view, FALSE)

\* A tick, agent by agent: those that are not yet advanced are as they were.
TicksOver(it, svc, view) ==
  /\ it[{}] = svc /\ Ticked(svc, view) = it[Agents]
  /\ \A t \in SUBSET Agents : t # {} => it[t] = Advance(it[t \ {Topmost(t)}], Topmost(t), view)
  /\ \A t \in SUBSET Agents :
       /\ Sound(it[t], view) /\ it[t].handed = svc.handed
       /\ \A a \in Agents \ t : it[t].queries[a] = svc.queries[a] /\ it[t].legs[a] = svc.legs[a]

LEMMA AdvanceLeaves ==
  ASSUME NEW a \in Agents, NEW view \in MapState, NEW svc, Sound(svc, view)
  PROVE  LET s == Advance(svc, a, view) IN
         /\ Sound(s, view) /\ s.handed = svc.handed
         /\ \A b \in Agents \ {a} : s.queries[b] = svc.queries[b] /\ s.legs[b] = svc.legs[b]
<1> DEFINE s == Advance(svc, a, view)
<1>1. PICK paid \in BOOLEAN : paid = FALSE
  OBVIOUS
<1>2. ServiceOK(svc, view, paid)
  BY <1>1 DEF Sound
<1>3. /\ ServiceOK(s, view, paid) /\ s.handed = svc.handed
      /\ \A b \in Agents \ {a} : s.queries[b] = svc.queries[b] /\ s.legs[b] = svc.legs[b]
  BY <1>2, AdvanceFits
<1> HIDE DEF s
<1> QED BY <1>1, <1>3 DEF Sound, s

LEMMA TickedIsSound ==
  ASSUME NEW view \in MapState, NEW svc, Sound(svc, view)
  PROVE  LET s == Ticked(svc, view) IN Sound(s, view) /\ Examined(s)
<1> DEFINE s == Ticked(svc, view)
<1>1. PICK paid \in BOOLEAN : paid = FALSE
  OBVIOUS
<1>2. ServiceOK(svc, view, paid)
  BY <1>1 DEF Sound
<1>3. ServiceOK(s, view, paid) /\ Examined(s)
  BY <1>2, TickedFits
<1> HIDE DEF s
<1> QED BY <1>1, <1>3 DEF Sound, s

LEMMA TickedOver ==
  ASSUME NEW view \in MapState, NEW svc, Sound(svc, view)
  PROVE  \E it : TicksOver(it, svc, view)
<1> DEFINE V == {s \in ServiceState : Sound(s, view) /\ s.handed = svc.handed}
<1>1. svc \in V
  BY DEF Sound, ServiceOK
<1>2. ASSUME NEW a \in Agents, NEW s \in V PROVE Advance(s, a, view) \in V
  <2>1. Sound(s, view) /\ s.handed = svc.handed
    OBVIOUS
  <2> HIDE DEF V
  <2>2. Sound(Advance(s, a, view), view) /\ Advance(s, a, view).handed = svc.handed
    BY <2>1, AdvanceLeaves
  <2> QED BY <2>2 DEF V, Sound, ServiceOK
<1> HIDE DEF V
<1>3. PICK it : Advances(it, svc, view, V) /\ Ticked(svc, view) = it[Agents]
  BY <1>1, <1>2, TickedFolds
<1>4. \A t \in SUBSET Agents : Sound(it[t], view) /\ it[t].handed = svc.handed
  BY <1>3 DEF Advances, V
<1> DEFINE U == {t \in SUBSET Agents : \A a \in Agents \ t : it[t].queries[a] = svc.queries[a] /\ it[t].legs[a] = svc.legs[a]}
<1>5. {} \in U
  BY <1>3 DEF Advances
<1>6. ASSUME NEW t \in SUBSET Agents, t # {}, Topmost(t) \in t, t \ {Topmost(t)} \in U PROVE t \in U
  <2> DEFINE a == Topmost(t)
             s == it[t \ {Topmost(t)}]
  <2>1. a \in Agents /\ a \in t /\ it[t] = Advance(s, a, view) /\ Sound(s, view)
    BY <1>3, <1>4, <1>6 DEF Advances
  <2>2. \A b \in Agents \ (t \ {a}) : s.queries[b] = svc.queries[b] /\ s.legs[b] = svc.legs[b]
    BY <1>6
  <2> HIDE DEF a, s
  <2>3. \A b \in Agents \ {a} : it[t].queries[b] = s.queries[b] /\ it[t].legs[b] = s.legs[b]
    BY <2>1, AdvanceLeaves
  <2> QED BY <2>1, <2>2, <2>3
<1> HIDE DEF U
<1>7. SUBSET Agents \subseteq U
  BY <1>5, <1>6, SetInduction, PlanningAssumption
<1>8. \A t \in SUBSET Agents : \A a \in Agents \ t : it[t].queries[a] = svc.queries[a] /\ it[t].legs[a] = svc.legs[a]
  BY <1>7 DEF U
<1>9. TicksOver(it, svc, view)
  BY <1>3, <1>4, <1>8 DEF TicksOver, Advances
<1> QED BY <1>9

\* After a tick every agent has examined what changed.
LEMMA TickedSettles ==
  ASSUME NEW view \in MapState, NEW svc, Sound(svc, view),
         \A a \in Agents : ~Active(svc.queries[a]) => svc.legs[a] = NoLegs
  PROVE  \A a \in Agents : Settled(Ticked(svc, view), a, view)
<1>1. PICK it : TicksOver(it, svc, view)
  BY TickedOver
<1> DEFINE U == {t \in SUBSET Agents : \A a \in t : Settled(it[t], a, view)}
<1>2. {} \in U
  OBVIOUS
<1>3. ASSUME NEW t \in SUBSET Agents, t # {}, Topmost(t) \in t, t \ {Topmost(t)} \in U PROVE t \in U
  <2> DEFINE a == Topmost(t)
             s == it[t \ {Topmost(t)}]
  <2>1. /\ a \in Agents /\ a \in t /\ it[t] = Advance(s, a, view) /\ Sound(s, view)
        /\ s.queries[a] = svc.queries[a] /\ s.legs[a] = svc.legs[a]
    BY <1>1, <1>3 DEF TicksOver
  <2>2. \A b \in t \ {a} : Settled(s, b, view)
    BY <1>3
  <2> HIDE DEF a, s
  <2>3. \A b \in Agents \ {a} : it[t].queries[b] = s.queries[b] /\ it[t].legs[b] = s.legs[b]
    BY <2>1, AdvanceLeaves
  <2>4. Settled(it[t], a, view)
    BY <2>1, AdvanceSettles DEF Sound
  <2>5. \A b \in t \ {a} : Settled(it[t], b, view)
    BY <2>2, <2>3 DEF Settled
  <2> QED BY <2>4, <2>5
<1> HIDE DEF U
<1>4. SUBSET Agents \subseteq U
  BY <1>2, <1>3, SetInduction, PlanningAssumption
<1>5. Agents \in U
  BY <1>4
<1> QED BY <1>1, <1>5 DEF U, TicksOver

\* Two services that are the same tick alike, until an agent is on the dot.
LEMMA TickedAlike ==
  ASSUME NEW view \in MapState, NEW svc, Sound(svc, view), Tidy(svc, view),
         NEW twin, Sound(twin, view), Tidy(twin, view), SameService(svc, twin, view)
  PROVE  LET s == Ticked(svc, view)
             u == Ticked(twin, view) IN
         \/ s.out = u.out /\ \A a \in Agents : Alike(s, u, a, view)
         \/ \E a \in Agents : OnTheDot(s.queries[a]) \/ OnTheDot(u.queries[a])
<1>1. PICK f : TicksOver(f, svc, view)
  BY TickedOver
<1>2. PICK g : TicksOver(g, twin, view)
  BY TickedOver
<1> DEFINE Told(t) == \E a \in t : OnTheDot(f[t].queries[a]) \/ OnTheDot(g[t].queries[a])
           U == {t \in SUBSET Agents : (f[t].out = g[t].out /\ \A a \in t : Alike(f[t], g[t], a, view)) \/ Told(t)}
<1>3. {} \in U
  BY <1>1, <1>2 DEF TicksOver, SameService
<1>4. ASSUME NEW t \in SUBSET Agents, t # {}, Topmost(t) \in t, t \ {Topmost(t)} \in U PROVE t \in U
  <2> DEFINE a == Topmost(t)
             r == t \ {Topmost(t)}
             s == f[t \ {Topmost(t)}]
             u == g[t \ {Topmost(t)}]
  <2>1. /\ a \in Agents /\ a \in t /\ r = t \ {a} /\ f[t] = Advance(s, a, view) /\ Sound(s, view)
        /\ s.queries[a] = svc.queries[a] /\ s.legs[a] = svc.legs[a]
    BY <1>1, <1>4 DEF TicksOver
  <2>2. /\ g[t] = Advance(u, a, view) /\ Sound(u, view)
        /\ u.queries[a] = twin.queries[a] /\ u.legs[a] = twin.legs[a]
    BY <1>2, <1>4 DEF TicksOver
  <2>3. \/ s.out = u.out /\ \A b \in r : Alike(s, u, b, view)
        \/ \E b \in r : OnTheDot(s.queries[b]) \/ OnTheDot(u.queries[b])
    BY <1>4
  <2> HIDE DEF a, r, s, u
  <2>4. \A b \in Agents \ {a} : f[t].queries[b] = s.queries[b] /\ f[t].legs[b] = s.legs[b]
    BY <2>1, AdvanceLeaves
  <2>5. \A b \in Agents \ {a} : g[t].queries[b] = u.queries[b] /\ g[t].legs[b] = u.legs[b]
    BY <2>1, <2>2, AdvanceLeaves
  <2>6. CASE \E b \in r : OnTheDot(s.queries[b]) \/ OnTheDot(u.queries[b])
    BY <2>1, <2>4, <2>5, <2>6
  <2>7. CASE s.out = u.out /\ \A b \in r : Alike(s, u, b, view)
    <3>1. /\ Active(s.queries[a]) => TidyQuery(s.queries[a], view)
          /\ Active(u.queries[a]) => TidyQuery(u.queries[a], view)
          /\ SameAgent(s, u, a, view)
      BY <2>1, <2>2 DEF Tidy, SameService, SameAgent
    <3>2. Alike(f[t], g[t], a, view) \/ OnTheDot(f[t].queries[a]) \/ OnTheDot(g[t].queries[a])
      BY <2>1, <2>2, <2>7, <3>1, AdvanceAlike DEF Sound
    <3>3. CASE OnTheDot(f[t].queries[a]) \/ OnTheDot(g[t].queries[a])
      BY <2>1, <3>3
    <3>4. CASE Alike(f[t], g[t], a, view)
      <4>1. f[t].out = g[t].out
        BY <3>4 DEF Alike
      <4>2. \A b \in r : Alike(f[t], g[t], b, view)
        BY <2>1, <2>4, <2>5, <2>7, <4>1 DEF Alike
      <4> QED BY <2>1, <3>4, <4>1, <4>2
    <3> QED BY <3>2, <3>3, <3>4
  <2> QED BY <2>3, <2>6, <2>7
<1> HIDE DEF U
<1>5. SUBSET Agents \subseteq U
  BY <1>3, <1>4, SetInduction, PlanningAssumption
<1>6. Agents \in U
  BY <1>5
<1> QED BY <1>1, <1>2, <1>6 DEF U, TicksOver

\* A query that has examined what changed is stale only when its graph has moved.
LEMMA SettledQuery ==
  ASSUME NEW view, MapOK(view), NEW q \in QueryState, q.carry = NoCarry, q.seen = view.version
  PROVE  /\ ChangedFor(q, view) = {} /\ ~Counts(q, view)
         /\ Stale(q, view) <=> GraphMoved(q, view)
         /\ MustRestart(q, view) <=> GraphMoved(q, view)
<1>1. \A k \in Row : view.stamp[k] <= view.version /\ view.stamp[k] \in Nat /\ view.version \in Nat
  BY DEF MapOK, MapState
<1>2. \A k \in 1..Chunks : ~(view.stamp[k] > q.seen)
  <2> TAKE k \in 1..Chunks
  <2>1. view.stamp[k] <= view.version /\ view.stamp[k] \in Nat /\ view.version \in Nat
    BY <1>1 DEF Row
  <2> QED BY <2>1
<1>3. ChangedFor(q, view) = {}
  BY <1>2 DEF ChangedFor, NoCarry
<1> QED BY <1>3 DEF Counts, Stale, MustRestart

LEMMA LegsTakenIs ==
  ASSUME NEW svc \in ServiceState
  PROVE  LET s == LegsTaken(svc)
             l == svc.legs IN
         /\ s.queries = svc.queries /\ s.out = svc.out
         /\ s.handed = [a \in Agents |-> IF l[a] = NoLegs THEN Nothing ELSE [legs |-> l[a].pending, status |-> l[a].status]]
         /\ s.legs = [a \in Agents |-> IF l[a] = NoLegs THEN NoLegs ELSE IF l[a].done THEN NoLegs
                                       ELSE [l[a] EXCEPT !.pending = <<>>]]
<1> DEFINE l == svc.legs
           handed == [a \in Agents |-> IF l[a] = NoLegs THEN Nothing ELSE [legs |-> l[a].pending, status |-> l[a].status]]
           legs == [a \in Agents |-> IF l[a] = NoLegs THEN NoLegs ELSE IF l[a].done THEN NoLegs
                                     ELSE [l[a] EXCEPT !.pending = <<>>]]
           s == LegsTaken(svc)
<1>1. s = [svc EXCEPT !.handed = handed, !.legs = legs]
  BY DEF LegsTaken
<1> HIDE DEF handed, legs, s
<1>2. s.queries = svc.queries /\ s.out = svc.out /\ s.handed = handed /\ s.legs = legs
  BY <1>1 DEF ServiceState
<1> QED BY <1>2 DEF handed, legs, s

LEMMA PlannedTidy ==
  ASSUME NEW view, MapOK(view), NEW svc, Sound(svc, view), Tidy(svc, view)
  PROVE  LET s == LegsTaken(Ticked(svc, view)) IN Tidy(s, view) /\ UpToDate(s, view)
<1> DEFINE t == Ticked(svc, view)
           s == LegsTaken(t)
<1>1. view \in MapState
  BY DEF MapOK
<1>2. Sound(t, view) /\ Examined(t) /\ \A a \in Agents : Settled(t, a, view)
  BY <1>1, TickedIsSound, TickedSettles DEF Tidy
<1> HIDE DEF t
<1>3. t \in ServiceState /\ \A a \in Agents : t.queries[a] \in QueryState \cup {NoQuery}
  BY <1>2 DEF Sound, ServiceOK, ServiceState
<1>4. /\ s.queries = t.queries
      /\ s.legs = [a \in Agents |-> IF t.legs[a] = NoLegs THEN NoLegs ELSE IF t.legs[a].done THEN NoLegs
                                    ELSE [t.legs[a] EXCEPT !.pending = <<>>]]
  BY <1>3, LegsTakenIs
<1> HIDE DEF s
<1>5. ASSUME NEW a \in Agents
      PROVE  LET q == s.queries[a] IN
             /\ Active(q) => TidyQuery(q, view) /\ q.seen = view.version
             /\ ~Active(q) => s.legs[a] = NoLegs
  <2> DEFINE q == s.queries[a]
  <2>1. q = t.queries[a] /\ Settled(t, a, view)
    BY <1>2, <1>4
  <2>2. ASSUME Active(q) PROVE TidyQuery(q, view) /\ q.seen = view.version
    <3>1. q \in QueryState /\ q.carry = NoCarry /\ q.seen = view.version /\ (~IsStrategy(q.req) => q.done = <<>>)
      BY <1>2, <1>3, <2>1, <2>2 DEF Examined, Settled, Active
    <3> HIDE DEF q
    <3> QED BY <3>1, SettledQuery DEF TidyQuery
  <2>3. ASSUME ~Active(q) PROVE s.legs[a] = NoLegs
    <3>1. t.legs[a] = NoLegs \/ t.legs[a].done
      BY <2>1, <2>3 DEF Settled
    <3> QED BY <1>4, <3>1
  <2> QED BY <2>2, <2>3
<1> QED BY <1>5 DEF Tidy, UpToDate, s, t

LEMMA PlannedAlike ==
  ASSUME NEW view, MapOK(view), NEW svc, Sound(svc, view), Tidy(svc, view),
         NEW twin, Sound(twin, view), Tidy(twin, view), SameService(svc, twin, view)
  PROVE  LET s == LegsTaken(Ticked(svc, view))
             u == LegsTaken(Ticked(twin, view)) IN
         SameService(s, u, view) \/ \E a \in Agents : OnTheDot(s.queries[a]) \/ OnTheDot(u.queries[a])
<1> DEFINE x == Ticked(svc, view)
           y == Ticked(twin, view)
           s == LegsTaken(x)
           u == LegsTaken(y)
           Handed(l) == [a \in Agents |-> IF l[a] = NoLegs THEN Nothing ELSE [legs |-> l[a].pending, status |-> l[a].status]]
           Rest(l) == [a \in Agents |-> IF l[a] = NoLegs THEN NoLegs ELSE IF l[a].done THEN NoLegs
                                        ELSE [l[a] EXCEPT !.pending = <<>>]]
<1>1. view \in MapState
  BY DEF MapOK
<1>2. /\ Sound(x, view) /\ Examined(x) /\ \A a \in Agents : Settled(x, a, view)
      /\ Sound(y, view) /\ Examined(y) /\ \A a \in Agents : Settled(y, a, view)
  BY <1>1, TickedIsSound, TickedSettles DEF Tidy
<1>3. \/ x.out = y.out /\ \A a \in Agents : Alike(x, y, a, view)
      \/ \E a \in Agents : OnTheDot(x.queries[a]) \/ OnTheDot(y.queries[a])
  BY <1>1, TickedAlike
<1> HIDE DEF x, y
<1>4. /\ x \in ServiceState /\ x.legs \in [Agents -> LegState \cup {NoLegs}]
      /\ y \in ServiceState /\ y.legs \in [Agents -> LegState \cup {NoLegs}]
      /\ \A a \in Agents : x.queries[a] \in QueryState \cup {NoQuery} /\ y.queries[a] \in QueryState \cup {NoQuery}
      /\ \A a \in Agents : AgentOK(x, a, view, FALSE) /\ AgentOK(y, a, view, FALSE)
  BY <1>2 DEF Sound, ServiceOK, ServiceState
<1>5. /\ s.queries = x.queries /\ s.out = x.out /\ s.handed = Handed(x.legs) /\ s.legs = Rest(x.legs)
      /\ u.queries = y.queries /\ u.out = y.out /\ u.handed = Handed(y.legs) /\ u.legs = Rest(y.legs)
  BY <1>4, LegsTakenIs
<1> HIDE DEF s, u, Handed, Rest
<1>6. CASE \E a \in Agents : OnTheDot(x.queries[a]) \/ OnTheDot(y.queries[a])
  BY <1>5, <1>6 DEF s, u, x, y
<1>7. CASE x.out = y.out /\ \A a \in Agents : Alike(x, y, a, view)
  <2>1. x.legs = y.legs
    BY <1>4, <1>7 DEF Alike
  <2>2. s.out = u.out /\ s.handed = u.handed /\ s.legs = u.legs
    BY <1>5, <1>7, <2>1
  <2>3. ASSUME NEW a \in Agents PROVE SameAgent(s, u, a, view)
    <3> DEFINE p == x.queries[a]
               q == y.queries[a]
    <3>1. p = s.queries[a] /\ q = u.queries[a] /\ (Active(p) <=> Active(q)) /\ (Active(p) => SameWork(p, q) /\ SameGraph(p, q, view))
      BY <1>5, <1>7 DEF Alike
    <3>2. ASSUME Active(p) PROVE SameQuery(p, q, view)
      <4>1. /\ p \in QueryState /\ UsedOK(p) /\ p.carry = NoCarry /\ p.seen = view.version
            /\ q \in QueryState /\ UsedOK(q) /\ q.carry = NoCarry /\ q.seen = view.version
        BY <1>2, <1>4, <3>1, <3>2 DEF Examined, Settled, Active, AgentOK, QueryOK
      <4>2. SameWork(p, q) /\ SameGraph(p, q, view)
        BY <3>1, <3>2
      <4> HIDE DEF p, q
      <4>3. p.usedHpa = q.usedHpa
        BY <4>1, <4>2, SameWorkFacts
      <4>4. GraphMoved(p, view) <=> GraphMoved(q, view)
        BY <4>2, <4>3 DEF GraphMoved, SameGraph
      <4>5. /\ ChangedFor(p, view) = {} /\ ~Counts(p, view) /\ (Stale(p, view) <=> GraphMoved(p, view))
            /\ ChangedFor(q, view) = {} /\ ~Counts(q, view) /\ (Stale(q, view) <=> GraphMoved(q, view))
        BY <4>1, SettledQuery
      <4> QED BY <4>2, <4>4, <4>5 DEF SameQuery
    <3> QED BY <2>2, <3>1, <3>2 DEF SameAgent
  <2>4. SameService(s, u, view)
    BY <2>2, <2>3 DEF SameService
  <2> QED BY <2>4 DEF s, u, x, y
<1> QED BY <1>3, <1>6, <1>7

(***************************************************************************)
(* What the actions and the agents do to them                              *)
(***************************************************************************)
\* A query that is submitted to both.
LEMMA SubmittedTidy ==
  ASSUME NEW a \in Agents, NEW view, MapOK(view), NEW svc, Sound(svc, view), Tidy(svc, view), UpToDate(svc, view),
         NEW id \in Nat \ {0}, NEW req \in RequestState
  PROVE  LET s == Submitted(svc, a, id, req, view) IN Tidy(s, view) /\ UpToDate(s, view)
<1> DEFINE s == Submitted(svc, a, id, req, view)
           t == s.queries[a]
<1>1. view \in MapState /\ svc \in ServiceState /\ CacheOK(svc.cache, view)
  BY DEF MapOK, Sound, ServiceOK
<1>2. HasSubmitted(s, svc, a, id, req, view)
  BY <1>1, SubmittedIs
<1> HIDE DEF s
<1>3. /\ QueryNow(t, view) /\ t # NoQuery /\ t.done = <<>> /\ t.seen = view.version
      /\ \A b \in Agents \ {a} : s.queries[b] = svc.queries[b] /\ s.legs[b] = svc.legs[b]
  BY <1>2 DEF HasSubmitted
<1>4. TidyQuery(t, view)
  <2> HIDE DEF t
  <2>1. t \in QueryState /\ t.carry = NoCarry
    BY <1>3 DEF QueryNow
  <2> QED BY <1>3, <2>1, SettledQuery DEF TidyQuery
<1>5. ASSUME NEW b \in Agents
      PROVE  LET q == s.queries[b] IN
             /\ Active(q) => TidyQuery(q, view) /\ q.seen = view.version
             /\ ~Active(q) => s.legs[b] = NoLegs
  <2>1. CASE b = a
    BY <1>3, <1>4, <2>1 DEF Active
  <2>2. CASE b # a
    BY <1>3, <2>2 DEF Tidy, UpToDate
  <2> QED BY <2>1, <2>2
<1> QED BY <1>5 DEF Tidy, UpToDate, s

LEMMA SubmittedAlike ==
  ASSUME NEW a \in Agents, NEW view, MapOK(view), NEW svc, Sound(svc, view), NEW twin, Sound(twin, view),
         SameService(svc, twin, view), NEW id \in Nat \ {0}, NEW req \in RequestState
  PROVE  SameService(Submitted(svc, a, id, req, view), Submitted(twin, a, id, req, view), view)
<1> DEFINE s == Submitted(svc, a, id, req, view)
           u == Submitted(twin, a, id, req, view)
           p == s.queries[a]
           q == u.queries[a]
<1>1. /\ view \in MapState /\ svc \in ServiceState /\ CacheOK(svc.cache, view)
      /\ twin \in ServiceState /\ CacheOK(twin.cache, view)
  BY DEF MapOK, Sound, ServiceOK
<1>2. HasSubmitted(s, svc, a, id, req, view) /\ HasSubmitted(u, twin, a, id, req, view)
  BY <1>1, SubmittedIs
<1> HIDE DEF s, u
<1>3. /\ s.out = svc.out /\ s.handed = svc.handed /\ s.legs[a] = FirstLegs(id, req) /\ p # NoQuery
      /\ \A b \in Agents \ {a} : s.queries[b] = svc.queries[b] /\ s.legs[b] = svc.legs[b]
      /\ u.out = twin.out /\ u.handed = twin.handed /\ u.legs[a] = FirstLegs(id, req) /\ q # NoQuery
      /\ \A b \in Agents \ {a} : u.queries[b] = twin.queries[b] /\ u.legs[b] = twin.legs[b]
  BY <1>2 DEF HasSubmitted
<1>4. /\ QueryNow(p, view) /\ p.seen = view.version /\ p.seenGraph = view.version
      /\ QueryNow(q, view) /\ q.seen = view.version /\ q.seenGraph = view.version
  BY <1>2 DEF HasSubmitted
<1>5. SameWork(p, q)
  BY <1>2 DEF HasSubmitted, SameWork, SameTrace
<1>6. SameQuery(p, q, view)
  <2> HIDE DEF p, q
  <2>1. p \in QueryState /\ p.carry = NoCarry /\ q \in QueryState /\ q.carry = NoCarry
    BY <1>4 DEF QueryNow
  <2>2. /\ ChangedFor(p, view) = {} /\ ~Counts(p, view) /\ ~Stale(p, view)
        /\ ChangedFor(q, view) = {} /\ ~Counts(q, view) /\ ~Stale(q, view)
    BY <1>4, <2>1, SettledQuery DEF GraphMoved
  <2> QED BY <1>4, <1>5, <2>2 DEF SameQuery, SameGraph
<1>7. ASSUME NEW b \in Agents PROVE SameAgent(s, u, b, view)
  <2>1. CASE b = a
    BY <1>3, <1>6, <2>1 DEF SameAgent, Active
  <2>2. CASE b # a
    BY <1>3, <2>2 DEF SameService, SameAgent
  <2> QED BY <2>1, <2>2
<1>8. s.out = u.out /\ s.handed = u.handed
  BY <1>3 DEF SameService
<1>9. SameService(s, u, view)
  BY <1>7, <1>8 DEF SameService
<1> QED BY <1>9 DEF s, u

\* The query is cancelled in both.
LEMMA CancelledTidy ==
  ASSUME NEW a \in Agents, NEW view, NEW svc, Sound(svc, view), Tidy(svc, view), UpToDate(svc, view)
  PROVE  LET s == Cancelled(svc, a) IN Tidy(s, view) /\ UpToDate(s, view)
<1> DEFINE s == Cancelled(svc, a)
<1>1. svc \in ServiceState
  BY DEF Sound, ServiceOK
<1>2. /\ s.queries[a] = NoQuery /\ s.legs[a] = NoLegs
      /\ \A b \in Agents \ {a} : s.queries[b] = svc.queries[b] /\ s.legs[b] = svc.legs[b]
  BY <1>1, CancelledIs
<1> HIDE DEF s
<1>3. ASSUME NEW b \in Agents
      PROVE  LET q == s.queries[b] IN
             /\ Active(q) => TidyQuery(q, view) /\ q.seen = view.version
             /\ ~Active(q) => s.legs[b] = NoLegs
  <2>1. CASE b = a
    BY <1>2, <2>1 DEF Active
  <2>2. CASE b # a
    BY <1>2, <2>2 DEF Tidy, UpToDate
  <2> QED BY <2>1, <2>2
<1> QED BY <1>3 DEF Tidy, UpToDate, s

LEMMA CancelledAlike ==
  ASSUME NEW a \in Agents, NEW view, NEW svc, Sound(svc, view), NEW twin, Sound(twin, view), SameService(svc, twin, view)
  PROVE  SameService(Cancelled(svc, a), Cancelled(twin, a), view)
<1> DEFINE s == Cancelled(svc, a)
           u == Cancelled(twin, a)
<1>1. svc \in ServiceState /\ twin \in ServiceState
  BY DEF Sound, ServiceOK
<1>2. /\ s.out = svc.out /\ s.handed = svc.handed /\ s.queries[a] = NoQuery /\ s.legs[a] = NoLegs
      /\ \A b \in Agents \ {a} : s.queries[b] = svc.queries[b] /\ s.legs[b] = svc.legs[b]
      /\ u.out = twin.out /\ u.handed = twin.handed /\ u.queries[a] = NoQuery /\ u.legs[a] = NoLegs
      /\ \A b \in Agents \ {a} : u.queries[b] = twin.queries[b] /\ u.legs[b] = twin.legs[b]
  BY <1>1, CancelledIs
<1> HIDE DEF s, u
<1>3. ASSUME NEW b \in Agents PROVE SameAgent(s, u, b, view)
  <2>1. CASE b = a
    BY <1>2, <2>1 DEF SameAgent, Active
  <2>2. CASE b # a
    BY <1>2, <2>2 DEF SameService, SameAgent
  <2> QED BY <2>1, <2>2
<1>4. s.out = u.out /\ s.handed = u.handed
  BY <1>2 DEF SameService
<1>5. SameService(s, u, view)
  BY <1>3, <1>4 DEF SameService
<1> QED BY <1>5 DEF s, u

\* The searches of a query, whatever it carries.
Own(q) == (UNION {q.done[i].reads : i \in DOMAIN q.done}) \cup ReadOf(q.search)

\* A search on the cells has read something as soon as it has something to spend.
LEMMA ReadsSome ==
  ASSUME NEW q \in QueryState, NEW m \in Content, Current(q, m), q.search # NoSearch
  PROVE  ReadOf(q.search) = {} <=> q.search.spec.alg = "hpa" \/ CapOf(q.req, Left(q), q.done) <= 0
<1> DEFINE s == q.search
           spec == q.search.spec
           cap == CapOf(q.req, Left(q), q.done)
           cold == ColdEnd(q.req, Left(q), q.done, m)
<1>1. /\ s \in SearchState /\ spec \in SpecState /\ spec = NextSearch(q.req, q.done).spec /\ SearchFits(q, m)
      /\ NextSearch(q.req, q.done) # NoSpec /\ spec.alg \in {"grid", "hpa"} /\ s.charged \in Nat
  BY DEF Current, SearchFits, SearchState, SpecState
<1>2. q.req \in RequestState /\ Left(q) \in Int /\ q.done \in Seq(DoneState)
  BY QueryFacts
<1>3. (cap <= 0 => cold = Synthesized) /\ (cap > 0 => cold = Run(m, spec, cap)) /\ cap \in Int
  BY <1>1, <1>2, ColdEndFacts, CapFacts
<1>4. /\ s.hit = NoHit => cap > 0 /\ s.seen = SeenBy(m, spec, s.charged)
      /\ s.hit # NoHit => s.hit.reads = cold.reads
  BY <1>1 DEF SearchFits, SameEnd
<1>5. ASSUME NEW n \in Nat PROVE ReadAfter(m, spec, n) # {}
  <2>1. spec.from \in spec.from..LastRead(m, spec) /\ CostBefore(m, spec, spec.from) = 0
    <3>1. spec.from \in Nat /\ LastRead(m, spec) \in spec.from..spec.to
      BY <1>1, SpecFacts, StopFacts
    <3>2. CostBefore(m, spec, spec.from) = 0
      BY <1>1, CostSteps
    <3> QED BY <3>1, <3>2
  <2> HIDE DEF spec
  <2>2. spec.from \in ReadAfter(m, spec, n)
    BY <2>1 DEF ReadAfter
  <2> QED BY <2>2
<1> SUFFICES ReadOf(s) = {} <=> spec.alg = "hpa" \/ cap <= 0
  OBVIOUS
<1> HIDE DEF cap, cold
<1>6. CASE s.hit = NoHit
  <2>1. spec.alg = "hpa" => ReadOf(s) = {}
    BY <1>6 DEF ReadOf
  <2>2. spec.alg = "grid" => ReadOf(s) = ReadAfter(m, spec, s.charged)
    BY <1>1, <1>4, <1>6, SeenFacts DEF ReadOf
  <2>3. spec.alg = "grid" => ReadOf(s) # {}
    BY <1>1, <1>5, <2>2
  <2>4. ~(cap <= 0)
    BY <1>3, <1>4, <1>6
  <2> QED BY <1>1, <2>1, <2>3, <2>4
<1>7. CASE s.hit # NoHit
  <2>1. ReadOf(s) = cold.reads
    BY <1>4, <1>7 DEF ReadOf
  <2>2. CASE cap <= 0
    BY <1>3, <2>1, <2>2 DEF Synthesized
  <2>3. CASE cap > 0
    <3>1. cap \in Nat /\ cold = Run(m, spec, cap) /\ Length(m, spec) \in Nat
      BY <1>1, <1>3, <2>3, StopFacts
    <3>2. PICK n \in Nat : n = Least(Length(m, spec), cap)
      BY <3>1 DEF Least
    <3>3. cold.reads = IF spec.alg = "hpa" THEN {} ELSE ReadAfter(m, spec, n)
      BY <3>1, <3>2 DEF Run, SearchEnd
    <3>4. ReadAfter(m, spec, n) # {}
      BY <1>5
    <3>5. ~(cap <= 0)
      BY <1>3, <2>3
    <3> QED BY <2>1, <3>3, <3>4, <3>5
  <2> QED BY <1>3, <2>2, <2>3
<1> QED BY <1>6, <1>7

\* Queries that have done the same work have both read something or nothing.
LEMMA OwnAlike ==
  ASSUME NEW p \in QueryState, NEW q \in QueryState, SameWork(p, q), NEW m \in Content, Current(p, m), Current(q, m)
  PROVE  Own(p) = {} <=> Own(q) = {}
<1>1. /\ p.done \in Seq(DoneState) /\ q.done \in Seq(DoneState) /\ Len(p.done) = Len(q.done)
      /\ p.req = q.req /\ Left(p) = Left(q)
      /\ NextSearch(p.req, p.done) = NextSearch(q.req, q.done)
      /\ CapOf(p.req, Left(p), p.done) = CapOf(q.req, Left(q), q.done)
      /\ (p.search = NoSearch <=> q.search = NoSearch)
  BY SameWorkFacts, QueryFacts DEF SameWork
<1>2. Agree(p.done, q.done)
  BY <1>1, ColdUnique DEF Current
<1>3. UNION {p.done[i].reads : i \in DOMAIN p.done} = UNION {q.done[i].reads : i \in DOMAIN q.done}
  <2>1. DOMAIN p.done = 1..Len(p.done) /\ DOMAIN q.done = 1..Len(p.done)
    BY <1>1
  <2>2. \A i \in DOMAIN p.done : p.done[i].reads = q.done[i].reads
    BY <1>2, <2>1 DEF Agree, SameEnd
  <2> QED BY <2>1, <2>2
<1>4. ReadOf(p.search) = {} <=> ReadOf(q.search) = {}
  <2>1. CASE p.search = NoSearch
    BY <1>1, <2>1
  <2>2. CASE p.search # NoSearch
    <3>1. p.search.spec = q.search.spec
      BY <1>1, <2>2 DEF Current, SearchFits
    <3>2. ReadOf(p.search) = {} <=> p.search.spec.alg = "hpa" \/ CapOf(p.req, Left(p), p.done) <= 0
      BY <2>2, ReadsSome
    <3>3. ReadOf(q.search) = {} <=> q.search.spec.alg = "hpa" \/ CapOf(q.req, Left(q), q.done) <= 0
      BY <1>1, <2>2, ReadsSome
    <3> QED BY <1>1, <3>1, <3>2, <3>3
  <2> QED BY <2>1, <2>2
<1> QED BY <1>3, <1>4 DEF Own

\* What a query that has examined the map makes of the next change.
Moved(q, o, k) ==
  /\ ChangedFor(q, o) = {k} /\ q.seenGraph # o.version /\ (GraphMoved(q, o) <=> q.usedHpa)
  /\ (Stale(q, o) <=> q.usedHpa \/ k \in ReadByQuery(q)) /\ (MustRestart(q, o) <=> Stale(q, o))
  /\ (Counts(q, o) <=> ~Stale(q, o) /\ ReadByQuery(q) # {}) /\ ReadByQuery(q) = Own(q)
LEMMA QueryMoved ==
  ASSUME NEW view, MapOK(view), NEW k \in Row, NEW t \in Nat, NEW q, QueryOK(q, view), q.carry = NoCarry, q.seen = view.version
  PROVE  Moved(q, Changed(view, k, t), k)
<1> DEFINE o == Changed(view, k, t)
           v == view.version
<1>1. v \in Nat /\ o.version = v + 1
  BY ChangedFacts
<1>2. o.stamp[k] = v + 1 /\ \A j \in Row \ {k} : o.stamp[j] = view.stamp[j]
  BY DEF Changed, MapOK, MapState
<1>3. \A j \in Row : view.stamp[j] \in Nat /\ view.stamp[j] <= v
  BY DEF MapOK, MapState
<1>4. q \in QueryState /\ q.seenGraph <= v /\ q.seenGraph \in Int /\ q.usedHpa \in BOOLEAN
  BY DEF QueryOK, QueryState
<1> HIDE DEF o, v
<1>5. ChangedFor(q, o) = {k}
  <2>1. q.carry.chunks = {} /\ q.seen = v
    BY DEF NoCarry, v
  <2>2. \A j \in Row : o.stamp[j] > v <=> j = k
    <3> TAKE j \in Row
    <3>1. CASE j = k
      BY <1>1, <1>2, <3>1
    <3>2. CASE j # k
      <4>1. o.stamp[j] = view.stamp[j] /\ view.stamp[j] \in Nat /\ view.stamp[j] <= v
        BY <1>2, <1>3, <3>2
      <4> QED BY <1>1, <3>2, <4>1
    <3> QED BY <3>1, <3>2
  <2>3. {j \in Row : o.stamp[j] > v} = {k}
    BY <2>2
  <2> QED BY <2>1, <2>3 DEF ChangedFor, Row
<1>6. q.seenGraph # o.version
  BY <1>1, <1>4
<1>7. GraphMoved(q, o) <=> q.usedHpa
  BY <1>4, <1>6 DEF GraphMoved
<1>8. Stale(q, o) <=> q.usedHpa \/ k \in ReadByQuery(q)
  BY <1>5, <1>7 DEF Stale
<1>9. MustRestart(q, o) <=> Stale(q, o)
  BY <1>5, <1>7, <1>8 DEF MustRestart
<1>10. Counts(q, o) <=> ~Stale(q, o) /\ ReadByQuery(q) # {}
  BY <1>5 DEF Counts
<1>11. ReadByQuery(q) = Own(q)
  BY DEF ReadByQuery, Own, NoCarry
<1>12. Moved(q, o, k)
  BY <1>5, <1>6, <1>7, <1>8, <1>9, <1>10, <1>11 DEF Moved
<1> QED BY <1>12 DEF o

LEMMA MovedAlike ==
  ASSUME NEW view, MapOK(view), NEW k \in Row, NEW t \in Nat,
         NEW p, QueryOK(p, view), p.carry = NoCarry, p.seen = view.version,
         NEW q, QueryOK(q, view), q.carry = NoCarry, q.seen = view.version,
         SameWork(p, q), k \in ReadByQuery(p) <=> k \in ReadByQuery(q)
  PROVE  SameQuery(p, q, Changed(view, k, t))
<1> DEFINE o == Changed(view, k, t)
<1>1. Moved(p, o, k) /\ Moved(q, o, k)
  BY QueryMoved
<1> HIDE DEF o
<1>2. p \in QueryState /\ UsedOK(p) /\ q \in QueryState /\ UsedOK(q) /\ p.usedHpa \in BOOLEAN /\ q.usedHpa \in BOOLEAN
  BY QueryFacts DEF QueryOK
<1>3. p.usedHpa = q.usedHpa
  BY <1>2, SameWorkFacts
<1>4. Stale(p, o) <=> Stale(q, o)
  BY <1>1, <1>3 DEF Moved
<1>5. Counts(p, o) <=> Counts(q, o)
  <2>1. CASE p.usedHpa
    BY <1>1, <1>3, <2>1 DEF Moved
  <2>2. CASE ~p.usedHpa
    <3>1. ~Stale(p, view) /\ ~Stale(q, view)
      BY <1>2, <1>3, <2>2, SettledQuery DEF GraphMoved
    <3>2. Current(p, view.content) /\ Current(q, view.content) /\ view.content \in Content
      BY <3>1 DEF QueryOK, MapOK, MapState
    <3>3. Own(p) = {} <=> Own(q) = {}
      BY <1>2, <3>2, OwnAlike
    <3> QED BY <1>1, <1>4, <3>3 DEF Moved
  <2> QED BY <2>1, <2>2
<1>6. SameGraph(p, q, o) /\ ChangedFor(p, o) = ChangedFor(q, o)
  BY <1>1 DEF Moved, SameGraph
<1>7. SameQuery(p, q, o)
  BY <1>4, <1>5, <1>6 DEF SameQuery
<1> QED BY <1>7 DEF o

\* The agents have sensed.
LEMMA SensedTidy ==
  ASSUME NEW view, MapOK(view), NEW svc, Sound(svc, view), Examined(svc), Tidy(svc, view), UpToDate(svc, view),
         NEW o, o = view \/ \E k \in Row, t \in Nat : o = Changed(view, k, t)
  PROVE  Tidy(Emptied(svc), o)
<1> DEFINE s == Emptied(svc)
<1>1. svc \in ServiceState
  BY DEF Sound, ServiceOK
<1>2. s.queries = svc.queries /\ s.legs = svc.legs
  BY <1>1, EmptiedIs
<1> HIDE DEF s
<1>3. CASE o = view
  BY <1>2, <1>3 DEF Tidy, s
<1>4. ASSUME NEW k \in Row, NEW t \in Nat, o = Changed(view, k, t) PROVE Tidy(s, o)
  <2>1. ASSUME NEW a \in Agents, Active(s.queries[a]) PROVE TidyQuery(s.queries[a], o)
    <3> DEFINE q == svc.queries[a]
    <3>1. q = s.queries[a] /\ QueryOK(q, view) /\ q.carry = NoCarry /\ q.seen = view.version /\ TidyQuery(q, view)
      BY <1>2, <2>1 DEF Sound, ServiceOK, AgentOK, Examined, Tidy, UpToDate
    <3> HIDE DEF q
    <3>2. Moved(q, o, k)
      BY <1>4, <3>1, QueryMoved
    <3>3. TidyQuery(q, o)
      BY <3>1, <3>2 DEF TidyQuery, Moved
    <3> QED BY <3>1, <3>3
  <2> QED BY <1>2, <2>1 DEF Tidy
<1> QED BY <1>3, <1>4 DEF s

LEMMA SensedAlike ==
  ASSUME NEW view, MapOK(view), NEW svc, Sound(svc, view), Examined(svc), UpToDate(svc, view),
         NEW twin, Sound(twin, view), Examined(twin), UpToDate(twin, view), SameService(svc, twin, view),
         NEW k \in Row, NEW t \in Nat,
         \A a \in Agents : Active(svc.queries[a]) /\ Active(twin.queries[a]) =>
                             (k \in ReadByQuery(svc.queries[a]) <=> k \in ReadByQuery(twin.queries[a]))
  PROVE  SameService(Emptied(svc), Emptied(twin), Changed(view, k, t))
<1> DEFINE s == Emptied(svc)
           u == Emptied(twin)
           o == Changed(view, k, t)
<1>1. svc \in ServiceState /\ twin \in ServiceState
  BY DEF Sound, ServiceOK
<1>2. /\ s.queries = svc.queries /\ s.legs = svc.legs /\ s.out = u.out /\ s.handed = u.handed
      /\ u.queries = twin.queries /\ u.legs = twin.legs
  BY <1>1, EmptiedIs
<1>3. ASSUME NEW a \in Agents PROVE SameAgent(s, u, a, o)
  <2> DEFINE p == svc.queries[a]
             q == twin.queries[a]
  <2>1. svc.legs[a] = twin.legs[a] /\ (Active(p) <=> Active(q)) /\ (Active(p) => SameQuery(p, q, view))
    BY DEF SameService, SameAgent
  <2>2. ASSUME Active(p) PROVE SameQuery(p, q, o)
    <3>1. /\ QueryOK(p, view) /\ p.carry = NoCarry /\ p.seen = view.version
          /\ QueryOK(q, view) /\ q.carry = NoCarry /\ q.seen = view.version
          /\ SameWork(p, q) /\ (k \in ReadByQuery(p) <=> k \in ReadByQuery(q))
      BY <2>1, <2>2 DEF Sound, ServiceOK, AgentOK, Examined, UpToDate, SameQuery
    <3> HIDE DEF p, q, o
    <3> QED BY <3>1, MovedAlike DEF o
  <2> HIDE DEF s, u, o
  <2> QED BY <1>2, <2>1, <2>2 DEF SameAgent
<1> HIDE DEF s, u, o
<1>4. SameService(s, u, o)
  BY <1>2, <1>3 DEF SameService
<1> QED BY <1>4 DEF s, u, o

LEMMA EmptiedAlike ==
  ASSUME NEW view, NEW svc \in ServiceState, NEW twin \in ServiceState, SameService(svc, twin, view)
  PROVE  SameService(Emptied(svc), Emptied(twin), view)
<1> DEFINE s == Emptied(svc)
           u == Emptied(twin)
<1>1. /\ s.queries = svc.queries /\ s.legs = svc.legs /\ s.out = u.out /\ s.handed = u.handed
      /\ u.queries = twin.queries /\ u.legs = twin.legs
  BY EmptiedIs
<1> HIDE DEF s, u
<1>2. SameService(s, u, view)
  BY <1>1 DEF SameService, SameAgent
<1> QED BY <1>2 DEF s, u

(***************************************************************************)
(* A service that is restored                                              *)
(***************************************************************************)
\* A search that is run again has read no more than the one it stands for.
LEMMA ReadsWithin ==
  ASSUME NEW p \in QueryState, NEW q \in QueryState, SameWork(p, q), NEW m \in Content, Current(p, m), Current(q, m),
         p.search.hit # NoHit => p.search.cap <= 0
  PROVE  Own(p) \subseteq Own(q)
<1> DEFINE s == p.search
           u == q.search
           spec == p.search.spec
           cap == CapOf(p.req, Left(p), p.done)
           cold == ColdEnd(p.req, Left(p), p.done, m)
<1>1. /\ p.done \in Seq(DoneState) /\ q.done \in Seq(DoneState) /\ Len(p.done) = Len(q.done)
      /\ p.req \in RequestState /\ Left(p) \in Int
      /\ p.req = q.req /\ Left(p) = Left(q)
      /\ NextSearch(p.req, p.done) = NextSearch(q.req, q.done)
      /\ cap = CapOf(q.req, Left(q), q.done) /\ cold = ColdEnd(q.req, Left(q), q.done, m)
      /\ (s = NoSearch <=> u = NoSearch) /\ s.charged = u.charged
  BY SameWorkFacts, QueryFacts DEF SameWork
<1>2. Agree(p.done, q.done)
  BY <1>1, ColdUnique DEF Current
<1>3. UNION {p.done[i].reads : i \in DOMAIN p.done} = UNION {q.done[i].reads : i \in DOMAIN q.done}
  <2>1. DOMAIN p.done = 1..Len(p.done) /\ DOMAIN q.done = 1..Len(p.done)
    BY <1>1
  <2>2. \A i \in DOMAIN p.done : p.done[i].reads = q.done[i].reads
    BY <1>2, <2>1 DEF Agree, SameEnd
  <2> QED BY <2>1, <2>2
<1>4. ReadOf(s) \subseteq ReadOf(u)
  <2>1. CASE s = NoSearch
    BY <1>1, <2>1
  <2>2. CASE s # NoSearch
    <3>1. /\ spec = u.spec /\ spec \in SpecState /\ spec = NextSearch(p.req, p.done).spec /\ NextSearch(p.req, p.done) # NoSpec
          /\ s.cap = cap /\ s.charged \in Nat /\ s.charged <= cold.expansions
          /\ s.hit = NoHit => cap > 0 /\ s.seen = SeenBy(m, spec, s.charged)
          /\ s.hit # NoHit => s.hit.reads = cold.reads
          /\ u.hit = NoHit => u.seen = SeenBy(m, spec, s.charged)
          /\ u.hit # NoHit => u.hit.reads = cold.reads
      BY <1>1, <2>2 DEF Current, SearchFits, SearchState, SameEnd
    <3>2. cap <= 0 => cold.reads = {}
      BY DEF ColdEnd, Synthesized
    <3>3. cap \in Int /\ (cap > 0 => cold = Run(m, spec, cap))
      BY <1>1, <3>1, ColdEndFacts, CapFacts
    <3> HIDE DEF cap, cold
    <3>4. CASE s.hit # NoHit
      BY <3>1, <3>2, <3>4 DEF ReadOf
    <3>5. CASE s.hit = NoHit /\ u.hit = NoHit
      <4>1. s.seen = u.seen /\ s.spec = u.spec
        BY <3>1, <3>5
      <4> QED BY <3>5, <4>1 DEF ReadOf
    <3>6. CASE s.hit = NoHit /\ u.hit # NoHit
      <4>1. CASE spec.alg # "grid"
        BY <3>6, <4>1 DEF ReadOf
      <4>2. CASE spec.alg = "grid"
        <5>1. cap \in Nat /\ cold = Run(m, spec, cap) /\ Length(m, spec) \in Nat
          BY <3>1, <3>3, <3>6, StopFacts
        <5>2. PICK n \in Nat : n = Least(Length(m, spec), cap)
          BY <5>1 DEF Least
        <5>3. cold.reads = ReadAfter(m, spec, n) /\ s.charged <= n
          BY <3>1, <4>2, <5>1, <5>2 DEF Run, SearchEnd
        <5>4. ReadOf(s) = ReadAfter(m, spec, s.charged)
          BY <3>1, <3>6, <4>2, SeenFacts DEF ReadOf
        <5>5. ReadAfter(m, spec, s.charged) \subseteq ReadAfter(m, spec, n)
          <6>1. \A k \in spec.from..LastRead(m, spec) : CostBefore(m, spec, k) \in Nat
            <7>1. LastRead(m, spec) \in spec.from..spec.to /\ spec.from \in Nat /\ spec.to \in Nat
              BY <3>1, StopFacts, SpecFacts
            <7>2. \A k \in spec.from..LastRead(m, spec) : k \in spec.from..(spec.to + 1)
              BY <7>1
            <7> HIDE DEF spec
            <7> QED BY <3>1, <7>2, CostSteps
          <6>2. PICK c \in Nat : c = s.charged
            BY <3>1
          <6>3. c <= n
            BY <5>3, <6>2
          <6>4. \A k \in spec.from..LastRead(m, spec) : CostBefore(m, spec, k) <= c => CostBefore(m, spec, k) <= n
            BY <6>1, <6>3
          <6> QED BY <6>2, <6>4 DEF ReadAfter
        <5> QED BY <3>1, <3>6, <5>3, <5>4, <5>5 DEF ReadOf
      <4> QED BY <4>1, <4>2
    <3> QED BY <3>4, <3>5, <3>6
  <2> QED BY <2>1, <2>2
<1> QED BY <1>3, <1>4 DEF Own

\* It has seen the changes that the other had.
LEMMA ResumesSees ==
  ASSUME NEW view, MapOK(view), NEW q, QueryOK(q, view), NEW r, Resumes(r, q, view)
  PROVE  /\ ChangedFor(r, view) = ChangedFor(q, view) /\ SameGraph(r, q, view)
         /\ (GraphMoved(r, view) <=> GraphMoved(q, view)) /\ (Stale(r, view) <=> Stale(q, view))
         /\ ChangedFor(q, view) # {} => r.carry.read = IF q.carry = NoCarry THEN ReadByQuery(q) ELSE q.carry.read
<1>1. view \in MapState /\ q \in QueryState /\ \A k \in Row : view.stamp[k] \in Nat /\ view.stamp[k] <= view.version
  BY DEF MapOK, MapState, QueryOK
<1>2. /\ r.carry = Carried(q, view) /\ r.seen = view.version /\ (r.seenGraph = view.version <=> q.seenGraph = view.version)
      /\ r.usedHpa = q.usedHpa
  BY DEF Resumes
<1> DEFINE chunks == ChangedFor(q, view)
<1>3. /\ (chunks = {} => r.carry = NoCarry)
      /\ chunks # {} => /\ r.carry # NoCarry /\ r.carry.chunks = chunks
                        /\ r.carry.read = IF q.carry = NoCarry THEN ReadByQuery(q) ELSE q.carry.read
  BY <1>1, <1>2, CarriedFits
<1>4. view.version \in Nat
  BY <1>1 DEF MapState
<1>5. {k \in Row : view.stamp[k] > r.seen} = {}
  BY <1>1, <1>2, <1>4
<1>6. ChangedFor(r, view) = r.carry.chunks
  BY <1>5 DEF ChangedFor, Row
<1> HIDE DEF chunks
<1>7. ChangedFor(r, view) = chunks
  BY <1>3, <1>6 DEF NoCarry
<1>8. GraphMoved(r, view) <=> GraphMoved(q, view)
  BY <1>2 DEF GraphMoved
<1>9. Stale(r, view) <=> Stale(q, view)
  <2>1. CASE chunks = {}
    BY <1>7, <1>8, <2>1 DEF Stale, chunks
  <2>2. CASE chunks # {}
    BY <1>3, <1>7, <1>8, <2>2 DEF Stale, chunks
  <2> QED BY <2>1, <2>2
<1> QED BY <1>2, <1>3, <1>7, <1>8, <1>9 DEF SameGraph, chunks

\* It has done the same work, if the other had missed nothing or has completed no search.
LEMMA ResumesAlike ==
  ASSUME NEW view, MapOK(view), NEW q, QueryOK(q, view), Reproduces(q, view), NEW r, Resumes(r, q, view),
         ~Stale(q, view) \/ (~IsStrategy(q.req) /\ q.done = <<>>)
  PROVE  SameWork(r, q)
<1>1. q \in QueryState /\ r \in QueryState /\ view \in MapState /\ q.done \in Seq(DoneState) /\ r.done \in Seq(DoneState)
  BY QueryFacts DEF QueryOK, MapOK, Resumes
<1>2. r.done = Replayed(q, view).done /\ Len(r.done) = Len(q.done)
  BY DEF Resumes, Reproduces
<1>3. r.search.charged = q.search.charged
  BY DEF Resumes
<1>4. SameTrace(r.done, q.done)
  <2>1. CASE ~Stale(q, view)
    <3>1. ColdDone(q.req, Left(q), q.done, view.content)
      BY <2>1 DEF QueryOK, Current
    <3>2. Agree(r.done, q.done) /\ \A i \in 1..Len(q.done) : r.done[i].ended = q.done[i].ended
      BY <1>1, <1>2, <3>1, ReplayedAlike
    <3> QED BY <1>1, <1>2, <3>2 DEF SameTrace, Agree, SameEnd
  <2>2. CASE q.done = <<>>
    BY <1>1, <1>2, <2>2 DEF SameTrace
  <2> QED BY <2>1, <2>2
<1> QED BY <1>3, <1>4 DEF SameWork, Resumes

\* What it has read, of what has changed, the other had read.
LEMMA ResumesReads ==
  ASSUME NEW view, MapOK(view), NEW q, QueryOK(q, view), Reproduces(q, view), NEW r, Resumes(r, q, view), ~Stale(q, view)
  PROVE  Own(r) \subseteq Own(q) /\ (Own(r) = {} <=> Own(q) = {})
<1>1. q \in QueryState /\ r \in QueryState /\ view.content \in Content /\ QueryOK(r, view)
  BY DEF QueryOK, MapOK, MapState, Resumes
<1>2. ~Stale(r, view)
  BY ResumesSees
<1>3. Current(q, view.content) /\ Current(r, view.content)
  BY <1>1, <1>2 DEF QueryOK
<1>4. SameWork(r, q)
  BY ResumesAlike
<1>5. r.search.hit # NoHit => r.search.cap <= 0
  BY DEF Resumes
<1> QED BY <1>1, <1>3, <1>4, <1>5, ReadsWithin, OwnAlike

LEMMA ReadsAre == \A q : ReadByQuery(q) = Own(q) \cup q.carry.read
BY DEF ReadByQuery, Own

LEMMA ResumesTidy ==
  ASSUME NEW view, MapOK(view), NEW q, QueryOK(q, view), TidyQuery(q, view), Reproduces(q, view), NEW r, Resumes(r, q, view)
  PROVE  TidyQuery(r, view)
<1>1. r.req = q.req /\ Len(r.done) = Len(q.done)
  BY DEF Resumes, Reproduces
<1>2. ASSUME ~IsStrategy(r.req) PROVE r.done = <<>>
  <2>1. q.done = <<>> /\ r.done \in Seq(DoneState)
    BY <1>1, <1>2, QueryFacts DEF TidyQuery, QueryOK, Resumes
  <2> QED BY <1>1, <2>1
<1>3. ASSUME ~Stale(r, view) PROVE ~MustRestart(r, view)
  <2>1. /\ ChangedFor(r, view) = ChangedFor(q, view) /\ (GraphMoved(r, view) <=> GraphMoved(q, view)) /\ ~Stale(q, view)
        /\ ChangedFor(q, view) # {} => r.carry.read = IF q.carry = NoCarry THEN ReadByQuery(q) ELSE q.carry.read
    BY <1>3, ResumesSees
  <2>2. Own(r) \subseteq Own(q)
    BY <2>1, ResumesReads
  <2>3. ~GraphMoved(q, view) /\ ChangedFor(q, view) \cap ReadByQuery(q) = {}
    BY <2>1 DEF TidyQuery, MustRestart
  <2>4. CASE ChangedFor(q, view) = {}
    BY <2>1, <2>3, <2>4 DEF MustRestart
  <2>5. CASE ChangedFor(q, view) # {}
    <3>1. r.carry.read \subseteq ReadByQuery(q) /\ Own(r) \subseteq ReadByQuery(q)
      BY <2>1, <2>2, <2>5, ReadsAre
    <3>2. ReadByQuery(r) \subseteq ReadByQuery(q)
      BY <3>1, ReadsAre
    <3> QED BY <2>1, <2>3, <3>2 DEF MustRestart
  <2> QED BY <2>4, <2>5
<1> QED BY <1>2, <1>3 DEF TidyQuery

\* A strategy that has not been disturbed is found where it was.
LEMMA ReproducesWell ==
  ASSUME NEW view, MapOK(view), NEW q, QueryOK(q, view), TidyQuery(q, view), IsStrategy(q.req) => ~MustRestart(q, view)
  PROVE  Reproduces(q, view)
<1> DEFINE r == Replayed(q, view)
<1>1. q \in QueryState /\ view \in MapState
  BY DEF QueryOK, MapOK
<1>2. r \in QueryState /\ SameRequest(r, q) /\ q.done \in Seq(DoneState) /\ r.done \in Seq(DoneState) /\ q.req \in RequestState
  BY <1>1, ReplayedFits, QueryFacts DEF ReplayOK
<1>3. ColdDone(q.req, Left(q), q.done, view.content) /\ NextSearch(q.req, q.done) # NoSpec
  <2>1. CASE IsStrategy(q.req)
    <3>1. ~Stale(q, view)
      BY <2>1, StaleRestarts
    <3> QED BY <3>1 DEF QueryOK, Current
  <2>2. CASE ~IsStrategy(q.req)
    <3>1. q.done = <<>>
      BY <2>2 DEF TidyQuery
    <3> QED BY <1>2, <3>1, ColdNone, FirstSearch
  <2> QED BY <2>1, <2>2
<1>4. Agree(r.done, q.done)
  BY <1>1, <1>3, ReplayedAlike
<1> HIDE DEF r
<1>5. NextSearch(r.req, r.done) # NoSpec
  BY <1>2, <1>3, <1>4, AgreeFacts DEF SameRequest
<1>6. DOMAIN q.done = 1..Len(q.done) /\ DOMAIN r.done = 1..Len(q.done) /\ Len(r.done) = Len(q.done)
  BY <1>2, <1>4 DEF Agree
<1>7. \A i \in 1..Len(q.done) : r.done[i].expansions = q.done[i].expansions /\ r.done[i].status = q.done[i].status
  BY <1>4, <1>6 DEF Agree, SameEnd
<1> DEFINE Legs(d) == {i \in DOMAIN d : q.req.kind = "refine" /\ i > 1 /\ d[i].status = "found"}
<1>8. Legs(r.done) = Legs(q.done)
  BY <1>6, <1>7
<1> QED BY <1>5, <1>6, <1>7, <1>8 DEF Reproduces, r

LEMMA QueryRestoredAlike ==
  ASSUME NEW view, MapOK(view), NEW q, QueryOK(q, view), TidyQuery(q, view), IsStrategy(q.req) => ~MustRestart(q, view)
  PROVE  SameQuery(QueryRestored(q, view), q, view)
<1> DEFINE r == QueryRestored(q, view)
<1>1. Reproduces(q, view) /\ Resumes(r, q, view)
  BY ReproducesWell, QueryRestoredIs
<1> HIDE DEF r
<1>2. /\ ChangedFor(r, view) = ChangedFor(q, view) /\ SameGraph(r, q, view) /\ (Stale(r, view) <=> Stale(q, view))
      /\ ChangedFor(q, view) # {} => r.carry.read = IF q.carry = NoCarry THEN ReadByQuery(q) ELSE q.carry.read
  BY <1>1, ResumesSees
<1>3. SameWork(r, q)
  BY <1>1, ResumesAlike, StaleRestarts DEF TidyQuery
<1>4. Counts(r, view) <=> Counts(q, view)
  <2>1. CASE Stale(q, view) \/ ChangedFor(q, view) = {}
    BY <1>2, <2>1 DEF Counts
  <2>2. CASE ~Stale(q, view) /\ ChangedFor(q, view) # {}
    <3>1. Own(r) \subseteq Own(q) /\ (Own(r) = {} <=> Own(q) = {})
      BY <1>1, <2>2, ResumesReads
    <3>2. ReadByQuery(r) = {} <=> ReadByQuery(q) = {}
      <4>1. CASE q.carry = NoCarry
        <5>1. r.carry.read = ReadByQuery(q) /\ q.carry.read = {}
          BY <1>2, <2>2, <4>1 DEF NoCarry
        <5> QED BY <3>1, <5>1, ReadsAre
      <4>2. CASE q.carry # NoCarry
        <5>1. r.carry.read = q.carry.read
          BY <1>2, <2>2, <4>2
        <5> QED BY <3>1, <5>1, ReadsAre
      <4> QED BY <4>1, <4>2
    <3> QED BY <1>2, <2>2, <3>2 DEF Counts
  <2> QED BY <2>1, <2>2
<1>5. SameQuery(r, q, view)
  BY <1>2, <1>3, <1>4 DEF SameQuery
<1> QED BY <1>5 DEF r

LEMMA RestoredIs ==
  ASSUME NEW svc, NEW view
  PROVE  LET s == Restored(svc, view) IN
         /\ s.out = <<>> /\ s.handed = [a \in Agents |-> Nothing]
         /\ \A a \in Agents : /\ Active(svc.queries[a]) => /\ s.queries[a] = QueryRestored(svc.queries[a], view)
                                                           /\ s.legs[a] = svc.legs[a]
                              /\ ~Active(svc.queries[a]) => s.queries[a] = NoQuery /\ s.legs[a] = NoLegs
<1> DEFINE queries == [a \in Agents |-> IF Active(svc.queries[a]) THEN QueryRestored(svc.queries[a], view) ELSE NoQuery]
           legs == [a \in Agents |-> IF Active(svc.queries[a]) THEN svc.legs[a] ELSE NoLegs]
           s == Restored(svc, view)
<1>1. s = [NewService(svc.caching) EXCEPT !.queries = queries, !.legs = legs]
  BY DEF Restored
<1>2. \A a \in Agents : /\ Active(svc.queries[a]) => queries[a] = QueryRestored(svc.queries[a], view) /\ legs[a] = svc.legs[a]
                        /\ ~Active(svc.queries[a]) => queries[a] = NoQuery /\ legs[a] = NoLegs
  OBVIOUS
<1> HIDE DEF queries, legs, s
<1>3. s.queries = queries /\ s.legs = legs /\ s.out = <<>> /\ s.handed = [a \in Agents |-> Nothing]
  BY <1>1 DEF NewService
<1> QED BY <1>2, <1>3 DEF s

LEMMA RestoredTidy ==
  ASSUME NEW view, MapOK(view), NEW svc, Sound(svc, view), Tidy(svc, view), Restorable(svc, view)
  PROVE  Tidy(Restored(svc, view), view)
<1> DEFINE s == Restored(svc, view)
<1>1. ASSUME NEW a \in Agents
      PROVE  (Active(s.queries[a]) => TidyQuery(s.queries[a], view)) /\ (~Active(s.queries[a]) => s.legs[a] = NoLegs)
  <2> DEFINE q == svc.queries[a]
             r == s.queries[a]
  <2>1. (Active(q) => r = QueryRestored(q, view)) /\ (~Active(q) => r = NoQuery /\ s.legs[a] = NoLegs)
    BY RestoredIs
  <2> HIDE DEF s, r
  <2>2. CASE Active(q)
    <3>1. QueryOK(q, view) /\ TidyQuery(q, view) /\ Reproduces(q, view)
      BY <2>2 DEF Sound, ServiceOK, AgentOK, Tidy, Restorable
    <3> HIDE DEF q
    <3>2. Resumes(r, q, view)
      BY <2>1, <2>2, <3>1, QueryRestoredIs
    <3>3. TidyQuery(r, view) /\ Active(r)
      BY <3>1, <3>2, ResumesTidy DEF Resumes, Active
    <3> QED BY <3>3 DEF r
  <2>3. CASE ~Active(q)
    BY <2>1, <2>3 DEF Active, r
  <2> QED BY <2>2, <2>3
<1> QED BY <1>1 DEF Tidy, s

LEMMA RestoredAlike ==
  ASSUME NEW view, MapOK(view), NEW svc, Sound(svc, view), Tidy(svc, view), Quiet(svc),
         \A a \in Agents : LET q == svc.queries[a] IN Active(q) /\ IsStrategy(q.req) => ~MustRestart(q, view)
  PROVE  Restorable(svc, view) /\ SameService(Restored(svc, view), svc, view)
<1> DEFINE s == Restored(svc, view)
<1>1. svc \in ServiceState
  BY DEF Sound, ServiceOK
<1>2. ASSUME NEW a \in Agents, Active(svc.queries[a])
      PROVE  LET q == svc.queries[a] IN QueryOK(q, view) /\ TidyQuery(q, view) /\ (IsStrategy(q.req) => ~MustRestart(q, view))
  BY <1>2 DEF Sound, ServiceOK, AgentOK, Tidy
<1>3. Restorable(svc, view)
  BY <1>2, ReproducesWell DEF Restorable
<1>4. s.out = svc.out /\ s.handed = svc.handed
  <2>1. s.out = <<>> /\ s.handed = [a \in Agents |-> Nothing]
    BY RestoredIs
  <2>2. svc.handed \in [Agents -> HandedState]
    BY <1>1 DEF ServiceState
  <2> HIDE DEF s
  <2> QED BY <2>1, <2>2 DEF Quiet
<1>5. ASSUME NEW a \in Agents PROVE SameAgent(s, svc, a, view)
  <2> DEFINE q == svc.queries[a]
             r == s.queries[a]
  <2>1. /\ Active(q) => r = QueryRestored(q, view) /\ s.legs[a] = svc.legs[a]
        /\ ~Active(q) => r = NoQuery /\ s.legs[a] = NoLegs
    BY RestoredIs
  <2> HIDE DEF s
  <2>2. CASE Active(q)
    <3>1. QueryOK(q, view) /\ TidyQuery(q, view) /\ (IsStrategy(q.req) => ~MustRestart(q, view))
      BY <1>2, <2>2
    <3> HIDE DEF q, r
    <3>2. SameQuery(r, q, view) /\ Reproduces(q, view)
      BY <2>1, <2>2, <3>1, QueryRestoredAlike, ReproducesWell
    <3>3. Active(r)
      <4>1. Resumes(r, q, view)
        BY <2>1, <2>2, <3>1, <3>2, QueryRestoredIs
      <4> QED BY <4>1 DEF Resumes, Active
    <3> QED BY <2>1, <2>2, <3>2, <3>3 DEF SameAgent, q, r
  <2>3. CASE ~Active(q)
    <3>1. svc.legs[a] = NoLegs
      BY <2>3 DEF Tidy
    <3> QED BY <2>1, <2>3, <3>1 DEF SameAgent, Active
  <2> QED BY <2>2, <2>3
<1> HIDE DEF s
<1>6. SameService(s, svc, view)
  BY <1>4, <1>5 DEF SameService
<1> QED BY <1>3, <1>6 DEF s

(***************************************************************************)
(* The three services show the same                                        *)
(***************************************************************************)
LEMMA AllSound == PlanInv => MapOK(map) /\ \A x \in Services : Sound(service[x], map)
<1> SUFFICES ASSUME PlanInv PROVE MapOK(map) /\ \A x \in Services : Sound(service[x], map)
  OBVIOUS
<1>1. ASSUME NEW x \in Services PROVE Sound(service[x], map)
  <2>1. ServiceOK(service[x], map, Accounted(x))
    BY DEF PlanInv, PlannedOK
  <2>2. ServiceOK(service[x], map, FALSE)
    BY <2>1, PaidLess
  <2> QED BY <2>2 DEF Sound
<1> QED BY <1>1 DEF PlanInv

LEMMA TwinInit == Init => TwinInv
<1> SUFFICES ASSUME Init PROVE TwinInv
  OBVIOUS
<1>1. phase = "plan" /\ ~thrown /\ \A x \in Services : service[x] = NewService(x # "cold")
  BY DEF Init
<1>2. \A c : LET s == NewService(c) IN
        /\ s.out = <<>> /\ s.handed = [a \in Agents |-> Nothing]
        /\ \A a \in Agents : s.queries[a] = NoQuery /\ s.legs[a] = NoLegs
  BY DEF NewService
<1>3. \A x \in Services : Tidy(service[x], map)
  BY <1>1, <1>2 DEF Tidy, Active
<1>4. \A x, y \in Services : SameService(service[x], service[y], map)
  BY <1>1, <1>2 DEF SameService, SameAgent, Active
<1> QED BY <1>1, <1>3, <1>4 DEF TwinInv, Services

LEMMA PlanKeepsTwins == PlanInv /\ TwinInv /\ Plan => TwinInv'
<1> SUFFICES ASSUME PlanInv, TwinInv, Plan PROVE TwinInv'
  OBVIOUS
<1>1. /\ map' = map /\ thrown' = thrown /\ excused \subseteq excused'
      /\ \A x \in Services : service'[x] = LegsTaken(Ticked(service[x], map))
  BY DEF Plan
<1>2. MapOK(map) /\ \A x \in Services : Sound(service[x], map) /\ Tidy(service[x], map)
  BY AllSound DEF TwinInv
<1>3. \A x \in Services : Tidy(service'[x], map) /\ UpToDate(service'[x], map)
  BY <1>1, <1>2, PlannedTidy
<1>4. ASSUME NEW x \in Services, NEW y \in Services, "coarse" \notin excused', SameService(service[x], service[y], map)
      PROVE  SameService(service'[x], service'[y], map)
  <2>1. \A z \in Services, a \in Agents : ~OnTheDot(service'[z].queries[a])
    BY <1>4 DEF Plan, CoarseOnTheDot, OnTheDot
  <2> DEFINE s == LegsTaken(Ticked(service[x], map))
             u == LegsTaken(Ticked(service[y], map))
  <2>2. SameService(s, u, map) \/ \E a \in Agents : OnTheDot(s.queries[a]) \/ OnTheDot(u.queries[a])
    BY <1>2, <1>4, PlannedAlike
  <2>3. s = service'[x] /\ u = service'[y]
    BY <1>1
  <2> HIDE DEF s, u
  <2> QED BY <2>1, <2>2, <2>3
<1>5. "cached" \in Services /\ "cold" \in Services /\ "restored" \in Services
  BY DEF Services
<1>6. ASSUME excused' \cap {"ahead", "coarse"} = {} PROVE SameService(service'["cached"], service'["cold"], map)
  <2>1. SameService(service["cached"], service["cold"], map) /\ "coarse" \notin excused'
    BY <1>1, <1>6 DEF TwinInv
  <2> QED BY <1>4, <1>5, <2>1
<1>7. ASSUME excused' = {} PROVE ~thrown /\ SameService(service'["restored"], service'["cached"], map)
  <2>1. ~thrown /\ SameService(service["restored"], service["cached"], map) /\ "coarse" \notin excused'
    BY <1>1, <1>7 DEF TwinInv
  <2> QED BY <1>4, <1>5, <2>1
<1> QED BY <1>1, <1>3, <1>6, <1>7 DEF TwinInv

LEMMA ActKeepsTwins ==
  ASSUME PlanInv, TwinInv, NEW a \in Agents, Cancel(a) \/ \E req \in Requests[a] : Submit(a, req) PROVE TwinInv'
<1>1. /\ phase = "act" /\ phase' = phase /\ map' = map /\ excused' = excused /\ thrown' = thrown
      /\ nextQuery \in Nat \ {0}
  BY DEF PlanInv, Cancel, Submit
<1>2. MapOK(map) /\ \A x \in Services : Sound(service[x], map) /\ Tidy(service[x], map) /\ UpToDate(service[x], map)
  BY <1>1, AllSound DEF TwinInv
<1>3. /\ \A x \in Services : Tidy(service'[x], map) /\ UpToDate(service'[x], map)
      /\ \A x, y \in Services : SameService(service[x], service[y], map) => SameService(service'[x], service'[y], map)
  <2>1. CASE Cancel(a)
    <3>1. \A x \in Services : service'[x] = Cancelled(service[x], a)
      BY <2>1 DEF Cancel
    <3> QED BY <1>2, <3>1, CancelledTidy, CancelledAlike
  <2>2. CASE \E req \in Requests[a] : Submit(a, req)
    <3>1. PICK req \in Requests[a] : Submit(a, req)
      BY <2>2
    <3>2. req \in RequestState
      BY TwinsAssumption DEF RequestState, Kinds, Row
    <3>3. \A x \in Services : service'[x] = Submitted(service[x], a, nextQuery, req, map)
      BY <3>1 DEF Submit
    <3> QED BY <1>1, <1>2, <3>2, <3>3, SubmittedTidy, SubmittedAlike
  <2> QED BY <2>1, <2>2
<1> QED BY <1>1, <1>3 DEF TwinInv, Services

LEMMA SenseKeepsTwins == PlanInv /\ TwinInv /\ Sense => TwinInv'
<1> SUFFICES ASSUME PlanInv, TwinInv, Sense PROVE TwinInv'
  OBVIOUS
<1>1. /\ phase = "act" /\ phase' = "plan" /\ thrown' = thrown /\ excused \subseteq excused'
      /\ \A x \in Services : service'[x] = Emptied(service[x])
  BY DEF Sense
<1>2. /\ MapOK(map)
      /\ \A x \in Services : /\ Sound(service[x], map) /\ Tidy(service[x], map) /\ UpToDate(service[x], map)
                             /\ Examined(service[x]) /\ service[x] \in ServiceState
  BY <1>1, AllSound DEF TwinInv, PlanInv, Sound, ServiceOK
<1>3. \/ map' = map
      \/ \E k \in Row, t \in Nat : map' = Changed(map, k, t) /\ (ReadAhead(k) => "ahead" \in excused')
  BY TwinsAssumption DEF Sense, Changed, Row
<1>4. \A x \in Services : Tidy(service'[x], map')
  <2>1. map' = map \/ \E k \in Row, t \in Nat : map' = Changed(map, k, t)
    BY <1>3
  <2> QED BY <1>1, <1>2, <2>1, SensedTidy
<1>5. ASSUME NEW x \in Services, NEW y \in Services, "ahead" \notin excused', SameService(service[x], service[y], map)
      PROVE  SameService(service'[x], service'[y], map')
  <2> DEFINE s == service[x]
             u == service[y]
  <2>1. service'[x] = Emptied(s) /\ service'[y] = Emptied(u)
    BY <1>1
  <2>2. CASE map' = map
    BY <1>2, <1>5, <2>1, <2>2, EmptiedAlike
  <2>3. ASSUME NEW k \in Row, NEW t \in Nat, map' = Changed(map, k, t), ~ReadAhead(k)
        PROVE  SameService(service'[x], service'[y], map')
    <3>1. \A a \in Agents : Active(s.queries[a]) /\ Active(u.queries[a]) =>
                              (k \in ReadByQuery(s.queries[a]) <=> k \in ReadByQuery(u.queries[a]))
      BY <2>3 DEF ReadAhead
    <3>2. /\ Sound(s, map) /\ UpToDate(s, map) /\ Examined(s)
          /\ Sound(u, map) /\ UpToDate(u, map) /\ Examined(u) /\ SameService(s, u, map)
      BY <1>2, <1>5
    <3> HIDE DEF s, u
    <3>3. SameService(Emptied(s), Emptied(u), Changed(map, k, t))
      BY <1>2, <3>1, <3>2, SensedAlike
    <3> QED BY <2>1, <2>3, <3>3
  <2> QED BY <1>3, <1>5, <2>2, <2>3
<1>6. "cached" \in Services /\ "cold" \in Services /\ "restored" \in Services
  BY DEF Services
<1>7. ASSUME excused' \cap {"ahead", "coarse"} = {} PROVE SameService(service'["cached"], service'["cold"], map')
  <2>1. SameService(service["cached"], service["cold"], map) /\ "ahead" \notin excused'
    BY <1>1, <1>7 DEF TwinInv
  <2> QED BY <1>5, <1>6, <2>1
<1>8. ASSUME excused' = {} PROVE ~thrown /\ SameService(service'["restored"], service'["cached"], map')
  <2>1. ~thrown /\ SameService(service["restored"], service["cached"], map) /\ "ahead" \notin excused'
    BY <1>1, <1>8 DEF TwinInv
  <2> QED BY <1>5, <1>6, <2>1
<1> QED BY <1>1, <1>4, <1>7, <1>8 DEF TwinInv

LEMMA RestoreKeepsTwins == PlanInv /\ TwinInv /\ Restore => TwinInv'
<1> SUFFICES ASSUME PlanInv, TwinInv, Restore PROVE TwinInv'
  OBVIOUS
<1> DEFINE svc == service["restored"]
<1>1. /\ phase = "plan" /\ phase' = phase /\ map' = map /\ excused \subseteq excused'
      /\ thrown' = ~Restorable(svc, map) /\ service' = IF thrown' THEN service ELSE [service EXCEPT !["restored"] = Restored(svc, map)]
      /\ excused' = IF \E a \in Agents : Disturbed(svc.queries[a]) THEN excused \cup {"replay"} ELSE excused
  BY DEF Restore
<1>2. /\ MapOK(map) /\ Sound(svc, map) /\ Tidy(svc, map) /\ Quiet(svc) /\ DOMAIN service = Services
      /\ \A x \in Services : Tidy(service[x], map)
  BY <1>1, AllSound DEF TwinInv, PlanInv, Services
<1>3. /\ \A x \in Services \ {"restored"} : service'[x] = service[x]
      /\ thrown' => service'["restored"] = svc
      /\ ~thrown' => service'["restored"] = Restored(svc, map)
  BY <1>1, <1>2 DEF Services
<1>4. \A x \in Services : Tidy(service'[x], map)
  <2>1. ~thrown' => Tidy(Restored(svc, map), map)
    BY <1>1, <1>2, RestoredTidy
  <2> HIDE DEF svc
  <2>2. Tidy(service'["restored"], map)
    BY <1>2, <1>3, <2>1
  <2> QED BY <1>2, <1>3, <2>2
<1>5. ASSUME excused' = {} PROVE ~thrown' /\ SameService(service'["restored"], service'["cached"], map)
  <2>1. \A a \in Agents : ~Disturbed(svc.queries[a])
    BY <1>1, <1>5
  <2>2. \A a \in Agents : LET q == svc.queries[a] IN Active(q) /\ IsStrategy(q.req) => ~MustRestart(q, map)
    BY <2>1 DEF Disturbed, MustRestart
  <2>3. SameService(svc, service["cached"], map)
    BY <1>1, <1>5 DEF TwinInv
  <2> HIDE DEF svc
  <2>4. Restorable(svc, map) /\ SameService(Restored(svc, map), svc, map)
    BY <1>2, <2>2, RestoredAlike
  <2>5. SameService(Restored(svc, map), service["cached"], map)
    BY <2>3, <2>4, SameServiceOrder
  <2> QED BY <1>1, <1>3, <2>4, <2>5 DEF Services
<1>6. ASSUME excused' \cap {"ahead", "coarse"} = {} PROVE SameService(service'["cached"], service'["cold"], map)
  BY <1>1, <1>3, <1>6 DEF TwinInv, Services
<1> QED BY <1>1, <1>4, <1>5, <1>6 DEF TwinInv

LEMMA InvTwins == TwinInv => TwinsShowTheSame
<1> SUFFICES ASSUME TwinInv PROVE TwinsShowTheSame
  OBVIOUS
<1>1. \A x, y : SameService(service[x], service[y], map) => Shown(x) = Shown(y)
  BY DEF SameService, SameAgent, Shown
<1>2. CachesAreInvisible
  BY <1>1 DEF TwinInv, CachesAreInvisible
<1>3. RestoredGoesOn
  BY <1>1 DEF TwinInv, RestoredGoesOn
<1> QED BY <1>2, <1>3 DEF TwinsShowTheSame

\* In every run the actions are told the same, in the same ticks, by a planner with caches, by one
\* without and by one that is restored from its own snapshots (the class comment of PlanningService),
\* but for the three cases `excused` names, for every map, budget, cache and number of agents.
THEOREM PlanningTwinsShowTheSame == Spec => []TwinsShowTheSame
<1>1. Init => PlanInv /\ TwinInv
  BY PlanInit, TwinInit
<1>2. ASSUME PlanInv, PlanInv', TwinInv, [Next]_vars PROVE TwinInv'
  <2>1. CASE Plan
    BY <1>2, <2>1, PlanKeepsTwins
  <2>2. CASE Sense
    BY <1>2, <2>2, SenseKeepsTwins
  <2>3. CASE Restore
    BY <1>2, <2>3, RestoreKeepsTwins
  <2>4. CASE \E a \in Agents : Cancel(a) \/ \E req \in Requests[a] : Submit(a, req)
    BY <1>2, <2>4, ActKeepsTwins
  <2>5. CASE UNCHANGED vars
    BY <1>2, <2>5 DEF vars, TwinInv
  <2> QED BY <1>2, <2>1, <2>2, <2>3, <2>4, <2>5 DEF Next
<1>3. Spec => []PlanInv
  BY PlanningAlways
<1> QED BY <1>1, <1>2, <1>3, InvTwins, PTL DEF Spec
=============================================================================
