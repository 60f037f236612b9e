---------------------------- MODULE ReplayProofs ----------------------------
(***************************************************************************)
(* Proofs about the replay of a recorded run, for any run, page size,      *)
(* window and belief map, any number of moves of the cursor and any read   *)
(* that fails: the records shown are a stretch of the run without a gap,   *)
(* the loaded poses are complete, and a belief map is of one tick.         *)
(***************************************************************************)
EXTENDS ReplayProperties, TLAPS

(***************************************************************************)
(* The record list                                                         *)
(***************************************************************************)
\* Cutting a list leaves a beginning of it (replay-run-source.ts, the loop that
\* lowers `keep`).
LEMMA CutKeeps ==
  ASSUME NEW l \in Seq(Nat), Consecutive(l), NEW t \in Ticks
  PROVE  Cut(l, t) \in Seq(Nat) /\ Consecutive(Cut(l, t)) /\ LastOf(Cut(l, t)) <= Upto[t]
<1> DEFINE u == Upto[t]
           Is(k) == /\ k > 0 => l[k] <= u
                    /\ \A i \in (k + 1)..Len(l) : l[i] > u
           keep == CHOOSE k \in 0..Len(l) : Is(k)
<1>1. u \in Nat
  BY ReplayAssumption
<1>a. \A i \in 1..Len(l) : l[i] \in Nat /\ l[i] = l[1] + i - 1
  BY DEF Consecutive
<1>2. \E k \in 0..Len(l) : Is(k)
  <2>1. CASE Len(l) = 0
    BY <2>1
  <2>2. CASE Len(l) > 0 /\ u < l[1]
    <3>1. \A i \in 1..Len(l) : l[i] > u
      BY <1>1, <1>a, <2>2
    <3> QED BY <3>1
  <2>3. CASE Len(l) > 0 /\ u >= l[1] /\ u - l[1] + 1 >= Len(l)
    <3>1. l[Len(l)] <= u
      BY <1>1, <1>a, <2>3
    <3> QED BY <2>3, <3>1
  <2>4. CASE Len(l) > 0 /\ u >= l[1] /\ u - l[1] + 1 < Len(l)
    <3> DEFINE k == u - l[1] + 1
    <3>0. l[1] \in Nat
      BY <1>a, <2>4
    <3>1. k \in 1..Len(l)
      BY <1>1, <2>4, <3>0
    <3>2. l[k] <= u
      BY <1>1, <1>a, <3>0, <3>1
    <3>3. \A i \in (k + 1)..Len(l) : l[i] > u
      <4> SUFFICES ASSUME NEW i \in (k + 1)..Len(l) PROVE l[i] > u
        OBVIOUS
      <4>1. i \in 1..Len(l) /\ i >= k + 1
        BY <3>1
      <4>2. l[i] = l[1] + i - 1
        BY <1>a, <4>1
      <4> QED BY <1>1, <3>0, <4>1, <4>2
    <3>4. k \in 0..Len(l) /\ Is(k)
      BY <3>1, <3>2, <3>3
    <3> HIDE DEF k, Is
    <3> QED BY <3>4
  <2> QED BY <1>1, <2>1, <2>2, <2>3, <2>4
<1>3. keep \in 0..Len(l) /\ (keep > 0 => l[keep] <= u)
  BY <1>2
<1>4. Cut(l, t) = SubSeq(l, 1, keep)
  BY DEF Cut
<1> HIDE DEF keep
<1>5. SubSeq(l, 1, keep) \in Seq(Nat) /\ Consecutive(SubSeq(l, 1, keep))
  BY <1>3 DEF Consecutive
<1>6. LastOf(SubSeq(l, 1, keep)) <= u
  <2>1. Len(SubSeq(l, 1, keep)) = keep /\ (keep > 0 => SubSeq(l, 1, keep)[keep] = l[keep])
    BY <1>3
  <2>2. SubSeq(l, 1, keep) = <<>> <=> keep = 0
    BY <1>3, <2>1
  <2> QED BY <1>1, <1>3, <2>1, <2>2 DEF LastOf
<1> QED BY <1>4, <1>5, <1>6

\* A page goes on where the list ends (the trace query of loadRecordsTo).
LEMMA PageFollows ==
  ASSUME NEW after \in Nat, NEW t \in Ticks
  PROVE  LET page == PageOf(after, t) IN
         /\ page \in Seq(Nat)
         /\ Len(page) = Lesser(Page, Greater(0, Upto[t] - after))
         /\ \A i \in 1..Len(page) : page[i] = after + i
<1>1. Lesser(Page, Greater(0, Upto[t] - after)) \in Nat
  BY ReplayAssumption DEF Lesser, Greater
<1> QED BY <1>1 DEF PageOf

\* The list with the next page has no gap and ends with it.
LEMMA PageExtends ==
  ASSUME NEW l \in Seq(Nat), Consecutive(l), NEW t \in Ticks
  PROVE  LET page == PageOf(LastOf(l), t)  all == l \o page IN
         /\ all \in Seq(Nat) /\ Consecutive(all)
         /\ LastOf(all) = IF page = <<>> THEN LastOf(l) ELSE page[Len(page)]
         /\ Len(page) # Page => LastOf(all) >= Upto[t]
         /\ LastOf(l) <= Upto[t] => LastOf(all) <= Upto[t]
<1> DEFINE after == LastOf(l)
           page  == PageOf(after, t)
           all   == l \o page
<1>1. after \in Nat
  BY DEF LastOf
<1>2. /\ page \in Seq(Nat)
      /\ Len(page) = Lesser(Page, Greater(0, Upto[t] - after))
      /\ \A i \in 1..Len(page) : page[i] = after + i
  BY <1>1, PageFollows
<1>3. Upto[t] \in Nat /\ Page \in Nat
  BY ReplayAssumption
<1> HIDE DEF page
<1>4. all \in Seq(Nat) /\ Len(all) = Len(l) + Len(page)
  BY <1>2, SMTT(30)
<1>5. \A i \in 1..Len(all) : all[i] = IF i <= Len(l) THEN l[i] ELSE page[i - Len(l)]
  BY <1>2
<1> HIDE DEF all, after
<1>6. Consecutive(all)
  <2>1. CASE l = <<>>
    BY <1>2, <1>4, <1>5, <2>1 DEF Consecutive, LastOf, after
  <2>2. CASE l # <<>>
    <3>1. after = l[1] + Len(l) - 1
      BY <2>2 DEF LastOf, Consecutive, after
    <3>2. all[1] = l[1] /\ l[1] \in Nat
      BY <1>4, <1>5, <2>2
    <3>3. ASSUME NEW i \in 1..Len(all) PROVE all[i] = all[1] + i - 1
      <4>1. CASE i <= Len(l)
        <5>1. i \in 1..Len(l)
          BY <1>4, <3>3, <4>1
        <5>2. l[i] = l[1] + i - 1
          BY <5>1 DEF Consecutive
        <5> QED BY <1>5, <3>2, <3>3, <4>1, <5>2
      <4>2. CASE i > Len(l)
        <5>1. i - Len(l) \in 1..Len(page)
          BY <1>2, <1>4, <3>3, <4>2
        <5>2. page[i - Len(l)] = after + (i - Len(l))
          BY <1>2, <5>1
        <5>3. i \in Nat /\ ~(i <= Len(l))
          BY <1>4, <3>3, <4>2
        <5>4. all[i] = page[i - Len(l)]
          BY <1>5, <3>3, <5>3
        <5>5. Len(l) \in Nat /\ l[1] \in Nat
          BY <3>2
        <5>6. all[i] = (l[1] + Len(l) - 1) + (i - Len(l))
          BY <3>1, <5>2, <5>4
        <5>7. ASSUME NEW a \in Nat, NEW b \in Nat, NEW j \in Nat
              PROVE  (a + b - 1) + (j - b) = a + j - 1
          OBVIOUS
        <5>8. (l[1] + Len(l) - 1) + (i - Len(l)) = l[1] + i - 1
          BY ONLY <5>3, <5>5, <5>7
        <5> QED BY ONLY <3>2, <5>6, <5>8
      <4>3. i \in Nat /\ Len(l) \in Nat
        BY <3>3
      <4> QED BY <4>1, <4>2, <4>3
    <3> QED BY <1>4, <3>3 DEF Consecutive
  <2> QED BY <2>1, <2>2
<1>7. LastOf(all) = IF page = <<>> THEN after ELSE page[Len(page)]
  BY <1>2, <1>4, <1>5, SMTT(30) DEF LastOf, after
<1>8. Len(page) # Page => LastOf(all) >= Upto[t]
  BY <1>1, <1>2, <1>3, <1>7, SMTT(30) DEF Lesser, Greater
<1>9. after <= Upto[t] => LastOf(all) <= Upto[t]
  BY <1>1, <1>2, <1>3, <1>7, SMTT(30) DEF Lesser, Greater
<1> QED BY <1>4, <1>6, <1>7, <1>8, <1>9 DEF page, all, after

\* Trimming keeps the end of the list.
LEMMA TrimKeeps ==
  ASSUME NEW l \in Seq(Nat), Consecutive(l)
  PROVE  Trimmed(l) \in Seq(Nat) /\ Consecutive(Trimmed(l)) /\ LastOf(Trimmed(l)) = LastOf(l)
<1>1. MaxRecords \in Nat \ {0}
  BY ReplayAssumption
<1>2. CASE Len(l) <= MaxRecords
  <2>1. Trimmed(l) = l
    BY <1>1, <1>2 DEF Trimmed
  <2> QED BY <2>1
<1>3. CASE Len(l) > MaxRecords
  <2> DEFINE s == SubSeq(l, Len(l) - MaxRecords + 1, Len(l))
  <2>1. s \in Seq(Nat) /\ Len(s) = MaxRecords
    BY <1>1, <1>3
  <2>2. \A i \in 1..MaxRecords : s[i] = l[Len(l) - MaxRecords + i]
    BY <1>1, <1>3
  <2> HIDE DEF s
  <2>3. Consecutive(s)
    <3> DEFINE d == Len(l) - MaxRecords
    <3>1. d \in Nat /\ l[1] \in Nat /\ \A i \in 1..MaxRecords : d + i \in 1..Len(l)
      BY <1>1, <1>3
    <3>2. \A i \in 1..MaxRecords : l[d + i] = l[1] + (d + i) - 1
      BY <3>1 DEF Consecutive
    <3> HIDE DEF d
    <3>3. \A i \in 1..MaxRecords : s[i] = l[1] + (d + i) - 1
      BY <2>2, <3>2 DEF d
    <3>4. s[1] = l[1] + d
      BY <1>1, <3>1, <3>3
    <3>5. ASSUME NEW i \in 1..MaxRecords PROVE s[i] = s[1] + i - 1
      <4>1. s[i] = l[1] + (d + i) - 1 /\ i \in Nat
        BY <1>1, <3>3
      <4> QED BY <3>1, <3>4, <4>1
    <3> QED BY <2>1, <3>5 DEF Consecutive
  <2>4. s # <<>> /\ l # <<>>
    BY <1>1, <1>3, <2>1
  <2>5. s[MaxRecords] = l[Len(l)]
    BY <1>1, <1>3, <2>2
  <2>6. LastOf(s) = LastOf(l)
    BY <2>1, <2>4, <2>5 DEF LastOf
  <2> QED BY <1>3, <2>1, <2>3, <2>6 DEF Trimmed, s
<1> QED BY <1>1, <1>2, <1>3

(***************************************************************************)
(* The belief map                                                          *)
(***************************************************************************)
LEMMA CursorIsATick ==
  ASSUME cursor \in Ticks, head \in Ticks
  PROVE  CursorNow \in Ticks /\ CursorNow <= head
BY ReplayAssumption DEF CursorNow, Lesser, Ticks

\* A watcher that asks overtakes the read under way, or asks for nothing.
LEMMA AskedKeeps ==
  ASSUME BeliefInv, NEW t \in Ticks, belief' = Asked(belief, t), UNCHANGED display
  PROVE  BeliefInv'
<1> USE DEF BeliefInv
<1>1. CASE t = belief.delivered
  BY <1>1 DEF Asked, RequestsAgree, BeliefIsOfItsTick, Stale
<1>2. CASE t # belief.delivered
  <2> DEFINE q == [id |-> belief.mine + 1, tick |-> t, at |-> "coarse", seen |-> {}]
  <2>1. belief' = [belief EXCEPT !.mine = belief.mine + 1, !.requests = belief.requests \cup {q}]
    BY <1>2 DEF Asked
  <2>2. belief.mine \in Nat /\ belief.requests \subseteq Request
    BY DEF Belief
  <2>3. q \in Request
    BY <2>2 DEF Request
  <2> HIDE DEF q
  <2>a. belief.mine + 1 \in Nat /\ belief.requests \cup {q} \in SUBSET Request
    BY <2>2, <2>3
  <2>4. belief' \in Belief
    BY <2>1, <2>a DEF Belief
  <2>5. /\ belief'.mine = belief.mine + 1
        /\ belief'.requests = belief.requests \cup {q}
        /\ belief'.delivered = belief.delivered /\ belief'.refused = belief.refused
    BY <2>1 DEF Belief
  <2>6. \A p \in belief.requests : p.id \in Nat /\ p.id <= belief.mine
    BY <2>2 DEF RequestsAgree, Request
  <2>7. q.id = belief.mine + 1 /\ q.at = "coarse"
    BY DEF q
  <2>8. RequestsAgree'
    BY <2>2, <2>5, <2>6, <2>7 DEF RequestsAgree, Stale
  <2>9. BeliefIsOfItsTick'
    BY <2>5, <2>7 DEF BeliefIsOfItsTick, Stale
  <2> QED BY <2>4, <2>8, <2>9
<1> QED BY <1>1, <1>2

\* The last answer of a read that was not overtaken: the chunks known at its
\* tick show that tick.
LEMMA DeliveredKeeps ==
  ASSUME BeliefInv, NEW q \in belief.requests, ~Stale(q), NEW chunks \in SUBSET Chunks,
         Delivered(q, belief.requests \ {q}, chunks),
         \A c \in Known(q.tick) : c \in chunks \/ (c \in q.seen /\ display[c] = q.tick)
  PROVE  BeliefInv'
<1> USE DEF BeliefInv
<1>1. /\ q.tick \in Ticks /\ q.seen \subseteq Chunks
      /\ belief.requests \subseteq Request /\ belief.mine \in Nat
  BY DEF Belief, Request
<1>2. Known(q.tick) \subseteq Chunks
  BY DEF Known
<1>3. /\ belief' \in Belief /\ belief'.delivered = q.tick
      /\ belief'.requests = belief.requests \ {q} /\ belief'.mine = belief.mine
  BY <1>1 DEF Delivered, Belief
<1>4. \A p \in belief'.requests : Stale(p)'
  BY <1>3 DEF RequestsAgree, Stale
<1>5. RequestsAgree'
  BY <1>3, <1>4 DEF RequestsAgree
<1>6. display' = [c \in Chunks |->
                    IF c \in belief.shown \ (q.seen \cup chunks) THEN None
                    ELSE IF c \in chunks THEN q.tick ELSE display[c]]
  BY DEF Delivered, Pushed
<1>7. display' \in [Chunks -> Ticks \cup {None}]
  BY <1>1, <1>6
<1>8. \A c \in Known(q.tick) : display'[c] = q.tick
  BY <1>2, <1>6
<1>9. BeliefIsOfItsTick'
  BY <1>3, <1>8 DEF BeliefIsOfItsTick, Known
<1> QED BY <1>3, <1>5, <1>7, <1>9

\* Every answer to a read of the belief map.
LEMMA BeliefArrivesKeeps ==
  ASSUME BeliefInv, NEW q, BeliefArrives(q)
  PROVE  BeliefInv'
<1> USE DEF BeliefInv
<1> DEFINE others == belief.requests \ {q}
           near(t) == Near \cap Known(t)
<1>1. /\ q \in belief.requests /\ q \in Request
      /\ q.tick \in Ticks /\ q.seen \subseteq Chunks
      /\ belief.requests \subseteq Request /\ belief.mine \in Nat
  BY DEF BeliefArrives, Belief, Request
<1>2. near(q.tick) \subseteq Chunks /\ KeyframeAt[q.tick] \in Ticks
      /\ near(KeyframeAt[q.tick]) \subseteq Chunks
  BY <1>1, ReplayAssumption DEF Known
<1>3. CASE Stale(q)
  <2>1. belief' = [belief EXCEPT !.requests = others] /\ UNCHANGED display
    BY <1>3 DEF BeliefArrives
  <2>2. /\ belief' \in Belief /\ belief'.requests = others /\ belief'.mine = belief.mine
        /\ belief'.delivered = belief.delivered /\ belief'.refused = belief.refused
    BY <1>1, <2>1 DEF Belief
  <2>3. RequestsAgree'
    BY <2>1, <2>2 DEF RequestsAgree, Stale
  <2>4. BeliefIsOfItsTick'
    BY <1>3, <2>1, <2>2 DEF BeliefIsOfItsTick, Stale
  <2> QED BY <2>1, <2>2, <2>3, <2>4
<1>4. ASSUME ~Stale(q), NEW at \in {"first", "rest"}, NEW chunks \in SUBSET Chunks, NEW t \in Ticks,
             display' = Pushed(chunks, t),
             belief' = [belief EXCEPT !.requests = others \cup
                          {[q EXCEPT !.at = at, !.seen = @ \cup chunks]}],
             at = "rest" => t = q.tick /\ chunks = near(q.tick)
      PROVE  BeliefInv'
  <2> DEFINE p == [q EXCEPT !.at = at, !.seen = q.seen \cup chunks]
  <2>1. /\ p \in Request /\ p.id = q.id /\ p.tick = q.tick /\ p.at = at
        /\ p.seen = q.seen \cup chunks
    BY <1>1, <1>4 DEF Request
  <2>2. belief' = [belief EXCEPT !.requests = others \cup {p}]
    BY <1>4
  <2> HIDE DEF p
  <2>3. /\ belief' \in Belief /\ belief'.requests = others \cup {p} /\ belief'.mine = belief.mine
    BY <1>1, <2>1, <2>2 DEF Belief
  <2>4. display' = [c \in Chunks |-> IF c \in chunks THEN t ELSE display[c]]
    BY <1>4 DEF Pushed
  <2>5. display' \in [Chunks -> Ticks \cup {None}]
    BY <1>4, <2>4
  <2>6. ~Stale(p)'
    BY <1>4, <2>1, <2>3 DEF Stale
  <2>7. \A s \in others : Stale(s)'
    BY <1>1, <1>4, <2>3 DEF RequestsAgree, Stale
  <2>8. at = "rest" => \A c \in Near \cap Known(p.tick) : c \in p.seen /\ display'[c] = p.tick
    BY <1>2, <1>4, <2>1, <2>4
  <2>9. RequestsAgree'
    <3>1. \A s \in belief'.requests : s.id <= belief'.mine
      BY <1>1, <2>1, <2>3 DEF RequestsAgree
    <3>2. \A r, s \in belief'.requests : r.id = s.id => r = s
      BY <1>1, <2>1, <2>3 DEF RequestsAgree
    <3>3. \A s \in belief'.requests : ~Stale(s)' /\ s.at = "rest" =>
            \A c \in Near \cap Known(s.tick) : c \in s.seen /\ display'[c] = s.tick
      BY <2>1, <2>3, <2>7, <2>8
    <3> QED BY <3>1, <3>2, <3>3 DEF RequestsAgree, Known
  <2>10. BeliefIsOfItsTick'
    BY <2>3, <2>6 DEF BeliefIsOfItsTick
  <2> QED BY <2>3, <2>5, <2>9, <2>10
<1>5. CASE ~Stale(q) /\ q.at = "coarse"
  <2> DEFINE k == KeyframeAt[q.tick]
  <2>1. /\ display' = Pushed(near(k), k)
        /\ belief' = [belief EXCEPT !.requests = others \cup
                        {[q EXCEPT !.at = "first", !.seen = @ \cup near(k)]}]
    BY <1>5 DEF BeliefArrives
  <2> QED BY <1>2, <1>4, <1>5, <2>1
<1>6. CASE ~Stale(q) /\ q.at = "first" /\ ~(Known(q.tick) \subseteq Near)
  <2>1. /\ display' = Pushed(near(q.tick), q.tick)
        /\ belief' = [belief EXCEPT !.requests = others \cup
                        {[q EXCEPT !.at = "rest", !.seen = @ \cup near(q.tick)]}]
    BY <1>6 DEF BeliefArrives
  <2> QED BY <1>1, <1>2, <1>4, <1>6, <2>1
<1>7. CASE ~Stale(q) /\ q.at = "first" /\ Known(q.tick) \subseteq Near
  <2>1. Delivered(q, others, near(q.tick))
    BY <1>7 DEF BeliefArrives
  <2>2. \A c \in Known(q.tick) : c \in near(q.tick)
    BY <1>7
  <2> HIDE DEF near
  <2> QED BY <1>1, <1>2, <1>7, <2>1, <2>2, DeliveredKeeps
<1>8. CASE ~Stale(q) /\ q.at = "rest"
  <2>1. Delivered(q, others, Known(q.tick) \ Near)
    BY <1>8 DEF BeliefArrives
  <2>2. \A c \in Known(q.tick) :
          c \in Known(q.tick) \ Near \/ (c \in q.seen /\ display[c] = q.tick)
    BY <1>1, <1>8 DEF RequestsAgree
  <2>3. Known(q.tick) \ Near \in SUBSET Chunks
    BY DEF Known
  <2> QED BY <1>1, <1>8, <2>1, <2>2, <2>3, DeliveredKeeps
<1>9. q.at \in {"coarse", "first", "rest"}
  BY <1>1 DEF Request
<1> QED BY <1>3, <1>5, <1>6, <1>7, <1>8, <1>9

\* A refused read.
LEMMA BeliefRefusedKeeps ==
  ASSUME BeliefInv, NEW q, BeliefRefused(q)
  PROVE  BeliefInv'
<1> USE DEF BeliefInv
<1>1. /\ q \in belief.requests /\ belief.requests \subseteq Request
      /\ belief.mine \in Nat /\ belief.refused \in BOOLEAN /\ UNCHANGED display
  BY DEF BeliefRefused, Belief
<1>2. /\ belief' = [belief EXCEPT !.requests = belief.requests \ {q},
                                  !.refused = belief.refused \/ ~Stale(q)]
  BY DEF BeliefRefused
<1>3. (belief.refused \/ ~Stale(q)) \in BOOLEAN
  OBVIOUS
<1>4. /\ belief' \in Belief /\ belief'.requests = belief.requests \ {q}
      /\ belief'.mine = belief.mine /\ belief'.delivered = belief.delivered
      /\ belief'.refused = (belief.refused \/ ~Stale(q))
  BY <1>1, <1>2, <1>3 DEF Belief
<1>5. RequestsAgree'
  BY <1>1, <1>4 DEF RequestsAgree, Stale
<1>6. BeliefIsOfItsTick'
  BY <1>1, <1>4 DEF BeliefIsOfItsTick, Stale
<1> QED BY <1>1, <1>4, <1>5, <1>6

(***************************************************************************)
(* The refreshes                                                           *)
(***************************************************************************)
\* A newer refresh cuts the list and overtakes the one under way.
LEMMA RefreshKeeps ==
  ASSUME RefreshInv, NEW t \in Ticks, Refresh(t),
         cursor' \in Ticks, head' \in Ticks, moves' \in Nat, timer' \in BOOLEAN,
         t <= head', UNCHANGED <<poses, shownAt>>
  PROVE  RefreshInv'
<1> USE DEF RefreshInv
<1> DEFINE from == IF t < loadedTo THEN LastOf(list') ELSE through
           new  == RecordsRead(generation + 1, t, from)
<1>1. /\ generation' = generation + 1 /\ through' = from
      /\ torn' = (~(t < loadedTo) /\ (torn \/ \E r \in reads : LeftHalfway(r)))
      /\ list' = (IF t < loadedTo THEN Cut(list, t) ELSE list)
      /\ loadedTo' = (IF t < loadedTo THEN t ELSE loadedTo)
      /\ reads' = reads \cup {new}
  BY DEF Refresh
<1>2. /\ list' \in Seq(Nat) /\ Consecutive(list')
      /\ t < loadedTo => LastOf(list') <= Upto[t]
  BY <1>1, CutKeeps DEF RecordsAreThere, NoRecordIsSkipped
<1>3. through' = LastOf(list') /\ through' \in Nat
  BY <1>1, <1>2 DEF RecordsAreThere, NoRecordIsSkipped, LastOf
<1>4. /\ new \in Read /\ new.gen = generation + 1 /\ new.at = "records"
      /\ new.after = through' /\ new.t = t /\ ~new.paged
  <2>1. from \in Nat
    BY <1>1, <1>3
  <2> QED BY <1>1, <2>1 DEF RecordsRead, Read
<1> HIDE DEF new, from
<1>5. reads' \subseteq Read /\ generation' \in Nat /\ loadedTo' \in Ticks /\ torn' \in BOOLEAN
  BY <1>1, <1>4
<1>b. ~torn' => through' <= Upto[loadedTo'] /\ loadedTo' <= t
  <2>1. CASE t < loadedTo
    BY <1>1, <1>2, <1>3, <2>1, ReplayAssumption DEF Ticks
  <2>2. CASE ~(t < loadedTo)
    <3>1. loadedTo' = loadedTo /\ through' = through /\ loadedTo <= t
      BY <1>1, <2>2, ReplayAssumption DEF Ticks, from
    <3>2. ~torn' => ~torn /\ \A r \in reads : ~LeftHalfway(r)
      BY <1>1, <2>2
    <3> QED BY <3>1, <3>2 DEF ReadsAgree
  <2> QED BY <2>1, <2>2
<1>6. \A r \in reads : r.gen \in Nat /\ r.gen <= generation
  BY DEF ReadsAgree, Read
<1>7. \A r \in reads' : ~Overtaken(r)' => r = new
  BY <1>1, <1>6 DEF Overtaken
<1>8. ReadsAgree'
  <2>1. \A r \in reads' : r.gen <= generation'
    BY <1>1, <1>4, <1>6
  <2>2. \A r, s \in reads' : r.gen = s.gen => r = s
    BY <1>1, <1>4, <1>6 DEF ReadsAgree
  <2>3. (\A h \in poses.ticks : h <= poses.to)' /\ (poses.from >= 0 /\ poses.to <= End)'
    BY DEF ReadsAgree
  <2>4. /\ new.t <= head'
        /\ new.at = "records" => new.after = through'
        /\ new.at # "poses"
        /\ ~torn' => through' <= Upto[loadedTo'] /\ loadedTo' <= new.t
        /\ ~new.paged
    BY <1>4, <1>b
  <2> QED BY <1>7, <2>1, <2>2, <2>3, <2>4 DEF ReadsAgree
<1>9. ~CaughtUp'
  BY <1>1, <1>4 DEF CaughtUp, Overtaken
<1>10. RecordsAreThere' /\ LoadedPosesAreComplete'
  BY <1>2, <1>3, <1>9 DEF RecordsAreThere, NoRecordIsSkipped, LoadedPosesAreComplete
<1> QED BY <1>2, <1>3, <1>5, <1>8, <1>10

\* A refresh left to the timer changes nothing of what is loaded.
LEMMA LaterKeeps ==
  ASSUME RefreshInv, cursor' \in Ticks, head' \in Ticks, head <= head', moves' \in Nat,
         timer' \in BOOLEAN,
         UNCHANGED <<generation, reads, list, through, loadedTo, poses, shownAt, torn>>
  PROVE  RefreshInv'
<1> USE DEF RefreshInv
<1>1. head \in Int /\ head' \in Int /\ \A r \in reads : r.t \in Int
  BY ReplayAssumption DEF Read, Ticks
<1>2. \A r \in reads : r.t <= head => r.t <= head'
  BY <1>1
<1>3. ReadsAgree'
  BY <1>2 DEF ReadsAgree, Overtaken, LeftHalfway
<1> QED
  BY <1>3 DEF RecordsAreThere, NoRecordIsSkipped, LoadedPosesAreComplete, CaughtUp, Overtaken

\* An answer to an overtaken refresh, and a read that fails.
LEMMA DroppedKeeps ==
  ASSUME RefreshInv, NEW r \in reads, reads' = reads \ {r},
         \/ Overtaken(r) /\ shownAt' = shownAt /\ torn' = torn
         \/ ~Overtaken(r) /\ shownAt' = Failed /\ torn' = (torn \/ LeftHalfway(r)),
         UNCHANGED <<cursor, head, moves, timer, generation, list, through, loadedTo, poses>>
  PROVE  RefreshInv'
<1> USE DEF RefreshInv
<1>0. torn' \in BOOLEAN /\ (~torn' => ~torn)
  BY DEF LeftHalfway
<1>1. ~torn' /\ (\A q \in reads' : ~LeftHalfway(q)') => through <= Upto[loadedTo]
  <2>1. CASE Overtaken(r)
    BY <2>1 DEF ReadsAgree, Overtaken, LeftHalfway
  <2>2. CASE ~Overtaken(r)
    BY <2>2 DEF ReadsAgree, Overtaken, LeftHalfway
  <2> QED BY <2>1, <2>2
<1>a. \A q \in reads' : q \in reads /\ (Overtaken(q)' <=> Overtaken(q))
  BY DEF Overtaken
<1>b. ReadsAgree'
  BY <1>0, <1>1, <1>a DEF ReadsAgree
<1>2. CaughtUp' => CaughtUp /\ shownAt' = shownAt /\ torn' = torn
  BY DEF CaughtUp, Overtaken, Failed, Ticks
<1>3. RecordsAreThere' /\ LoadedPosesAreComplete'
  BY <1>2 DEF RecordsAreThere, NoRecordIsSkipped, LoadedPosesAreComplete
<1> QED BY <1>0, <1>b, <1>3

\* The newest refresh goes on with another read.
LEMMA NextReadKeeps ==
  ASSUME RefreshInv, NEW r \in reads, ~Overtaken(r),
         NEW s \in Read, s.gen = r.gen, s.t = r.t, reads' = (reads \ {r}) \cup {s},
         list' \in Seq(Nat), through' \in Nat, loadedTo' \in Ticks, NoRecordIsSkipped',
         s.at = "records" => s.after = through' /\ s.paged /\ (~torn => through' <= Upto[s.t]),
         s.at = "poses" => /\ through' >= Upto[s.t] /\ loadedTo' = s.t
                           /\ ~torn => through' = Upto[s.t]
                           /\ s.from \in 0..s.t \/ ~s.fresh
                           /\ s.to \in s.t..End /\ s.from <= s.to
                           /\ ~s.fresh => s.from = poses.to /\ s.t \in poses.from..poses.to,
         UNCHANGED <<cursor, head, moves, timer, generation, poses, shownAt, torn>>
  PROVE  RefreshInv'
<1> USE DEF RefreshInv
<1>1. reads' \subseteq Read
  OBVIOUS
<1>2. s.gen = generation /\ s \in reads'
  BY DEF Overtaken
<1>3. \A q \in reads' : ~Overtaken(q)' => q = s
  BY <1>2 DEF ReadsAgree, Overtaken
<1>4. ReadsAgree'
  <2>1. \A q \in reads' : q.gen <= generation'
    BY DEF ReadsAgree
  <2>2. \A p, q \in reads' : p.gen = q.gen => p = q
    BY DEF ReadsAgree
  <2>3. s.t <= head
    BY DEF ReadsAgree
  <2>4. (\A h \in poses.ticks : h <= poses.to)' /\ (poses.from >= 0 /\ poses.to <= End)'
    BY DEF ReadsAgree
  <2>5. s.at \in {"records", "poses"} /\ through' \in Nat
    BY DEF Read
  <2>6. (\A q \in reads' : ~LeftHalfway(q)') /\ ~torn' => through' <= Upto[loadedTo']
    BY <1>2, <2>5 DEF LeftHalfway
  <2> QED BY <1>3, <2>1, <2>2, <2>3, <2>4, <2>6 DEF ReadsAgree
<1>5. ~CaughtUp'
  BY <1>2 DEF CaughtUp, Overtaken
<1>6. RecordsAreThere' /\ LoadedPosesAreComplete'
  BY <1>5 DEF RecordsAreThere, LoadedPosesAreComplete
<1> QED BY <1>1, <1>4, <1>6

\* What the newest refresh asks of the poses.
LEMMA PosesReadFits ==
  ASSUME RefreshInv, NEW r \in reads, r.t <= head, ~Enough(r.t)
  PROVE  LET s == PosesRead(r) IN
         /\ s \in Read /\ s.gen = r.gen /\ s.t = r.t /\ s.at = "poses"
         /\ s.from \in 0..s.t \/ ~s.fresh
         /\ s.to \in s.t..End /\ s.from <= s.to
         /\ ~s.fresh => s.from = poses.to /\ s.t \in poses.from..poses.to
<1> USE DEF RefreshInv
<1> DEFINE s == PosesRead(r)
<1>1. /\ r \in Read /\ r.t \in 0..End /\ head \in 0..End /\ End \in Nat
      /\ Behind \in Nat /\ Ahead \in Nat /\ Refill \in Nat
  BY ReplayAssumption DEF Read, Ticks
<1>2. poses.from \in Int /\ poses.to \in Int /\ poses.from >= 0
  BY DEF Window, ReadsAgree
<1>3. WantTo(r.t) \in r.t..End
  BY <1>1 DEF WantTo, Lesser
<1>4. Greater(0, r.t - Behind) \in 0..r.t
  BY <1>1 DEF Greater
<1>5. /\ s.gen = r.gen /\ s.t = r.t /\ s.at = "poses" /\ s.fresh = ~Inside(r.t)
      /\ s.to = WantTo(r.t)
      /\ s.from = IF Inside(r.t) THEN poses.to ELSE Greater(0, r.t - Behind)
  BY <1>1 DEF PosesRead, Read
<1>6. s \in Read
  <2> DEFINE from == IF Inside(r.t) THEN poses.to ELSE Greater(0, r.t - Behind)
  <2>1. from \in Int /\ WantTo(r.t) \in Int /\ (~Inside(r.t)) \in BOOLEAN
    BY <1>1, <1>2, <1>3, <1>4
  <2>2. s = [r EXCEPT !.at = "poses", !.fresh = ~Inside(r.t), !.to = WantTo(r.t), !.from = from]
    BY DEF PosesRead
  <2> HIDE DEF from, s
  <2> QED BY <1>1, <2>1, <2>2 DEF Read
<1> HIDE DEF s
<1>7. CASE Inside(r.t)
  <2>1. ~(WantTo(r.t) <= poses.to)
    BY <1>7 DEF Enough
  <2>2. poses.to <= WantTo(r.t) /\ r.t \in poses.from..poses.to
    BY <1>1, <1>2, <1>3, <1>7, <2>1 DEF Inside
  <2> QED BY <1>3, <1>5, <1>6, <1>7, <2>2 DEF s
<1>8. CASE ~Inside(r.t)
  <2>1. Greater(0, r.t - Behind) <= WantTo(r.t)
    BY <1>1, <1>3, <1>4
  <2> QED BY <1>3, <1>4, <1>5, <1>6, <1>8, <2>1 DEF s
<1> QED BY <1>7, <1>8

\* A refresh ends: what was loaded is shown.
LEMMA FinishKeeps ==
  ASSUME RefreshInv, NEW r \in reads, reads' = reads \ {r}, ~Overtaken(r), shownAt' = r.t,
         list' \in Seq(Nat), through' \in Nat, loadedTo' \in Ticks, poses' \in Window,
         NoRecordIsSkipped', through' >= Upto[r.t], ~torn => through' = Upto[r.t],
         ~torn => through' <= Upto[loadedTo'],
         \A p \in Ticks : p >= poses'.from /\ p <= poses'.to => p \in poses'.ticks,
         r.t >= poses'.from /\ r.t <= poses'.to,
         (\A h \in poses'.ticks : h <= poses'.to) /\ poses'.from >= 0 /\ poses'.to <= End,
         UNCHANGED <<cursor, head, moves, timer, generation, torn>>
  PROVE  RefreshInv'
<1> USE DEF RefreshInv
<1>1. reads' \subseteq Read /\ r.t \in Ticks
  BY DEF Read
<1>2. \A q \in reads' : Overtaken(q)'
  BY DEF ReadsAgree, Overtaken
<1>3. ReadsAgree'
  <2>1. /\ \A q \in reads' : q.gen <= generation'
        /\ \A p, q \in reads' : p.gen = q.gen => p = q
    BY DEF ReadsAgree
  <2> QED BY <1>2, <2>1 DEF ReadsAgree
<1>4. RecordsAreThere' /\ LoadedPosesAreComplete'
  BY DEF RecordsAreThere, LoadedPosesAreComplete
<1> QED BY <1>1, <1>3, <1>4

\* A page of records.
LEMMA RecordsArriveKeeps ==
  ASSUME RefreshInv, NEW r, RecordsArrive(r)
  PROVE  RefreshInv'
<1> USE DEF RefreshInv
<1> DEFINE page == PageOf(r.after, r.t)
           all  == list \o page
           last == IF page = <<>> THEN through ELSE page[Len(page)]
<1>1. r \in reads /\ r \in Read /\ r.t \in Ticks /\ r.at = "records" /\ r.gen \in Nat
  BY DEF RecordsArrive, Read
<1>2. CASE Overtaken(r)
  BY <1>1, <1>2, DroppedKeeps DEF RecordsArrive
<1>3. CASE ~Overtaken(r)
  <2>1. r.after = through /\ through = LastOf(list) /\ Consecutive(list) /\ r.t <= head
    BY <1>1, <1>3 DEF ReadsAgree, RecordsAreThere, NoRecordIsSkipped
  <2>2. /\ all \in Seq(Nat) /\ Consecutive(all) /\ LastOf(all) = last
        /\ Len(page) # Page => LastOf(all) >= Upto[r.t]
        /\ through <= Upto[r.t] => LastOf(all) <= Upto[r.t]
    BY <1>1, <2>1, PageExtends
  <2>3. /\ through' = last
        /\ Len(page) = Page => /\ list' = all /\ UNCHANGED <<loadedTo, shownAt>>
                               /\ reads' = (reads \ {r}) \cup {[r EXCEPT !.after = last, !.paged = TRUE]}
        /\ Len(page) # Page =>
             /\ list' = Trimmed(all) /\ loadedTo' = r.t
             /\ Enough(r.t) => reads' = reads \ {r} /\ shownAt' = r.t
             /\ ~Enough(r.t) => reads' = (reads \ {r}) \cup {PosesRead(r)} /\ shownAt' = shownAt
    BY <1>3 DEF RecordsArrive, Finish
  <2>4. UNCHANGED <<cursor, head, moves, timer, generation, poses, torn>>
    BY DEF RecordsArrive
  <2> HIDE DEF last, page
  <2>5. last \in Nat
    BY <2>2 DEF LastOf
  <2>6. /\ Trimmed(all) \in Seq(Nat) /\ Consecutive(Trimmed(all))
        /\ LastOf(Trimmed(all)) = last
    BY <2>2, TrimKeeps
  <2>7. list' \in Seq(Nat) /\ NoRecordIsSkipped' /\ through' \in Nat /\ loadedTo' \in Ticks
    BY <1>1, <2>2, <2>3, <2>5, <2>6 DEF NoRecordIsSkipped
  <2>a. ~torn => through <= Upto[r.t]
    <3>1. CASE r.paged
      BY <1>1, <1>3, <3>1 DEF ReadsAgree
    <3>2. CASE ~r.paged
      <4>1. ~torn => through <= Upto[loadedTo] /\ loadedTo <= r.t
        BY <1>1, <1>3, <3>2 DEF ReadsAgree
      <4>2. Upto[loadedTo] \in Nat /\ Upto[r.t] \in Nat
        BY <1>1, ReplayAssumption
      <4>3. loadedTo <= r.t => Upto[loadedTo] <= Upto[r.t]
        BY <1>1, ReplayAssumption
      <4> QED BY <4>1, <4>2, <4>3
    <3> QED BY <3>1, <3>2
  <2>b. ~torn => last <= Upto[r.t]
    BY <2>2, <2>a
  <2>8. CASE Len(page) = Page
    <3> DEFINE s == [r EXCEPT !.after = last, !.paged = TRUE]
    <3>1. /\ s \in Read /\ s.gen = r.gen /\ s.t = r.t /\ s.at = "records" /\ s.after = through'
          /\ s.paged
      BY <1>1, <2>3, <2>5 DEF Read
    <3>2. reads' = (reads \ {r}) \cup {s} /\ UNCHANGED shownAt
      BY <2>3, <2>8
    <3> HIDE DEF s
    <3>3. ~torn => through' <= Upto[s.t]
      BY <2>3, <2>b, <3>1
    <3> QED BY <1>1, <1>3, <2>4, <2>7, <3>1, <3>2, <3>3, NextReadKeeps
  <2>9. CASE Len(page) # Page /\ ~Enough(r.t)
    <3> DEFINE s == PosesRead(r)
    <3>1. /\ s \in Read /\ s.gen = r.gen /\ s.t = r.t /\ s.at = "poses"
          /\ s.from \in 0..s.t \/ ~s.fresh
          /\ s.to \in s.t..End /\ s.from <= s.to
          /\ ~s.fresh => s.from = poses.to /\ s.t \in poses.from..poses.to
      BY <1>1, <2>1, <2>9, PosesReadFits
    <3>2. reads' = (reads \ {r}) \cup {s} /\ UNCHANGED shownAt
      BY <2>3, <2>9
    <3> HIDE DEF s
    <3>a. Upto[r.t] \in Nat
      BY <1>1, ReplayAssumption
    <3>b. through' = last /\ loadedTo' = r.t /\ last >= Upto[r.t]
      BY <2>2, <2>3, <2>9
    <3>c. ~torn => last = Upto[r.t]
      BY ONLY <2>5, <2>b, <3>a, <3>b
    <3>3. /\ through' >= Upto[s.t] /\ loadedTo' = s.t
          /\ ~torn => through' = Upto[s.t]
      BY <3>1, <3>b, <3>c
    <3> QED BY <1>1, <1>3, <2>4, <2>7, <3>1, <3>2, <3>3, NextReadKeeps
  <2>10. CASE Len(page) # Page /\ Enough(r.t)
    <3>1. /\ reads' = reads \ {r} /\ shownAt' = r.t /\ through' >= Upto[r.t]
          /\ loadedTo' = r.t
      BY <2>2, <2>3, <2>10
    <3>a. Upto[r.t] \in Nat
      BY <1>1, ReplayAssumption
    <3>b. ~torn => through' = Upto[r.t]
      BY <2>3, <2>5, <2>b, <3>1, <3>a
    <3>c. ~torn => through' <= Upto[loadedTo']
      BY <3>1, <3>a, <3>b
    <3>2. r.t >= poses.from /\ r.t <= poses.to
      BY <2>10 DEF Enough, Inside
    <3>3. /\ \A p \in Ticks : p >= poses'.from /\ p <= poses'.to => p \in poses'.ticks
          /\ (\A h \in poses'.ticks : h <= poses'.to) /\ poses'.from >= 0 /\ poses'.to <= End
          /\ poses' \in Window
      BY <2>4 DEF LoadedPosesAreComplete, ReadsAgree
    <3> QED BY <1>1, <1>3, <2>4, <2>7, <3>1, <3>2, <3>3, <3>b, <3>c, FinishKeeps
  <2> QED BY <2>8, <2>9, <2>10
<1> QED BY <1>2, <1>3

\* A window of poses, or its next stretch.
LEMMA PosesArriveKeeps ==
  ASSUME RefreshInv, NEW r, PosesArrive(r)
  PROVE  RefreshInv'
<1> USE DEF RefreshInv
<1>1. /\ r \in reads /\ r \in Read /\ r.t \in 0..End /\ r.at = "poses"
      /\ r.from \in Int /\ r.to \in Int /\ r.fresh \in BOOLEAN
      /\ End \in Nat /\ Behind \in Nat
  BY ReplayAssumption DEF PosesArrive, Read, Ticks
<1>2. CASE Overtaken(r)
  BY <1>1, <1>2, DroppedKeeps DEF PosesArrive
<1>3. CASE ~Overtaken(r)
  <2> DEFINE got == r.from..r.to
  <2>1. /\ reads' = reads \ {r} /\ shownAt' = r.t
        /\ poses' = IF r.fresh THEN [from |-> r.from, to |-> r.to, ticks |-> got]
                    ELSE Stretched(r, got)
        /\ UNCHANGED <<cursor, head, moves, timer, generation, list, through, loadedTo, torn>>
    BY <1>3 DEF PosesArrive, Finish
  <2>2. /\ through >= Upto[r.t] /\ (~torn => through = Upto[r.t])
        /\ r.from \in 0..r.t \/ ~r.fresh
        /\ r.to \in r.t..End /\ r.from <= r.to
        /\ ~r.fresh => r.from = poses.to /\ r.t \in poses.from..poses.to
    BY <1>1, <1>3 DEF ReadsAgree
  <2>3. /\ poses.from \in Int /\ poses.to \in Int /\ poses.ticks \subseteq 0..End
        /\ poses.from >= 0 /\ poses.to <= End /\ \A h \in poses.ticks : h <= poses.to
    BY DEF Window, ReadsAgree, Ticks
  <2>4. \A p \in 0..End : p >= poses.from /\ p <= poses.to => p \in poses.ticks
    BY DEF LoadedPosesAreComplete, Ticks
  <2> DEFINE Fits(w) == /\ w \in Window
                        /\ \A p \in Ticks : p >= w.from /\ p <= w.to => p \in w.ticks
                        /\ r.t >= w.from /\ r.t <= w.to
                        /\ \A h \in w.ticks : h <= w.to
                        /\ w.from >= 0 /\ w.to <= End
  <2>5. ASSUME r.fresh PROVE Fits(poses')
    <3>1. poses' = [from |-> r.from, to |-> r.to, ticks |-> got]
      BY <2>1, <2>5
    <3>2. poses'.from = r.from /\ poses'.to = r.to /\ poses'.ticks = got
      BY <3>1
    <3>3. got \subseteq 0..End
      BY <1>1, <2>2, <2>5
    <3>4. poses' \in Window
      BY <1>1, <3>1, <3>3 DEF Window, Ticks
    <3>5. \A p \in Ticks : p >= r.from /\ p <= r.to => p \in got
      BY <1>1 DEF Ticks
    <3>6. \A h \in got : h <= r.to
      BY <1>1
    <3>7. r.t >= r.from /\ r.t <= r.to /\ r.from >= 0 /\ r.to <= End
      BY <1>1, <2>2, <2>5
    <3> QED BY <3>2, <3>4, <3>5, <3>6, <3>7
  <2>6. ASSUME ~r.fresh PROVE Fits(poses')
    <3> DEFINE more == {s \in got : \A h \in poses.ticks : s > h}
               all  == poses.ticks \cup more
               from == Greater(poses.from, r.t - Behind)
    <3>1. poses' = [from |-> from, to |-> r.to, ticks |-> Bounded(all, r.t)]
      BY <2>1, <2>6 DEF Stretched
    <3>2. got \subseteq 0..End
      BY <1>1, <2>2, <2>3, <2>6
    <3>3. Bounded(all, r.t) \subseteq all /\ all \subseteq 0..End
      BY <2>3, <3>2 DEF Bounded
    <3>4. from \in Int /\ from >= poses.from /\ from >= r.t - Behind /\ from <= r.t
      BY <1>1, <2>2, <2>3, <2>6 DEF Greater
    <3>5. poses' \in Window
      BY <1>1, <3>1, <3>3, <3>4 DEF Window, Ticks
    <3>6. ASSUME NEW p \in 0..End, p >= from, p <= r.to PROVE p \in Bounded(all, r.t)
      <4>1. p \in all
        <5>1. CASE p <= poses.to
          BY <2>3, <2>4, <3>4, <3>6, <5>1
        <5>2. CASE p > poses.to
          <6>1. p \in got
            BY <1>1, <2>2, <2>3, <2>6, <3>6, <5>2
          <6>2. \A h \in poses.ticks : p > h
            BY <2>3, <5>2
          <6> QED BY <6>1, <6>2
        <5> QED BY <2>3, <5>1, <5>2
      <4>2. p >= r.t - Behind
        BY <1>1, <3>4, <3>6
      <4> HIDE DEF all
      <4> QED BY <4>1, <4>2 DEF Bounded
    <3>7. \A h \in all : h <= r.to
      BY <1>1, <2>2, <2>3, <2>6
    <3> HIDE DEF all, from
    <3>8. poses'.from = from /\ poses'.to = r.to /\ poses'.ticks = Bounded(all, r.t)
      BY <3>1
    <3>9. from >= 0 /\ r.t >= from /\ r.t <= r.to /\ r.to <= End
      BY <1>1, <2>2, <2>3, <3>4
    <3> QED BY <3>3, <3>5, <3>6, <3>7, <3>8, <3>9 DEF Ticks
  <2>7. Fits(poses')
    BY <2>5, <2>6
  <2>8. list' \in Seq(Nat) /\ NoRecordIsSkipped' /\ through' >= Upto[r.t]
        /\ through' \in Nat /\ loadedTo' \in Ticks /\ (~torn => through' = Upto[r.t])
    BY <2>1, <2>2 DEF RecordsAreThere, NoRecordIsSkipped
  <2>9. ~torn => through' <= Upto[loadedTo']
    <3>1. ASSUME NEW q \in reads PROVE ~LeftHalfway(q)
      BY <1>1, <1>3 DEF ReadsAgree, Overtaken, LeftHalfway
    <3> QED BY <2>1, <3>1 DEF ReadsAgree
  <2> QED BY <1>1, <1>3, <2>1, <2>7, <2>8, <2>9, FinishKeeps
<1> QED BY <1>2, <1>3

(***************************************************************************)
(* The invariants                                                          *)
(***************************************************************************)
LEMMA InitOK == Init => IInv
<1> SUFFICES ASSUME Init PROVE IInv
  OBVIOUS
<1>1. cursor \in Ticks /\ head \in Ticks
  BY ReplayAssumption DEF Init
<1>2. CursorNow \in Ticks /\ CursorNow <= head /\ 0 \in Ticks
  BY <1>1, CursorIsATick, ReplayAssumption DEF Ticks
<1>3. RefreshInv
  <2> DEFINE r == RecordsRead(1, CursorNow, 0)
  <2>1. /\ r \in Read /\ r.gen = 1 /\ r.at = "records" /\ r.after = 0 /\ r.t = CursorNow
        /\ ~r.paged
    BY <1>2 DEF RecordsRead, Read
  <2>2. reads = {r} /\ generation = 1 /\ through = 0 /\ shownAt = None /\ ~torn
    BY DEF Init
  <2>3. poses = [from |-> 0, to |-> -1, ticks |-> {}]
    BY DEF Init, None
  <2> HIDE DEF r
  <2>c. loadedTo = 0 /\ Upto[0] \in Nat /\ 0 <= CursorNow
    BY <1>2, ReplayAssumption DEF Init, Ticks
  <2>4. ReadsAgree
    BY <2>c, <1>2, <2>1, <2>2, <2>3, ReplayAssumption DEF ReadsAgree
  <2>5. ~CaughtUp
    BY <2>2 DEF CaughtUp, None, Ticks
  <2>6. RecordsAreThere /\ LoadedPosesAreComplete
    BY <2>3, <2>5 DEF Init, RecordsAreThere, NoRecordIsSkipped, Consecutive, LastOf,
                      LoadedPosesAreComplete, Ticks
  <2>7. poses \in Window
    BY <2>3 DEF Window
  <2>8. moves = 0 /\ timer = FALSE /\ list = <<>> /\ loadedTo = 0 /\ torn = FALSE
    BY DEF Init
  <2>9. reads \subseteq Read /\ shownAt \in Ticks \cup {None, Failed} /\ list \in Seq(Nat)
    BY <2>1, <2>2, <2>8
  <2> QED BY <1>1, <1>2, <2>2, <2>4, <2>6, <2>7, <2>8, <2>9 DEF RefreshInv
<1>4. BeliefInv
  <2> DEFINE q == [id |-> 1, tick |-> CursorNow, at |-> "coarse", seen |-> {}]
  <2>1. q \in Request /\ q.id = 1 /\ q.at = "coarse"
    BY <1>2 DEF Request
  <2>2. CursorNow # None
    BY <1>2 DEF None, Ticks
  <2>a. NoRequests.mine + 1 = 1 /\ NoRequests.requests \cup {q} = {q}
        /\ NoRequests.delivered = None
    BY DEF NoRequests
  <2>b. belief = [NoRequests EXCEPT !.mine = 1, !.requests = {q}]
    BY <2>2, <2>a DEF Init, Asked
  <2>3. belief = [delivered |-> None, shown |-> {}, mine |-> 1, requests |-> {q},
                  refused |-> FALSE]
    BY <2>b DEF NoRequests
  <2> HIDE DEF q
  <2>4. belief \in Belief
    BY <2>1, <2>3 DEF Belief
  <2>5. RequestsAgree /\ BeliefIsOfItsTick
    BY <2>1, <2>3 DEF RequestsAgree, BeliefIsOfItsTick
  <2>6. display \in [Chunks -> Ticks \cup {None}]
    BY DEF Init
  <2> QED BY <2>4, <2>5, <2>6 DEF BeliefInv
<1> QED BY <1>3, <1>4 DEF IInv

LEMMA StepOK == IInv /\ [Next]_vars => IInv'
<1> SUFFICES ASSUME IInv, [Next]_vars PROVE IInv'
  OBVIOUS
<1> USE DEF IInv
<1>1. cursor \in Ticks /\ head \in Ticks /\ Ticks \subseteq Nat
  BY ReplayAssumption DEF RefreshInv, Ticks
<1>2. CursorNow \in Ticks /\ CursorNow <= head
  BY <1>1, CursorIsATick
<1>3. UNCHANGED <<belief, display>> => BeliefInv'
  BY DEF BeliefInv, RequestsAgree, BeliefIsOfItsTick, Stale
<1>4. UNCHANGED <<cursor, head, moves, timer, generation, reads, list, through, loadedTo,
                  poses, shownAt, torn>> => RefreshInv'
  BY LaterKeeps, <1>1 DEF RefreshInv
<1>5. ASSUME NEW t \in Ticks, Move(t) PROVE IInv'
  <2>1. /\ cursor' = t /\ moves' = moves + 1 /\ UNCHANGED <<head, poses, shownAt, belief, display>>
        /\ Schedule(Lesser(head, t))
    BY <1>5 DEF Move
  <2>2. Lesser(head, t) \in Ticks /\ Lesser(head, t) <= head
    BY <1>1 DEF Lesser
  <2>3. cursor' \in Ticks /\ head' \in Ticks /\ moves' \in Nat /\ head <= head'
    BY <1>1, <2>1 DEF RefreshInv
  <2>4. RefreshInv'
    BY <2>1, <2>2, <2>3, RefreshKeeps, LaterKeeps DEF Schedule
  <2> QED BY <1>3, <2>1, <2>4
<1>6. ASSUME NEW h \in Ticks, HeadGrows(h) PROVE IInv'
  <2>1. /\ head' = h /\ h > head /\ moves' = moves + 1
        /\ UNCHANGED <<cursor, poses, shownAt, belief, display>>
        /\ Schedule(Lesser(h, cursor))
    BY <1>6 DEF HeadGrows
  <2>2. Lesser(h, cursor) \in Ticks /\ Lesser(h, cursor) <= head'
    BY <1>1, <2>1 DEF Lesser
  <2>3. cursor' \in Ticks /\ head' \in Ticks /\ moves' \in Nat /\ head <= head'
    BY <1>1, <2>1 DEF RefreshInv
  <2>4. RefreshInv'
    BY <2>1, <2>2, <2>3, RefreshKeeps, LaterKeeps DEF Schedule
  <2> QED BY <1>3, <2>1, <2>4
<1>7. ASSUME TimerFires PROVE IInv'
  <2>1. /\ Refresh(CursorNow) /\ timer' = FALSE
        /\ UNCHANGED <<cursor, head, moves, poses, shownAt, belief, display>>
    BY <1>7 DEF TimerFires
  <2>2. RefreshInv'
    BY <1>1, <1>2, <2>1, RefreshKeeps DEF RefreshInv
  <2> QED BY <1>3, <2>1, <2>2
<1>8. ASSUME NEW r \in reads, RecordsArrive(r) PROVE IInv'
  <2>1. belief' = belief \/ belief' = Asked(belief, CursorNow)
    BY <1>8 DEF RecordsArrive, Finish
  <2>2. UNCHANGED display
    BY <1>8 DEF RecordsArrive
  <2> QED BY <1>2, <1>3, <1>8, <2>1, <2>2, AskedKeeps, RecordsArriveKeeps
<1>9. ASSUME NEW r \in reads, PosesArrive(r) PROVE IInv'
  <2>1. belief' = belief \/ belief' = Asked(belief, CursorNow)
    BY <1>9 DEF PosesArrive, Finish
  <2>2. UNCHANGED display
    BY <1>9 DEF PosesArrive
  <2> QED BY <1>2, <1>3, <1>9, <2>1, <2>2, AskedKeeps, PosesArriveKeeps
<1>10. ASSUME NEW q \in belief.requests, BeliefArrives(q) PROVE IInv'
  BY <1>4, <1>10, BeliefArrivesKeeps DEF BeliefArrives
<1>11. ASSUME NEW r \in reads, ReadFails(r) PROVE IInv'
  <2>1. /\ reads' = reads \ {r}
        /\ \/ Overtaken(r) /\ shownAt' = shownAt /\ torn' = torn
           \/ ~Overtaken(r) /\ shownAt' = Failed /\ torn' = (torn \/ LeftHalfway(r))
    BY <1>11 DEF ReadFails, Overtaken, LeftHalfway, RefreshInv
  <2>2. UNCHANGED <<cursor, head, moves, timer, generation, list, through, loadedTo, poses,
                    belief, display>>
    BY <1>11 DEF ReadFails
  <2> QED BY <1>3, <2>1, <2>2, DroppedKeeps
<1>12. ASSUME NEW q \in belief.requests, BeliefRefused(q) PROVE IInv'
  BY <1>4, <1>12, BeliefRefusedKeeps DEF BeliefRefused
<1>13. CASE UNCHANGED vars
  BY <1>3, <1>4, <1>13 DEF vars
<1> QED
  BY <1>5, <1>6, <1>7, <1>8, <1>9, <1>10, <1>11, <1>12, <1>13 DEF Next, Answers

\* The inductive invariant holds of every run.
THEOREM Invariant == Spec => []IInv
BY InitOK, StepOK, PTL DEF Spec

\* The types of the source's state hold of every run.
THEOREM TypeCorrect == Spec => []TypeOK
<1>1. IInv => TypeOK
  BY DEF IInv, RefreshInv, BeliefInv, TypeOK
<1> QED BY <1>1, Invariant, PTL

\* The record list is a stretch of the run without a gap, whatever overtook what;
\* when a refresh is over it reaches up to its tick, and ends there unless another
\* refresh was left between two pages (loadRecordsTo).
THEOREM RecordsStayTogether == Spec => []RecordsAreThere
<1>1. IInv => RecordsAreThere
  BY DEF IInv, RefreshInv
<1> QED BY <1>1, Invariant, PTL

\* The loaded window of poses has no gap, and holds the cursor when a refresh is
\* over (loadPosesAround).
THEOREM PosesStayComplete == Spec => []LoadedPosesAreComplete
<1>1. IInv => LoadedPosesAreComplete
  BY DEF IInv, RefreshInv
<1> QED BY <1>1, Invariant, PTL

\* A belief map that was read to its end is of one tick, whatever answers of
\* overtaken reads came in between (watchBelief).
THEOREM BeliefsAreNotMixed == Spec => []BeliefIsOfItsTick
<1>1. IInv => BeliefIsOfItsTick
  BY DEF IInv, BeliefInv
<1> QED BY <1>1, Invariant, PTL
=============================================================================
