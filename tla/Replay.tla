------------------------------- MODULE Replay -------------------------------
(***************************************************************************)
(* A recorded run as the panels see it at the time cursor: the run source  *)
(* of apps/lab/src/sim/replay-run-source.ts. The cursor moves at any time; *)
(* everything shown is read from storage in the background, and reads that *)
(* were overtaken by a newer one still answer.                             *)
(*                                                                         *)
(* Time is in ticks. The records of the run are numbered from 1 in the     *)
(* order of their seqs, which is the order of their times; of a pose only  *)
(* its tick is kept, and of a chunk of an agent's belief map the tick its  *)
(* content is of. The recording may still grow: head is what is stored.    *)
(***************************************************************************)
EXTENDS Integers, Sequences, FiniteSets

CONSTANTS
  End,          \* the last tick of the run
  Upto,         \* the number of records up to each tick
  Page,         \* PAGE: records a query returns
  MaxRecords,   \* MAX_RECORDS
  Behind, Ahead,\* POSE_BEHIND_S, POSE_AHEAD_S
  Refill,       \* POSE_REFILL_S
  Chunks, Near, \* the chunks of the belief map; those the first read brings
  SeenFrom,     \* the tick from which each is known
  KeyframeAt,   \* the tick of the last keyframe at each tick
  Heads,        \* what may be stored when the run is opened
  MaxMoves,     \* bound: moves of the cursor and of the head
  Faults        \* whether a read may fail

Ticks == 0..End

ASSUME ReplayAssumption ==
  /\ End \in Nat /\ Heads \subseteq Ticks /\ MaxMoves \in Nat /\ Faults \in BOOLEAN
  /\ Upto \in [Ticks -> Nat] /\ \A s, t \in Ticks : s <= t => Upto[s] <= Upto[t]
  /\ Page \in Nat \ {0} /\ MaxRecords \in Nat \ {0}
  /\ Behind \in Nat /\ Ahead \in Nat /\ Refill \in Nat
  /\ Near \subseteq Chunks /\ SeenFrom \in [Chunks -> Ticks]
  /\ KeyframeAt \in [Ticks -> Ticks] /\ \A t \in Ticks : KeyframeAt[t] <= t

VARIABLES
  cursor,       \* where the researcher put the time cursor
  head,         \* headS: the end of what is stored
  moves,        \* bound
  timer,        \* a refresh is due when the timer fires
  generation,   \* the newest refresh
  reads,        \* the refreshes that wait for an answer of storage
  list,         \* recordList
  through,      \* recordsThroughSeq: the last record of the list, 0: none
  loadedTo,     \* recordsLoadedTo
  poses,        \* the poses loaded: their window and their ticks
  shownAt,      \* the tick of the last rebuild, or that the newest refresh failed
  torn,         \* history: records were left that a refresh did not come to the end of
  belief,       \* the watched map: what is delivered, shown and being read
  display       \* the tick of the content shown of each chunk

vars == <<cursor, head, moves, timer, generation, reads, list, through, loadedTo,
          poses, shownAt, torn, belief, display>>

None    == -1    \* nothing yet, unknown
Failed  == -2

Lesser(m, n)  == IF m < n THEN m ELSE n
Greater(m, n) == IF m < n THEN n ELSE m

CursorNow == Lesser(head, cursor)

(***************************************************************************)
(* A refresh first brings the records up to the cursor, then the poses     *)
(***************************************************************************)
\* (`paged` is history: a full page was put on the list, and another is asked for.)
Read == [gen : Nat, t : Ticks, at : {"records", "poses"},
         after : Nat, paged : BOOLEAN, fresh : BOOLEAN, from : Int, to : Int]

RecordsRead(gen, t, after) ==
  [gen |-> gen, t |-> t, at |-> "records", after |-> after,
   paged |-> FALSE, fresh |-> FALSE, from |-> 0, to |-> 0]

\* Going back: the records after the cursor are cut, from the end of the list.
Cut(l, t) ==
  SubSeq(l, 1, CHOOSE k \in 0..Len(l) :
                 /\ k > 0 => l[k] <= Upto[t]
                 /\ \A i \in (k + 1)..Len(l) : l[i] > Upto[t])
LastOf(l) == IF l = <<>> THEN 0 ELSE l[Len(l)]

\* One page: the records after the last one read, up to the refresh's tick.
PageOf(after, t) ==
  [i \in 1..Lesser(Page, Greater(0, Upto[t] - after)) |-> after + i]

\* The newest records are kept.
Trimmed(l) == IF Len(l) > MaxRecords THEN SubSeq(l, Len(l) - MaxRecords + 1, Len(l)) ELSE l

\* Overtaken or refused now, a refresh leaves pages on a list that still counts
\* as loaded up to the tick of the refresh before it.
LeftHalfway(r) == r.gen = generation /\ r.at = "records" /\ r.paged

\* refresh(): overtakes the one before it, cuts the list and asks for a page.
Refresh(t) ==
  LET back == t < loadedTo
      kept == IF back THEN Cut(list, t) ELSE list
      from == IF back THEN LastOf(kept) ELSE through
  IN  /\ generation' = generation + 1
      /\ list' = kept /\ through' = from
      /\ loadedTo' = IF back THEN t ELSE loadedTo
      /\ reads' = reads \cup {RecordsRead(generation + 1, t, from)}
      /\ torn' = (~back /\ (torn \/ \E r \in reads : LeftHalfway(r)))

\* schedule(): at most one refresh per interval; before that the timer has one.
\* (OrDropIt: a move within the interval is left out.)
OrDropIt(t) ==
  \/ Refresh(t) /\ timer' = FALSE
  \/ UNCHANGED <<timer, generation, reads, list, through, loadedTo, torn>>
Schedule(t) ==
  \/ Refresh(t) /\ timer' = FALSE
  \/ /\ timer' = TRUE
     /\ UNCHANGED <<generation, reads, list, through, loadedTo, torn>>

Move(t) ==
  /\ moves < MaxMoves /\ t # cursor
  /\ cursor' = t /\ moves' = moves + 1
  /\ Schedule(Lesser(head, t))
  /\ UNCHANGED <<head, poses, shownAt, belief, display>>

HeadGrows(h) ==
  /\ moves < MaxMoves /\ h > head
  /\ head' = h /\ moves' = moves + 1
  /\ Schedule(Lesser(h, cursor))
  /\ UNCHANGED <<cursor, poses, shownAt, belief, display>>

TimerFires ==
  /\ timer
  /\ Refresh(CursorNow) /\ timer' = FALSE
  /\ UNCHANGED <<cursor, head, moves, poses, shownAt, belief, display>>

(***************************************************************************)
(* The watched belief map: a coarse read, the groups nearest the middle as *)
(* they are at the tick, then the rest                                     *)
(***************************************************************************)
Known(t) == {c \in Chunks : SeenFrom[c] <= t}

Request == [id : Nat, tick : Ticks, at : {"coarse", "first", "rest"}, seen : SUBSET Chunks]
\* (`refused` is history: a read was refused since the last delivery.)
NoRequests ==
  [delivered |-> None, shown |-> {}, mine |-> 0, requests |-> {}, refused |-> FALSE]

\* request(), called by a watcher.
Asked(b, t) ==
  IF t = b.delivered THEN b
  ELSE [b EXCEPT !.mine = @ + 1,
                 !.requests = @ \cup {[id |-> b.mine + 1, tick |-> t, at |-> "coarse", seen |-> {}]}]

\* Whether a request, or a refresh, was overtaken by a newer one.
\* (NeverOvertaken, NeverStale: the check is not made.)
NeverOvertaken(r) == FALSE
Overtaken(r)      == r.gen # generation
NeverStale(q)     == FALSE
Stale(q)          == q.id # belief.mine

Pushed(chunks, t) == [c \in Chunks |-> IF c \in chunks THEN t ELSE display[c]]

\* The last answer: chunks that were shown and are not known now are blanked.
Delivered(q, others, chunks) ==
  LET seen == q.seen \cup chunks IN
  /\ display' = [c \in Chunks |-> IF c \in belief.shown \ seen THEN None
                                  ELSE Pushed(chunks, q.tick)[c]]
  /\ belief' = [belief EXCEPT !.delivered = q.tick, !.shown = seen,
                           !.requests = others, !.refused = FALSE]

BeliefArrives(q) ==
  /\ q \in belief.requests
  /\ LET others == belief.requests \ {q}
         near(t) == Near \cap Known(t)
         next(at, chunks) ==
           belief' = [belief EXCEPT !.requests = others \cup
                        {[q EXCEPT !.at = at, !.seen = @ \cup chunks]}]
     IN  IF Stale(q) THEN belief' = [belief EXCEPT !.requests = others] /\ UNCHANGED display
         ELSE CASE q.at = "coarse" ->
                     LET k == KeyframeAt[q.tick] IN
                     display' = Pushed(near(k), k) /\ next("first", near(k))
                [] q.at = "first" /\ Known(q.tick) \subseteq Near ->
                     Delivered(q, others, near(q.tick))
                [] q.at = "first" /\ ~(Known(q.tick) \subseteq Near) ->
                     display' = Pushed(near(q.tick), q.tick) /\ next("rest", near(q.tick))
                [] q.at = "rest" -> Delivered(q, others, Known(q.tick) \ Near)
  /\ UNCHANGED <<cursor, head, moves, timer, generation, reads, list, through,
                 loadedTo, poses, shownAt, torn>>

\* The read of the groups at the tick is refused: what was pushed stays.
BeliefRefused(q) ==
  /\ Faults /\ q \in belief.requests /\ q.at # "coarse"
  /\ belief' = [belief EXCEPT !.requests = @ \ {q}, !.refused = @ \/ ~Stale(q)]
  /\ UNCHANGED <<cursor, head, moves, timer, generation, reads, list, through,
                 loadedTo, poses, shownAt, torn, display>>

(***************************************************************************)
(* The answers to a refresh                                                *)
(***************************************************************************)
\* rebuild(), and everyone who listens is told.
Finish(t) ==
  /\ shownAt' = t
  /\ belief' = Asked(belief, CursorNow)

\* The poses around the cursor: nothing to read, a fresh window, or its next
\* stretch.
Inside(t)  == t >= poses.from /\ t <= poses.to
WantTo(t)  == Lesser(t + Ahead, head)
Enough(t)  == Inside(t) /\ (poses.to - t >= Refill \/ WantTo(t) <= poses.to)
PosesRead(r) ==
  [r EXCEPT !.at = "poses", !.fresh = ~Inside(r.t), !.to = WantTo(r.t),
            !.from = IF Inside(r.t) THEN poses.to ELSE Greater(0, r.t - Behind)]

RecordsArrive(r) ==
  /\ r \in reads /\ r.at = "records"
  /\ IF Overtaken(r)
     THEN reads' = reads \ {r} /\ UNCHANGED <<list, through, loadedTo, shownAt, belief>>
     ELSE LET page == PageOf(r.after, r.t)
              all  == list \o page
              last == IF page = <<>> THEN through ELSE page[Len(page)]
          IN  /\ through' = last
              /\ IF Len(page) = Page
                 THEN /\ list' = all
                      /\ reads' = (reads \ {r}) \cup {[r EXCEPT !.after = last, !.paged = TRUE]}
                      /\ UNCHANGED <<loadedTo, shownAt, belief>>
                 ELSE /\ list' = Trimmed(all) /\ loadedTo' = r.t
                      /\ IF Enough(r.t)
                         THEN reads' = reads \ {r} /\ Finish(r.t)
                         ELSE reads' = (reads \ {r}) \cup {PosesRead(r)} /\ UNCHANGED <<shownAt, belief>>
  /\ UNCHANGED <<cursor, head, moves, timer, generation, poses, torn, display>>

\* The window behind the cursor is bounded too.
Bounded(ticks, t) ==
  LET near == {s \in ticks : s >= t - Behind} IN IF near = {} THEN ticks ELSE near

\* (ForgetsTheOld: the stretch takes the place of the window.)
ForgetsTheOld(r, got) == [from |-> poses.from, to |-> r.to, ticks |-> got]
Stretched(r, got) ==
  [from |-> Greater(poses.from, r.t - Behind), to |-> r.to,
   ticks |-> Bounded(poses.ticks \cup {s \in got : \A h \in poses.ticks : s > h}, r.t)]

PosesArrive(r) ==
  /\ r \in reads /\ r.at = "poses" /\ reads' = reads \ {r}
  /\ LET got == r.from..r.to IN
       IF Overtaken(r) THEN UNCHANGED <<poses, shownAt, belief>>
       ELSE /\ poses' = IF r.fresh THEN [from |-> r.from, to |-> r.to, ticks |-> got]
                        ELSE Stretched(r, got)
            /\ Finish(r.t)
  /\ UNCHANGED <<cursor, head, moves, timer, generation, list, through, loadedTo, torn, display>>

\* A failed read leaves what was loaded; the next move tries again.
ReadFails(r) ==
  /\ Faults /\ r \in reads /\ reads' = reads \ {r}
  /\ shownAt' = IF Overtaken(r) THEN shownAt ELSE Failed
  /\ torn' = (torn \/ LeftHalfway(r))
  /\ UNCHANGED <<cursor, head, moves, timer, generation, list, through, loadedTo,
                 poses, belief, display>>

(***************************************************************************)
(* The source of an opened run, with one watcher of a belief map           *)
(***************************************************************************)
Init ==
  /\ head \in Heads /\ cursor \in Ticks /\ moves = 0
  /\ timer = FALSE /\ generation = 1
  /\ reads = {RecordsRead(1, CursorNow, 0)}
  /\ list = <<>> /\ through = 0 /\ loadedTo = 0
  /\ poses = [from |-> 0, to |-> None, ticks |-> {}]
  /\ shownAt = None /\ torn = FALSE
  /\ belief = Asked(NoRequests, CursorNow)
  /\ display = [c \in Chunks |-> None]

Answers ==
  \/ \E r \in reads : RecordsArrive(r) \/ PosesArrive(r)
  \/ \E q \in belief.requests : BeliefArrives(q)

Next ==
  \/ \E t \in Ticks : Move(t) \/ HeadGrows(t)
  \/ TimerFires
  \/ Answers
  \/ \E r \in reads : ReadFails(r)
  \/ \E q \in belief.requests : BeliefRefused(q)

Spec == Init /\ [][Next]_vars

\* Timers fire and storage answers.
FairSpec == Spec /\ WF_vars(TimerFires) /\ WF_vars(Answers)
=============================================================================
