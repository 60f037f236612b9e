-------------------------- MODULE ReplayProperties --------------------------
(***************************************************************************)
(* What the panels may rely on while a recorded run is scrubbed.           *)
(***************************************************************************)
EXTENDS Replay

Window == [from : Int, to : Int, ticks : SUBSET Ticks]
Belief == [delivered : Ticks \cup {None}, shown : SUBSET Chunks, mine : Nat,
           requests : SUBSET Request, refused : BOOLEAN]

\* Types of the source's state.
TypeOK ==
  /\ cursor \in Ticks /\ head \in Ticks /\ moves \in Nat
  /\ timer \in BOOLEAN /\ generation \in Nat /\ reads \subseteq Read
  /\ list \in Seq(Nat) /\ through \in Nat /\ loadedTo \in Ticks
  /\ poses \in Window /\ shownAt \in Ticks \cup {None, Failed} /\ torn \in BOOLEAN
  /\ belief \in Belief /\ display \in [Chunks -> Ticks \cup {None}]

\* The newest refresh is over and did not fail.
CaughtUp == shownAt \in Ticks /\ \A r \in reads : Overtaken(r)

\* The list is a stretch of the run's records, none twice and none missing in
\* between, whatever overtook what while it was read forward, cut and trimmed.
Consecutive(l) == \A i \in 1..Len(l) : l[i] = l[1] + i - 1
NoRecordIsSkipped == Consecutive(list) /\ through = LastOf(list)

\* ... and once a refresh is over it reaches up to its tick, and no further: unless
\* a refresh was overtaken or refused between two of its pages since the list was
\* last cut, and left on it what it had put there.
RecordsAreThere ==
  /\ NoRecordIsSkipped
  /\ CaughtUp => /\ through >= Upto[shownAt]
                 /\ ~torn => through = Upto[shownAt]

\* Between the ends of the loaded window no pose is missing (the interpolation
\* would draw a straight line across the gap), and the cursor is in it.
LoadedPosesAreComplete ==
  /\ \A s \in Ticks : s >= poses.from /\ s <= poses.to => s \in poses.ticks
  /\ CaughtUp => shownAt >= poses.from /\ shownAt <= poses.to

\* Once the newest read of the belief map is over, every chunk known at its tick
\* shows its content of that tick: answers for other ticks came and were dropped,
\* coarse ones were refined. (Unless one was refused.)
BeliefIsOfItsTick ==
  belief.delivered # None /\ (\A q \in belief.requests : Stale(q)) /\ ~belief.refused =>
    \A c \in Known(belief.delivered) : display[c] = belief.delivered

\* The refreshes under way: one is the newest, at most, and what it asked for
\* follows what is loaded: nothing later than loadedTo, or than what it has read.
ReadsAgree ==
  /\ \A r \in reads : r.gen <= generation
  /\ \A r, s \in reads : r.gen = s.gen => r = s
  /\ \A r \in reads : ~Overtaken(r) =>
       /\ r.t <= head
       /\ r.at = "records" => r.after = through
       /\ r.at = "records" /\ ~torn =>
            IF r.paged THEN through <= Upto[r.t]
            ELSE through <= Upto[loadedTo] /\ loadedTo <= r.t
       /\ r.at = "poses" => /\ through >= Upto[r.t]
                            /\ ~torn => through = Upto[r.t]
                            /\ r.from \in 0..r.t \/ ~r.fresh
                            /\ r.to \in r.t..End /\ r.from <= r.to
                            /\ ~r.fresh => r.from = poses.to /\ r.t \in poses.from..poses.to
  /\ (\A r \in reads : ~LeftHalfway(r)) /\ ~torn => through <= Upto[loadedTo]
  /\ \A h \in poses.ticks : h <= poses.to
  /\ poses.from >= 0 /\ poses.to <= End

\* The reads of the belief map: one is the newest, at most, and before its last
\* answer the groups it has read are shown.
RequestsAgree ==
  /\ \A q \in belief.requests : q.id <= belief.mine
  /\ \A p, q \in belief.requests : p.id = q.id => p = q
  /\ \A q \in belief.requests : ~Stale(q) /\ q.at = "rest" =>
       \A c \in Near \cap Known(q.tick) : c \in q.seen /\ display[c] = q.tick

\* The inductive invariant of the proofs (ReplayProofs.tla): of the refreshes,
\* and of the belief map.
RefreshInv ==
  /\ cursor \in Ticks /\ head \in Ticks /\ moves \in Nat
  /\ timer \in BOOLEAN /\ generation \in Nat /\ reads \subseteq Read
  /\ list \in Seq(Nat) /\ through \in Nat /\ loadedTo \in Ticks
  /\ poses \in Window /\ shownAt \in Ticks \cup {None, Failed} /\ torn \in BOOLEAN
  /\ ReadsAgree /\ RecordsAreThere /\ LoadedPosesAreComplete
BeliefInv ==
  /\ belief \in Belief /\ display \in [Chunks -> Ticks \cup {None}]
  /\ RequestsAgree /\ BeliefIsOfItsTick
IInv == RefreshInv /\ BeliefInv

\* However it was moved, and whatever overtook what: once the cursor and the end
\* of the recording stay where they are, the panels show that tick in the end,
\* or the newest read failed ("the next move tries again").
CursorIsReached == <>[](~timer /\ shownAt \in {CursorNow, Failed})
=============================================================================
