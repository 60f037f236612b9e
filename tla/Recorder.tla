------------------------------ MODULE Recorder ------------------------------
(***************************************************************************)
(* The producer's end of a recording: the trace of a run in memory         *)
(* (packages/trace/src/trace-buffer.ts) and the recorder that gathers from *)
(* it, applies the profile, and hands batches and items to the storage     *)
(* worker (packages/trace/src/recorder.ts).                                *)
(*                                                                         *)
(* A trace record is its seq, whether the profile keeps it, and the tick   *)
(* of the snapshot it refers to. A record and an item weigh one byte each. *)
(* What a method hands to its channel is appended to `sent`.               *)
(***************************************************************************)
EXTENDS Integers, Sequences, FiniteSets, SequencesExt

CONSTANTS
  Capacity,               \* records the cache keeps of what is saved
  HighRecords, LowRecords, \* the marks of the backlog in records ...
  HighBytes, LowBytes      \* ... and in bytes

ASSUME RecorderAssumption ==
  /\ Capacity \in Nat
  /\ HighRecords \in Nat /\ LowRecords \in Nat /\ LowRecords < HighRecords
  /\ HighBytes \in Nat /\ LowBytes \in Nat /\ LowBytes < HighBytes

NoSnapshot == -1
TraceRecord == [seq : Nat, kept : BOOLEAN, refers : Nat \cup {NoSnapshot}]

(***************************************************************************)
(* The trace buffer of a recorded run (it holds what is not persisted)     *)
(***************************************************************************)
\* (`emitted` is history: every record the profile keeps.)
NewBuffer == [records |-> <<>>, seq |-> 0, persistedSeq |-> -1, emitted |-> {}]

\* The oldest records are forgotten, beyond the capacity, if persisted.
\* (ForgetsAnything: persisted or not.)
ForgetsAnything(b, i) == i <= Len(b.records) - Capacity
Forgettable(b, i) ==
  i <= Len(b.records) - Capacity /\ b.records[i].seq <= b.persistedSeq

Forgotten(b) ==
  LET n == Cardinality({i \in DOMAIN b.records : Forgettable(b, i)})
  IN  [b EXCEPT !.records = SubSeq(@, n + 1, Len(@))]

Pushed(b, kept, refers) ==
  LET r == [seq |-> b.seq, kept |-> kept, refers |-> refers]
  IN  Forgotten([b EXCEPT !.seq = @ + 1, !.records = Append(@, r),
                          !.emitted = IF kept THEN @ \cup {r} ELSE @])

MarkedPersisted(b, seq) ==
  LET mark == IF seq < b.seq THEN seq ELSE b.seq - 1
  IN  Forgotten([b EXCEPT !.persistedSeq = IF mark > @ THEN mark ELSE @])

Since(b, seq) ==
  LET skip == IF b.records = <<>> THEN 0 ELSE seq - Head(b.records).seq
  IN  SubSeq(b.records, (IF skip > 0 THEN skip ELSE 0) + 1, Len(b.records))

(***************************************************************************)
(* The recorder                                                            *)
(***************************************************************************)
NoHead == [throughSeq |-> -1, tick |-> -1]

NewRecorder ==
  [cursor |-> 0, held |-> <<>>, heldBytes |-> 0, outbox |-> <<>>, itemsSent |-> 0,
   header |-> FALSE, inFlight |-> <<>>, lastThroughSeq |-> -1, tick |-> 0,
   persistedAt |-> NoHead, waiting |-> FALSE, sent |-> <<>>]

\* What was handed over, or held for the header, and is not reported saved.
Backlog(r) ==
  [records |-> FoldLeft(LAMBDA n, b : n + b.records, Len(r.held), r.inFlight),
   bytes   |-> FoldLeft(LAMBDA n, b : n + b.bytes, r.heldBytes, r.inFlight)]

\* Above a high mark the run waits, until the backlog is at or below both
\* low marks. (WaitsForEver: the low marks are not looked at.)
WaitsForEver(r) ==
  r.waiting \/ Backlog(r).records >= HighRecords \/ Backlog(r).bytes >= HighBytes
Waits(r) ==
  LET b == Backlog(r)
  IN  IF r.waiting THEN b.records > LowRecords \/ b.bytes > LowBytes
      ELSE b.records >= HighRecords \/ b.bytes >= HighBytes

WaitingUpdated(r) == [r EXCEPT !.waiting = Waits(r)]

\* A batch: what is held, the last seq it covers, and the sim head.
Batch(r) ==
  [op |-> "append", by |-> "recorder", records |-> r.held,
   throughSeq |-> r.lastThroughSeq, tick |-> r.tick]

\* (LooksAtWhatIsHeld: not at what is in flight.)
LooksAtWhatIsHeld(r) == r.held = <<>> /\ r.itemsSent = 0
NothingToFlush(r)    == r.held = <<>> /\ r.inFlight = <<>> /\ r.itemsSent = 0

Flushed(r) ==
  IF NothingToFlush(r)
  THEN [r EXCEPT !.persistedAt.tick = IF r.persistedAt = NoHead THEN @ ELSE r.tick]
  ELSE [r EXCEPT !.held = <<>>, !.heldBytes = 0, !.itemsSent = 0,
                 !.inFlight = Append(@, [throughSeq |-> r.lastThroughSeq,
                                         records |-> Len(r.held), bytes |-> r.heldBytes]),
                 !.sent = Append(@, Batch(r))]

CursorAfter(r, fresh) == IF fresh = <<>> THEN r.cursor ELSE Last(fresh).seq + 1

Kept(fresh) == FoldLeft(LAMBDA kept, x : IF x.kept THEN Append(kept, x) ELSE kept, <<>>, fresh)

Gathered(r, b, tick) ==
  LET fresh == Since(b, r.cursor)
      kept  == Kept(fresh)
  IN  [r EXCEPT !.tick = tick,
                !.cursor = CursorAfter(r, fresh),
                !.lastThroughSeq = IF fresh = <<>> THEN @ ELSE Last(fresh).seq,
                !.held = @ \o kept,
                !.heldBytes = @ + Len(kept)]

Collected(r, b, tick) ==
  LET g == Gathered(r, b, tick)
  IN  WaitingUpdated(IF g.header THEN Flushed(g) ELSE g)

Enqueued(r, item) ==
  WaitingUpdated(IF r.header
                 THEN [r EXCEPT !.heldBytes = @ + 1, !.itemsSent = @ + 1,
                                !.sent = Append(@, item)]
                 ELSE [r EXCEPT !.heldBytes = @ + 1, !.outbox = Append(@, item)])

\* The items held for the header go out, then what was gathered.
HeaderStored(r) ==
  IF r.header THEN r
  ELSE WaitingUpdated(Flushed([r EXCEPT !.header = TRUE, !.outbox = <<>>,
                                        !.itemsSent = @ + Len(r.outbox),
                                        !.sent = @ \o r.outbox]))

\* The storage worker reports a head: one that goes back is ignored.
GoesBack(r, head) == r.persistedAt # NoHead /\ head.tick < r.persistedAt.tick

\* Batches are saved in order: those at the front up to the head.
StillInFlight(r, head) ==
  LET n == Cardinality({i \in DOMAIN r.inFlight : \A j \in 1..i : r.inFlight[j].throughSeq <= head.throughSeq})
  IN  SubSeq(r.inFlight, n + 1, Len(r.inFlight))

Acknowledged(r, head) ==
  WaitingUpdated([r EXCEPT !.inFlight = StillInFlight(r, head), !.persistedAt = head])
=============================================================================
