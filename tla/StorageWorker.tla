---------------------------- MODULE StorageWorker ----------------------------
(***************************************************************************)
(* The storage worker, packages/storage/src/worker/storage-worker.ts: one  *)
(* queue for the requests of the main thread and for what the recorder     *)
(* hands over, served strictly in order by `drain`; appends and items that *)
(* wait together are committed in one transaction; near the quota what the *)
(* recorder hands over is held back.                                       *)
(*                                                                         *)
(* The database works synchronously: no message arrives between two steps  *)
(* of `drain` (at = "draining"), except while it serves a request that     *)
(* awaits the browser (at = "serving"): admin.info, for one.               *)
(***************************************************************************)
EXTENDS Integers, Sequences, FiniteSets, SequencesExt

CONSTANTS
  Live, Derived,  \* the run being recorded, a window re-simulated from it
  FlushAt,        \* FLUSH_RECORDS: records that are committed at once
  Levels,         \* what the quota may be found to be
  Faults          \* what may fail: {"none"}, with "items" and "commit"

ASSUME StorageAssumption ==
  /\ Live # Derived
  /\ FlushAt \in Nat \ {0}
  /\ Levels \subseteq {"low", "middle", "high"} /\ Levels # {}
  /\ Faults \subseteq {"none", "items", "commit"} /\ Faults # {}

VARIABLES
  worker,   \* the worker's own variables
  db,       \* what is committed
  toSim,    \* messages on the way to the recorder, in order
  answer,   \* the answer to the re-simulation's request: "none" until then
  refused   \* history: what the recorder handed over and was told is refused

storageVars == <<worker, db, toSim, answer, refused>>

Runs == {Live, Derived}

\* `full` is quota.paused, `recorded` recordedRunId, `head` the last head
\* announced to the main thread.
InitialWorker ==
  [queue |-> <<>>, held |-> <<>>, at |-> "idle", open |-> TRUE, pending |-> 0,
   flushTimer |-> FALSE, flushDue |-> FALSE, full |-> FALSE, quotaTimer |-> FALSE,
   measuring |-> FALSE, recorded |-> {}, head |-> [throughSeq |-> -1, tick |-> -1]]

\* Of the run being recorded: its records, snapshots, sections and samples.
EmptyDb == [runs |-> {}, records |-> {}, snapshots |-> {}, sections |-> {}, samples |-> {}]

StorageInit ==
  /\ worker = InitialWorker
  /\ db = EmptyDb
  /\ toSim = <<>>
  /\ answer = "none"
  /\ refused = {}

(***************************************************************************)
(* The queue                                                               *)
(***************************************************************************)
Coalescable(e)  == e.op \in {"append", "item"}
FromRecorder(e) == e.by = "recorder"
AppendSize(e)   == IF e.op = "append" THEN Len(e.records) ELSE IF e.op = "item" THEN 1 ELSE 0
SizeOf(queue)   == FoldLeft(LAMBDA n, e : n + AppendSize(e), 0, queue)

\* How many entries at the head of the queue go into one transaction.
RunLength(queue) ==
  Cardinality({i \in DOMAIN queue : \A j \in 1..i : Coalescable(queue[j])})

Woken(w) == [w EXCEPT !.at = IF w.at = "idle" /\ w.open THEN "draining" ELSE @]

\* A message arrives: drain() is called, unless it runs already.
Received(w, e) ==
  Woken([w EXCEPT !.queue = Append(@, e), !.pending = @ + AppendSize(e)])

Holds(e) == FromRecorder(e) /\ worker.full

\* (HoldsAtTheBack: what is held goes behind what waits.)
HoldsAtTheBack(w) == w.queue \o w.held
HeldAgain(w)      == w.held \o w.queue

(***************************************************************************)
(* A transaction                                                           *)
(***************************************************************************)
\* A snapshot refers to a section it carries or that is stored already.
Storable(d, item) ==
  /\ Live \in d.runs
  /\ item.kind = "snapshot" => item.carries \/ item.section \in d.sections

ItemStored(d, item) ==
  IF item.kind = "snapshot"
  THEN [d EXCEPT !.snapshots = @ \cup {item.tick}, !.sections = @ \cup {item.section}]
  ELSE [d EXCEPT !.samples = @ \cup {item.tick}]

RunOf(e) == IF FromRecorder(e) THEN Live ELSE Derived

\* The re-simulation waits for the answer to a request of its own.
AnsweredTo(e) == ~FromRecorder(e) /\ e.run = Derived

RecordsStored(d, e) ==
  IF FromRecorder(e) THEN [d EXCEPT !.records = @ \cup ToSet(e.records)] ELSE d

\* One entry, after those before it: a refused one leaves the rest alone.
Stored(tx, e, fault) ==
  LET ok == IF e.op = "item" THEN fault # "items" /\ Storable(tx.db, e)
            ELSE RunOf(e) \in tx.db.runs
  IN  IF ok
      THEN [tx EXCEPT !.db = IF e.op = "item" THEN ItemStored(@, e) ELSE RecordsStored(@, e),
                      !.results = Append(@, TRUE)]
      ELSE [tx EXCEPT !.results = Append(@, FALSE)]

Transaction(run, fault) ==
  FoldLeft(LAMBDA tx, e : Stored(tx, e, fault), [db |-> db, results |-> <<>>], run)

IsBatch(e) == e.op = "append" /\ FromRecorder(e)

\* reportCommit: the batches before the first refusal ...
\* (LooksAtNoResult: all of them.)
LooksAtNoResult(run, results) == {i \in DOMAIN run : IsBatch(run[i])}
SavedBatches(run, results) ==
  {i \in DOMAIN run : /\ IsBatch(run[i])
                      /\ \A j \in 1..i : IsBatch(run[j]) => results[j]}

\* ... the last of which is the head.
HeadOf(run, results) ==
  LET i == CHOOSE i \in SavedBatches(run, results) :
             \A j \in SavedBatches(run, results) : j <= i
  IN  [throughSeq |-> run[i].throughSeq, tick |-> run[i].tick]

RefusedOf(run, results) == {run[i] : i \in {i \in DOMAIN run : FromRecorder(run[i]) /\ ~results[i]}}

Rejected == [type |-> "rejected"]
Rejections(entries) == [i \in 1..Cardinality(entries) |-> Rejected]
Persisted(head) == [type |-> "persisted", head |-> head]

\* The refused items are told as they are met, the batches after the commit:
\* the head, then the first batch that is refused.
Told(run, results) ==
  LET items   == {i \in DOMAIN run : run[i].op = "item" /\ ~results[i]}
      batches == {i \in DOMAIN run : IsBatch(run[i]) /\ ~results[i]}
  IN  Rejections(items)
      \o (IF SavedBatches(run, results) = {} THEN <<>> ELSE <<Persisted(HeadOf(run, results))>>)
      \o (IF batches = {} THEN <<>> ELSE <<Rejected>>)

AnswerTo(run, results, fault) ==
  LET mine == {i \in DOMAIN run : AnsweredTo(run[i])}
  IN  IF mine = {} THEN answer
      ELSE IF fault = "commit" THEN "error"
      ELSE IF \A i \in mine : results[i] THEN "ok" ELSE "refused"

(***************************************************************************)
(* drain()                                                                 *)
(***************************************************************************)
Draining == worker.at = "draining"
Waiting  == Draining /\ worker.queue # <<>>

Stop ==
  /\ Draining
  /\ worker.queue = <<>>
  /\ worker' = [worker EXCEPT !.at = "idle"]
  /\ UNCHANGED <<db, toSim, answer, refused>>

\* While the quota is near, what the recorder handed over is held.
Hold ==
  /\ Waiting
  /\ Holds(Head(worker.queue))
  /\ worker' = [worker EXCEPT !.held = Append(@, Head(worker.queue)), !.queue = Tail(@),
                              !.pending = SizeOf(Tail(worker.queue))]
  /\ UNCHANGED <<db, toSim, answer, refused>>

\* Appends alone wait a little for more of them. (WaitsAgain: even when they
\* have waited already.)
WaitsAgain ==
  /\ \A i \in DOMAIN worker.queue : Coalescable(worker.queue[i])
  /\ worker.pending < FlushAt
MayWait ==
  /\ \A i \in DOMAIN worker.queue : Coalescable(worker.queue[i])
  /\ worker.pending < FlushAt
  /\ ~worker.flushDue

ScheduleFlush ==
  /\ Waiting
  /\ ~Holds(Head(worker.queue))
  /\ MayWait
  /\ worker' = [worker EXCEPT !.flushTimer = TRUE, !.at = "idle"]
  /\ UNCHANGED <<db, toSim, answer, refused>>

\* The run of appends at the head of the queue, in one transaction; then the
\* quota is measured.
Commit ==
  /\ Waiting
  /\ ~Holds(Head(worker.queue))
  /\ Coalescable(Head(worker.queue))
  /\ ~MayWait
  /\ LET n    == RunLength(worker.queue)
         run  == SubSeq(worker.queue, 1, n)
         rest == SubSeq(worker.queue, n + 1, Len(worker.queue))
         none == [i \in DOMAIN run |-> FALSE]
     IN  \E fault \in Faults :
           LET tx   == Transaction(run, fault)
               done == IF fault = "commit" THEN none ELSE tx.results
           IN  /\ db' = IF fault = "commit" THEN db ELSE tx.db
               /\ toSim' = toSim \o
                    (IF fault = "commit"
                     THEN Rejections({i \in DOMAIN run : FromRecorder(run[i])})
                     ELSE Told(run, tx.results))
               /\ answer' = AnswerTo(run, done, fault)
               /\ refused' = refused \cup RefusedOf(run, done)
               /\ worker' = [worker EXCEPT
                    !.queue = rest, !.pending = SizeOf(rest), !.flushDue = FALSE,
                    !.measuring = TRUE,
                    !.head = IF SavedBatches(run, done) = {} THEN @ ELSE HeadOf(run, done)]

Serves(op) == Waiting /\ Head(worker.queue).op = op

\* runs.create: a new run supersedes the one before as the one recorded, and
\* its recorder may send.
CreateRun ==
  /\ Serves("create")
  /\ LET run == Head(worker.queue).run
     IN  /\ db' = [db EXCEPT !.runs = @ \cup {run}]
         /\ worker' = [worker EXCEPT !.queue = Tail(@), !.recorded = {run}]
         /\ toSim' = Append(toSim, [type |-> "header", run |-> run])
         /\ answer' = IF run = Derived THEN "ok" ELSE answer
  /\ UNCHANGED refused

\* runs.delete: not of the run being recorded.
MayDelete(run) == run \notin worker.recorded

DeleteRun ==
  /\ Serves("delete")
  /\ LET run == Head(worker.queue).run
     IN  /\ db' = IF ~MayDelete(run) THEN db
                  ELSE IF run = Live THEN [EmptyDb EXCEPT !.runs = db.runs \ {run}]
                  ELSE [db EXCEPT !.runs = @ \ {run}]
         /\ worker' = [worker EXCEPT !.queue = Tail(@), !.measuring = @ \/ MayDelete(run)]
         /\ answer' = IF run # Derived THEN answer ELSE IF MayDelete(run) THEN "ok" ELSE "refused"
  /\ UNCHANGED <<toSim, refused>>

\* admin.importDb replaces the database by one without the runs.
ImportDb ==
  /\ Serves("import")
  /\ db' = EmptyDb
  /\ worker' = [worker EXCEPT !.queue = Tail(@)]
  /\ UNCHANGED <<toSim, answer, refused>>

\* A request that awaits the browser, and its end.
ServeSlowly ==
  /\ Serves("slow")
  /\ worker' = [worker EXCEPT !.queue = Tail(@), !.at = "serving"]
  /\ UNCHANGED <<db, toSim, answer, refused>>

Served ==
  /\ worker.at = "serving"
  /\ worker' = [worker EXCEPT !.at = "draining"]
  /\ UNCHANGED <<db, toSim, answer, refused>>

\* admin.close: what is queued behind it is rejected.
Close ==
  /\ Serves("close")
  /\ LET behind == Tail(worker.queue)
         given  == {i \in DOMAIN behind : FromRecorder(behind[i])}
     IN  /\ toSim' = toSim \o Rejections(given)
         /\ refused' = refused \cup {behind[i] : i \in given}
         /\ answer' = IF \E i \in DOMAIN behind : AnsweredTo(behind[i]) THEN "error" ELSE answer
         /\ worker' = [worker EXCEPT !.open = FALSE, !.at = "idle", !.queue = <<>>,
                                     !.pending = 0, !.flushTimer = FALSE]
  /\ UNCHANGED db

Drain ==
  \/ Stop \/ Hold \/ ScheduleFlush \/ Commit
  \/ CreateRun \/ DeleteRun \/ ImportDb \/ ServeSlowly \/ Close

(***************************************************************************)
(* The worker's timers and the answers of the browser                      *)
(***************************************************************************)
FlushTimer ==
  /\ ~Draining
  /\ worker.flushTimer
  /\ worker' = Woken([worker EXCEPT !.flushTimer = FALSE, !.flushDue = TRUE])
  /\ UNCHANGED <<db, toSim, answer, refused>>

QuotaTimer ==
  /\ ~Draining
  /\ worker.quotaTimer /\ ~worker.measuring /\ worker.open
  /\ worker' = [worker EXCEPT !.measuring = TRUE]
  /\ UNCHANGED <<db, toSim, answer, refused>>

\* checkQuota, once the browser has measured: what was held comes first when
\* there is room again. (In the in-memory fallback the answer comes between
\* two steps of drain.)
NewlyFull(level)  == ~worker.full /\ level = "high"
NewlyRoomy(level) == worker.full /\ level = "low"

Measured ==
  /\ worker.measuring
  /\ \E level \in Levels :
       LET w == [worker EXCEPT !.measuring = FALSE]
       IN  \/ /\ NewlyFull(level)
              /\ worker' = [w EXCEPT !.full = TRUE, !.quotaTimer = TRUE]
              /\ toSim' = Append(toSim, [type |-> "quota", state |-> "paused"])
           \/ /\ NewlyRoomy(level)
              /\ worker' = Woken([w EXCEPT !.full = FALSE, !.quotaTimer = FALSE,
                                           !.queue = HeldAgain(worker), !.held = <<>>])
              /\ toSim' = Append(toSim, [type |-> "quota", state |-> "ok"])
           \/ /\ ~NewlyFull(level) /\ ~NewlyRoomy(level)
              /\ worker' = w
              /\ UNCHANGED toSim
  /\ UNCHANGED <<db, answer, refused>>

StorageNext == Drain \/ Served \/ FlushTimer \/ QuotaTimer \/ Measured
=============================================================================
