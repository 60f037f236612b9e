------------------------------ MODULE Recording ------------------------------
(***************************************************************************)
(* The recording of a run, from the tick that emits a record to the        *)
(* transaction that stores it: the run and its recorder in the simulation  *)
(* worker (apps/lab/src/sim/run-recording.ts, sim-host.ts, Recorder.tla),  *)
(* the channel between the two workers, the storage worker                 *)
(* (StorageWorker.tla), and the main thread, which stores the header,      *)
(* re-simulates a window of the run (resim-controller.ts) and uses the     *)
(* same queue.                                                             *)
(*                                                                         *)
(* One run is recorded. What plays it is left to SimHost.tla: a tick is    *)
(* taken whenever the gate is open.                                        *)
(***************************************************************************)
EXTENDS Recorder, StorageWorker

CONSTANTS
  Ticks,       \* what a tick may do: records of
               \* [emits : Seq(BOOLEAN), snapshot, changes, metrics : BOOLEAN]
  Requests,    \* what else the main thread asks: of {"slow", "import", "close"}
  Resims,      \* whether a window is re-simulated
  MaxTick,     \* bound: ticks of the run
  MaxInFlight, \* bound: batches not acknowledged when the researcher, or a
               \* refusal, pauses the run
  MaxRequests  \* bound: other requests of the main thread

ASSUME RecordingAssumption ==
  /\ \A t \in Ticks : /\ t.emits \in Seq(BOOLEAN)
                      /\ {t.snapshot, t.changes, t.metrics} \subseteq BOOLEAN
  /\ Requests \subseteq {"slow", "import", "close"}
  /\ Resims \in BOOLEAN
  /\ MaxTick \in Nat /\ MaxInFlight \in Nat /\ MaxRequests \in Nat

VARIABLES
  sim,        \* the run in the simulation worker: its buffer, its recorder, the
              \* section its beliefs are in, the sections sent, the quota's pause
  toStorage,  \* what the recorder handed over and the storage worker has not read
  main        \* the main thread: header requested, re-simulation, other requests

vars == <<sim, toStorage, main, worker, db, toSim, answer, refused>>

(***************************************************************************)
(* The run and its recorder                                                *)
(***************************************************************************)
Send(r)       == [r EXCEPT !.sent = <<>>]

Snapshot(s, tick) ==
  [op |-> "item", by |-> "recorder", kind |-> "snapshot", tick |-> tick,
   section |-> s.section, carries |-> s.section \notin s.sentBlobs]

Metrics(tick) ==
  [op |-> "item", by |-> "recorder", kind |-> "metrics", tick |-> tick,
   section |-> 0, carries |-> FALSE]

\* A snapshot: its record, then its container, with the sections that were
\* never sent. (SectionsForgotten: nor is the next one ever carried.)
SectionsForgotten(s) == s.sentBlobs \cup {s.section, s.section + 1}
SectionsSent(s)      == s.sentBlobs \cup {s.section}

SnapshotTaken(s, tick) ==
  [s EXCEPT !.buffer = Pushed(@, TRUE, tick),
            !.recorder = Enqueued(@, Snapshot(s, tick)),
            !.sentBlobs = SectionsSent(s)]

Emitted(b, emits) == FoldLeft(LAMBDA x, kept : Pushed(x, kept, NoSnapshot), b, emits)

\* A tick of the run and what RunRecording does after it: records, the
\* snapshot, then the metrics.
Ticked(s, t, tick) ==
  LET world == [s EXCEPT !.buffer = Emitted(@, t.emits),
                         !.section = IF t.changes THEN @ + 1 ELSE @]
      snap  == IF t.snapshot THEN SnapshotTaken(world, tick) ELSE world
  IN  IF t.metrics THEN [snap EXCEPT !.recorder = Enqueued(@, Metrics(tick))] ELSE snap

Gathers(s, tick) == [s EXCEPT !.recorder = Collected(@, s.buffer, tick)]

\* What is handed over goes out, in order, before the event ends.
Becomes(s) ==
  /\ sim' = [s EXCEPT !.recorder = Send(@)]
  /\ toStorage' = toStorage \o s.recorder.sent

InitialSim ==
  LET new == [buffer |-> Pushed(NewBuffer, TRUE, NoSnapshot), recorder |-> NewRecorder,
              section |-> 1, sentBlobs |-> {}, quotaPaused |-> FALSE]
  IN  Gathers(SnapshotTaken(new, 0), 0)

\* The gate of the host.
Gated == ~sim.recorder.header \/ sim.recorder.waiting \/ sim.quotaPaused

Tick ==
  /\ ~Gated
  /\ sim.recorder.tick < MaxTick
  /\ \E t \in Ticks :
       LET tick == sim.recorder.tick + 1
       IN  Becomes(Gathers(Ticked(sim, t, tick), tick))
  /\ UNCHANGED <<main, storageVars>>

\* pause(): what the recorder holds goes out.
Pausing(s) == Gathers(s, s.recorder.tick)

Pause ==
  /\ Len(sim.recorder.inFlight) < MaxInFlight
  /\ Becomes(Pausing(sim))
  /\ UNCHANGED <<main, storageVars>>

(***************************************************************************)
(* What the storage worker tells the recorder                              *)
(***************************************************************************)
HeadTaken(s, head) ==
  IF GoesBack(s.recorder, head) THEN s
  ELSE [s EXCEPT !.recorder = Acknowledged(@, head),
                 !.buffer = MarkedPersisted(@, head.throughSeq)]

Hears(type) == toSim # <<>> /\ Head(toSim).type = type

Header ==
  /\ Hears("header")
  /\ Becomes(IF Head(toSim).run = Live THEN [sim EXCEPT !.recorder = HeaderStored(@)] ELSE sim)

Persist ==
  /\ Hears("persisted")
  /\ Becomes(HeadTaken(sim, Head(toSim).head))

\* The run pauses, if it is playing.
Quota ==
  /\ Hears("quota")
  /\ LET s == [sim EXCEPT !.quotaPaused = Head(toSim).state = "paused"]
     IN  Becomes(s) \/ (s.quotaPaused /\ Becomes(Pausing(s)))

Reject ==
  /\ Hears("rejected")
  /\ \/ Becomes(sim)
     \/ Len(sim.recorder.inFlight) < MaxInFlight /\ Becomes(Pausing(sim))

Hear ==
  /\ Header \/ Persist \/ Quota \/ Reject
  /\ toSim' = Tail(toSim)
  /\ UNCHANGED <<main, worker, db, answer, refused>>

(***************************************************************************)
(* What reaches the storage worker                                         *)
(***************************************************************************)
\* From the recorder: nothing is taken once storage is closed.
Deliver ==
  /\ ~Draining
  /\ toStorage # <<>>
  /\ toStorage' = Tail(toStorage)
  /\ worker' = IF worker.open THEN Received(worker, Head(toStorage)) ELSE worker
  /\ UNCHANGED <<sim, main, db, toSim, answer, refused>>

\* From the main thread.
Asks(op, run) ==
  /\ ~Draining
  /\ worker.open
  /\ worker' = Received(worker, [op |-> op, by |-> "main", run |-> run,
                                 records |-> <<>>])
  /\ UNCHANGED <<sim, toStorage, db, toSim, refused>>

\* startRun: the header of the loaded run.
StoreHeader ==
  /\ ~main.header
  /\ main' = [main EXCEPT !.header = TRUE]
  /\ Asks("create", Live)
  /\ UNCHANGED answer

Other ==
  /\ main.requests < MaxRequests
  /\ main' = [main EXCEPT !.requests = @ + 1]
  /\ \E op \in Requests : Asks(op, Live)
  /\ UNCHANGED answer

(***************************************************************************)
(* resimulateWindowToRun stores the window of a run that has a checkpoint  *)
(* saved: its header, its records, and takes both back if that fails. (The *)
(* window itself was run by a worker of its own.)                          *)
(***************************************************************************)
Resim(from, op, to) ==
  /\ main.resim = from
  /\ main' = [main EXCEPT !.resim = to]
  /\ Asks(op, Derived)
  /\ answer' = "none"

StoreWindow  == Resims /\ db.records # {} /\ Resim("idle", "create", "creating")
AppendWindow == answer = "ok" /\ Resim("creating", "append", "appending")

\* A write of the window is refused: of its records, or of its snapshots and
\* samples before them.
RemoveWindow ==
  \/ answer = "refused" /\ Resim("appending", "delete", "removing")
  \/ answer = "ok" /\ Resim("creating", "delete", "removing")

WindowRemoved ==
  /\ main.resim = "removing" /\ answer # "none"
  /\ main' = [main EXCEPT !.resim = "removed"]
  /\ UNCHANGED <<sim, toStorage, storageVars>>

(***************************************************************************)
(* The specification                                                       *)
(***************************************************************************)
Init ==
  /\ sim = InitialSim
  /\ toStorage = <<>>
  /\ main = [header |-> FALSE, resim |-> "idle", requests |-> 0]
  /\ StorageInit

Storage == StorageNext /\ UNCHANGED <<sim, toStorage, main>>

Next ==
  \/ Tick \/ Pause \/ Hear \/ Deliver
  \/ StoreHeader \/ Other \/ StoreWindow \/ AppendWindow \/ RemoveWindow \/ WindowRemoved
  \/ Storage

Spec == Init /\ [][Next]_vars

\* The workers serve what waits for them. The storage worker takes its messages
\* and timers between two drains, some of them each time it is free: less than
\* the order of arrival that an event loop keeps. And when the quota is near,
\* there is room again in the end.
Taken == Deliver \/ StoreHeader \/ (Storage /\ (FlushTimer \/ QuotaTimer))

FairSpec ==
  /\ Spec
  /\ WF_vars(Hear)
  /\ WF_vars(Storage /\ (Drain \/ Served))
  /\ SF_vars(Taken)
  /\ SF_vars(Storage /\ Measured /\ ~worker'.full)
=============================================================================
