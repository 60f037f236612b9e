------------------------- MODULE RecordingProperties -------------------------
(***************************************************************************)
(* What makes the recording of a run trustworthy.                          *)
(***************************************************************************)
EXTENDS Recording

emitted == sim.buffer.emitted

\* What is not saved is neither lost nor miscounted: however small the cache is,
\* it never forgets a record before it is saved (trace-buffer.ts:24-26), and the
\* backlog the run waits for counts exactly the records that were gathered and
\* are not reported saved.
UnsavedIsKeptAndCounted ==
  /\ emitted \subseteq ToSet(sim.buffer.records) \cup db.records
  /\ Backlog(sim.recorder).records =
       Cardinality({r \in emitted : /\ r.seq < sim.recorder.cursor
                                    /\ r.seq > sim.recorder.persistedAt.throughSeq})

\* With a storage that works, what arrives finds what it needs: nothing is ever
\* refused (the header is there first, a snapshot's sections are there before
\* it), and a record that refers to a snapshot is not saved before the snapshot
\* (recorder.ts:71 "before the batch that refers to them").
StorageFindsWhatItNeeds ==
  /\ refused = {}
  /\ \A r \in db.records : r.refers # NoSnapshot => r.refers \in db.snapshots

OnTheWay == {e \in ToSet(toStorage) \cup ToSet(worker.queue) \cup ToSet(worker.held) :
               FromRecorder(e)}

\* When the recorder says that everything up to the tick of the run is saved,
\* no record and no snapshot of the run is still on its way to the database
\* (recorder.ts:283 "everything up to this tick is saved already"; metric
\* samples may be).
SavedMeansSaved ==
  sim.recorder.persistedAt.tick = sim.recorder.tick =>
    \A e \in OnTheWay : IF e.op = "append" THEN e.records = <<>> ELSE e.kind = "metrics"

\* Once a batch was refused, the head stays where it is: a record missing
\* from a run is never papered over (recorder-ingest.ts:35).
RefusedBatchStopsTheHead ==
  [][(\E e \in refused : IsBatch(e)) => worker'.head = worker.head]_vars

\* What is saved of the run is always the whole of its beginning, and the
\* head that is announced says exactly how far.
SavedPrefix == INSTANCE RecordedRun WITH
  Records <- TraceRecord, emitted <- emitted, saved <- db.records,
  head <- worker.head.throughSeq
SavedIsAPrefix == SavedPrefix!Init /\ [][SavedPrefix!Next]_(SavedPrefix!vars)

\* Provided there is room again when the quota is near, every record the
\* profile keeps is saved in the end: whatever the flush timer, the quota's
\* pause and the gate do to each other. (Two records at the start, and at most
\* two a tick.)
EverythingIsSaved ==
  \A s \in 0..(2 * MaxTick + 1) :
    (\E r \in emitted : r.seq = s) ~> (\E r \in db.records : r.seq = s)

\* Under the same proviso, a run that waits for its header, for the writer or
\* for room goes on in the end: the two workers never wait for each other.
WaitingRunsGoOn == Gated ~> ~Gated
=============================================================================
