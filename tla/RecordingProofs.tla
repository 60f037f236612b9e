-------------------------- MODULE RecordingProofs --------------------------
(***************************************************************************)
(* Proofs about the recording of a run, for every run, every cache and     *)
(* every interleaving of the two workers and the main thread. First the    *)
(* producer's end: the buffer keeps in order every record that is not      *)
(* saved, and whatever the run does (ticks, snapshots, pauses, the header) *)
(* its recorder hands over the items and one batch of exactly the records  *)
(* since the last time, or nothing (`Hands`); a head takes the batches it  *)
(* covers from what is in flight (`Acks`). Then the storage worker and the *)
(* whole path: its types, that nothing is handed over before the header is *)
(* stored, that a refused batch stops the head, that what is saved is the  *)
(* whole of the beginning of the run, as RecordedRun promises, that what   *)
(* is not saved is neither lost nor miscounted, that what is said to be    *)
(* saved is, and that a storage that works finds what it needs.            *)
(***************************************************************************)
EXTENDS RecordingProperties, SequenceFolds

(***************************************************************************)
(* What the variables hold                                                 *)
(***************************************************************************)
Item      == [op : {"item"}, by : {"recorder"}, kind : {"snapshot", "metrics"},
              tick : Int, section : Int, carries : BOOLEAN]
BatchEntry    == [op : {"append"}, by : {"recorder"}, records : Seq(TraceRecord),
              throughSeq : Int, tick : Int]
Handed    == Item \cup BatchEntry
Request   == [op : {"create", "append", "delete", "slow", "import", "close"}, by : {"main"},
              run : Runs, records : {<<>>}]
Entry     == Handed \cup Request

HeadRecord     == [throughSeq : Int, tick : Int]
Message   == [type : {"rejected"}] \cup [type : {"persisted"}, head : HeadRecord]
             \cup [type : {"header"}, run : Runs] \cup [type : {"quota"}, state : {"paused", "ok"}]

Buffer    == [records : Seq(TraceRecord), seq : Nat, persistedSeq : Int, emitted : SUBSET TraceRecord]
Unsaved   == [throughSeq : Int, records : Nat, bytes : Int]
RecorderState == [cursor : Int, held : Seq(TraceRecord), heldBytes : Int, outbox : Seq(Item),
              itemsSent : Nat, header : BOOLEAN, inFlight : Seq(Unsaved),
              lastThroughSeq : Int, tick : Nat, persistedAt : HeadRecord, waiting : BOOLEAN,
              sent : Seq(Handed)]
SimState      == [buffer : Buffer, recorder : RecorderState, section : Int, sentBlobs : SUBSET Int,
              quotaPaused : BOOLEAN]
MainState     == [header : BOOLEAN, resim : {"idle", "creating", "appending", "removing", "removed"},
              requests : Int]
\* (Nothing is said of the counter of what waits.)
WorkerState(pending) ==
  [queue : Seq(Entry), held : Seq(Handed), at : {"idle", "draining", "serving"}, open : BOOLEAN,
   pending : {pending}, flushTimer : BOOLEAN, flushDue : BOOLEAN, full : BOOLEAN,
   quotaTimer : BOOLEAN, measuring : BOOLEAN, recorded : SUBSET Runs, head : HeadRecord]
DbState       == [runs : SUBSET Runs, records : SUBSET TraceRecord, snapshots : SUBSET Int,
              sections : SUBSET Int, samples : SUBSET Int]

TypeOK ==
  /\ sim \in SimState
  /\ toStorage \in Seq(Handed)
  /\ main \in MainState
  /\ worker \in WorkerState(worker.pending)
  /\ db \in DbState
  /\ toSim \in Seq(Message)
  /\ refused \subseteq Handed

(***************************************************************************)
(* Sequences                                                               *)
(***************************************************************************)
LEMMA AfterFirst ==
  ASSUME NEW D, NEW s \in Seq(D), NEW n \in Nat
  PROVE  /\ SubSeq(s, n + 1, Len(s)) \in Seq(D)
         /\ n > Len(s) => SubSeq(s, n + 1, Len(s)) = <<>>
         /\ n <= Len(s) => /\ Len(SubSeq(s, n + 1, Len(s))) = Len(s) - n
                           /\ \A i \in 1..(Len(s) - n) : SubSeq(s, n + 1, Len(s))[i] = s[n + i]
<1>1. CASE n > Len(s)
  BY <1>1
<1>2. CASE n <= Len(s)
  BY <1>2
<1> QED BY <1>1, <1>2

\* A set of indices of a sequence has at most as many members as the sequence.
LEMMA Selected ==
  ASSUME NEW D, NEW s \in Seq(D), NEW S \in SUBSET DOMAIN s
  PROVE  Cardinality(S) \in 0..Len(s)
<1>1. DOMAIN s = 1..Len(s) /\ 1 \in Int /\ Len(s) \in Nat
  OBVIOUS
<1>2. IsFiniteSet(1..Len(s)) /\ Cardinality(1..Len(s)) = IF 1 > Len(s) THEN 0 ELSE Len(s) - 1 + 1
  BY <1>1, FS_Interval
<1>3. Cardinality(1..Len(s)) = Len(s)
  BY <1>1, <1>2
<1> HIDE <1>2
<1>4. IsFiniteSet(1..Len(s))
  BY <1>2
<1>5. Cardinality(S) <= Cardinality(1..Len(s)) /\ IsFiniteSet(S)
  BY <1>1, <1>4, FS_Subset
<1>6. Cardinality(S) \in Nat
  BY <1>5, FS_CardinalityType
<1> QED BY <1>1, <1>3, <1>5, <1>6

(***************************************************************************)
(* The buffer                                                              *)
(***************************************************************************)
LEMMA ForgottenType ==
  ASSUME NEW b \in Buffer PROVE Forgotten(b) \in Buffer
<1> DEFINE n == Cardinality({i \in DOMAIN b.records : Forgettable(b, i)})
<1>1. n \in Nat
  BY Selected DEF Buffer
<1> HIDE DEF n
<1>2. SubSeq(b.records, n + 1, Len(b.records)) \in Seq(TraceRecord)
  BY <1>1, AfterFirst DEF Buffer
<1>3. Forgotten(b) = [b EXCEPT !.records = SubSeq(b.records, n + 1, Len(b.records))]
  BY DEF Forgotten, n
<1> QED BY <1>2, <1>3 DEF Buffer

\* What `push` leaves is a buffer ...
LEMMA PushedType ==
  ASSUME NEW b \in Buffer, NEW kept \in BOOLEAN, NEW refers \in Nat \cup {NoSnapshot}
  PROVE  Pushed(b, kept, refers) \in Buffer
<1> DEFINE r == [seq |-> b.seq, kept |-> kept, refers |-> refers]
           e == IF kept THEN b.emitted \cup {r} ELSE b.emitted
           s == Append(b.records, r)
           q == b.seq + 1
           c == [b EXCEPT !.seq = q, !.records = s, !.emitted = e]
<1>1. r \in TraceRecord
  BY DEF Buffer, TraceRecord
<1>2. e \in SUBSET TraceRecord /\ s \in Seq(TraceRecord) /\ q \in Nat
  <2> HIDE DEF r
  <2> QED BY <1>1 DEF Buffer
<1>3. Pushed(b, kept, refers) = Forgotten(c)
  BY DEF Pushed
<1> HIDE DEF e, s, q
<1>4. c \in Buffer
  BY <1>2 DEF Buffer
<1> HIDE DEF c
<1> QED BY <1>3, <1>4, ForgottenType

\* ... what `markPersisted` leaves as well ...
LEMMA MarkedType ==
  ASSUME NEW b \in Buffer, NEW seq \in Int PROVE MarkedPersisted(b, seq) \in Buffer
<1> DEFINE mark == IF seq < b.seq THEN seq ELSE b.seq - 1
           c == [b EXCEPT !.persistedSeq = IF mark > @ THEN mark ELSE @]
<1>1. c \in Buffer
  BY DEF Buffer
<1>2. MarkedPersisted(b, seq) = Forgotten(c)
  BY DEF MarkedPersisted
<1> HIDE DEF c
<1> QED BY <1>1, <1>2, ForgottenType

\* ... and what `since` finds are trace records.
LEMMA SinceType ==
  ASSUME NEW b \in Buffer, NEW seq \in Int PROVE Since(b, seq) \in Seq(TraceRecord)
<1> DEFINE skip == IF b.records = <<>> THEN 0 ELSE seq - Head(b.records).seq
           n == IF skip > 0 THEN skip ELSE 0
<1>1. skip \in Int
  <2>1. CASE b.records = <<>>
    BY <2>1
  <2>2. CASE b.records # <<>>
    <3>1. Head(b.records) \in TraceRecord
      BY <2>2 DEF Buffer
    <3> QED BY <2>2, <3>1 DEF TraceRecord
  <2> QED BY <2>1, <2>2
<1>2. n \in Nat
  BY <1>1
<1>3. Since(b, seq) = SubSeq(b.records, n + 1, Len(b.records))
  BY DEF Since
<1> HIDE DEF n
<1> QED BY <1>2, <1>3, AfterFirst DEF Buffer

\* The records the profile keeps.
Keepers == {x \in TraceRecord : x.kept}

\* The filter of the profile goes through the records one by one.
LEMMA KeptSteps ==
  ASSUME NEW s \in Seq(TraceRecord)
  PROVE  \E H : Selects(H, s, Keepers) /\ Kept(s) = H[Len(s)]
<1> DEFINE n == Len(s)
           V == Seq(Keepers)
           F == [i \in 1..n |-> [v \in V |-> IF s[i].kept THEN Append(v, s[i]) ELSE v]]
           Rec(it) == it = [t \in SUBSET DOMAIN s |->
                              IF t = {} THEN <<>>
                              ELSE IF s[Max(t)].kept THEN Append(it[t \ {Max(t)}], s[Max(t)]) ELSE it[t \ {Max(t)}]]
           g == CHOOSE it : Rec(it)
<1>1. n \in Nat /\ DOMAIN s = 1..n /\ <<>> \in V
  OBVIOUS
<1>2. /\ F \in [1..n -> [V -> V]]
      /\ \A i \in 1..n, v \in V : /\ (s[i].kept => F[i][v] = Append(v, s[i]))
                                  /\ (~ s[i].kept => F[i][v] = v)
  <2>1. ASSUME NEW i \in 1..n, NEW v \in V PROVE (IF s[i].kept THEN Append(v, s[i]) ELSE v) \in V
    <3>1. s[i].kept => s[i] \in Keepers
      BY DEF Keepers
    <3> QED BY <3>1
  <2> HIDE DEF V
  <2> QED BY <2>1
<1> HIDE DEF F, n, V
<1>3. ASSUME NEW t \in SUBSET (1..n), t # {}
      PROVE  Max(t) \in 1..n /\ t \ {Max(t)} \in SUBSET (1..n)
  BY <1>1, <1>3, GreatestIndex
<1>4. PICK it \in [SUBSET (1..n) -> V] : SolvesFold(it, n, V, <<>>, F)
  BY <1>1, <1>2, FoldExists
<1>5. Rec(it)
  <2>1. ASSUME NEW t \in SUBSET (1..n), t # {}
        PROVE  it[t] = IF s[Max(t)].kept THEN Append(it[t \ {Max(t)}], s[Max(t)]) ELSE it[t \ {Max(t)}]
    BY <1>2, <1>3, <1>4, <2>1 DEF SolvesFold
  <2>2. it[{}] = <<>>
    BY <1>4 DEF SolvesFold
  <2> QED BY <1>1, <2>1, <2>2
<1>6. Rec(g)
  BY <1>5
<1>7. SolvesFold(g, n, V, <<>>, F)
  <2> HIDE DEF g
  <2>1. ASSUME NEW t \in SUBSET (1..n), t # {}, g[t \ {Max(t)}] \in V
        PROVE  g[t] = F[Max(t)][g[t \ {Max(t)}]]
    <3>1. Max(t) \in 1..n
      BY <1>3, <2>1
    <3>2. g[t] = IF s[Max(t)].kept THEN Append(g[t \ {Max(t)}], s[Max(t)]) ELSE g[t \ {Max(t)}]
      BY <1>1, <1>6, <2>1
    <3>3. CASE s[Max(t)].kept
      BY <1>2, <2>1, <3>1, <3>2, <3>3
    <3>4. CASE ~ s[Max(t)].kept
      BY <1>2, <2>1, <3>1, <3>2, <3>4
    <3> QED BY <3>3, <3>4
  <2>2. g[{}] = <<>>
    BY <1>1, <1>6
  <2> QED BY <2>1, <2>2 DEF SolvesFold
<1>8. Kept(s) = FoldValue(g, n)
  BY <1>1 DEF FoldValue, Kept, FoldLeft, MapThenFoldSet
<1> HIDE DEF g
<1>9. PICK H : StepsOf(H, n, V, <<>>, F) /\ H[n] = FoldValue(g, n)
  BY <1>1, <1>2, <1>7, FoldSteps
<1>10. \A i \in 1..n : H[i - 1] \in V /\ H[i] \in V
  BY <1>1, <1>9 DEF StepsOf
<1>11. \A i \in 1..n : s[i] \in Keepers <=> s[i].kept
  BY DEF n, Keepers
<1>12. \A i \in 1..n : /\ (s[i] \in Keepers => H[i] = Append(H[i - 1], s[i]))
                       /\ (s[i] \notin Keepers => H[i] = H[i - 1])
  BY <1>2, <1>9, <1>10, <1>11 DEF StepsOf
<1>13. Selects(H, s, Keepers)
  BY <1>9, <1>10, <1>12 DEF StepsOf, Selects, n, V
<1> QED BY <1>8, <1>9, <1>13 DEF n

\* It leaves those that are kept, as many as there are when no record comes twice.
LEMMA KeptFacts ==
  ASSUME NEW s \in Seq(TraceRecord)
  PROVE  /\ Kept(s) \in Seq(Keepers)
         /\ ToSet(Kept(s)) = ToSet(s) \cap Keepers
         /\ Unlike(s) => Len(Kept(s)) = Cardinality(ToSet(s) \cap Keepers)
<1>1. PICK H : Selects(H, s, Keepers) /\ Kept(s) = H[Len(s)]
  BY KeptSteps
<1> QED BY <1>1, SelectedOnes

(***************************************************************************)
(* The recorder                                                            *)
(***************************************************************************)
\* q is r, but for whether it waits.
Alike(q, r) ==
  /\ q \in RecorderState
  /\ q.cursor = r.cursor /\ q.held = r.held /\ q.outbox = r.outbox /\ q.itemsSent = r.itemsSent
  /\ q.header = r.header /\ q.inFlight = r.inFlight /\ q.lastThroughSeq = r.lastThroughSeq
  /\ q.tick = r.tick /\ q.persistedAt = r.persistedAt /\ q.sent = r.sent

\* Looking whether the run has to wait changes nothing else.
LEMMA WaitingFacts ==
  ASSUME NEW r \in RecorderState PROVE Alike(WaitingUpdated(r), r)
<1>1. Waits(r) \in BOOLEAN
  <2> DEFINE b == Backlog(r)
  <2> HIDE DEF b
  <2>1. Waits(r) = IF r.waiting THEN b.records > LowRecords \/ b.bytes > LowBytes
                   ELSE b.records >= HighRecords \/ b.bytes >= HighBytes
    BY DEF Waits, b
  <2> QED BY <2>1
<1>2. WaitingUpdated(r) = [r EXCEPT !.waiting = Waits(r)]
  BY DEF WaitingUpdated
<1> QED BY <1>1, <1>2 DEF RecorderState, Alike

\* A flush hands over what is held, if there is a reason to.
Flushes(q, r) ==
  /\ q \in RecorderState
  /\ q.cursor = r.cursor /\ q.outbox = r.outbox /\ q.header = r.header
  /\ q.lastThroughSeq = r.lastThroughSeq /\ q.tick = r.tick
  /\ q.held = <<>> /\ q.itemsSent = 0
  /\ NothingToFlush(r) =>
       /\ q.inFlight = r.inFlight /\ q.sent = r.sent
       /\ q.persistedAt.throughSeq = r.persistedAt.throughSeq
       /\ q.persistedAt.tick \in {r.persistedAt.tick, r.tick}
       /\ r.persistedAt = NoHead => q.persistedAt = NoHead
  /\ ~NothingToFlush(r) =>
       /\ q.inFlight = Append(r.inFlight, [throughSeq |-> r.lastThroughSeq,
                                           records |-> Len(r.held), bytes |-> r.heldBytes])
       /\ q.sent = Append(r.sent, Batch(r))
       /\ q.persistedAt = r.persistedAt

\* A batch is an entry for the storage worker.
LEMMA BatchType ==
  ASSUME NEW r \in RecorderState PROVE Batch(r) \in BatchEntry
  BY DEF Batch, BatchEntry, RecorderState

\* A flush hands over what is held, or finds nothing to do.
LEMMA FlushedFacts ==
  ASSUME NEW r \in RecorderState PROVE Flushes(Flushed(r), r)
<1> DEFINE u == [throughSeq |-> r.lastThroughSeq, records |-> Len(r.held), bytes |-> r.heldBytes]
           f == Append(r.inFlight, u)
           s == Append(r.sent, Batch(r))
           t == IF r.persistedAt = NoHead THEN r.persistedAt.tick ELSE r.tick
           h == [r.persistedAt EXCEPT !.tick = t]
<1>1. u \in Unsaved
  BY DEF RecorderState, Unsaved
<1>2. f \in Seq(Unsaved)
  <2> HIDE DEF u
  <2> QED BY <1>1 DEF RecorderState
<1>3. s \in Seq(Handed)
  BY BatchType DEF RecorderState, Handed
<1>4. t \in Int
  BY DEF RecorderState, HeadRecord
<1>5. h \in HeadRecord /\ h.throughSeq = r.persistedAt.throughSeq /\ h.tick = t
  <2> HIDE DEF t
  <2> QED BY <1>4 DEF RecorderState, HeadRecord
<1>6. r.persistedAt = NoHead => h = NoHead
  BY DEF NoHead
<1>7. CASE NothingToFlush(r)
  <2>1. Flushed(r) = [r EXCEPT !.persistedAt = h]
    BY <1>7 DEF Flushed, RecorderState
  <2>2. r.held = <<>> /\ r.itemsSent = 0
    BY <1>7 DEF NothingToFlush
  <2>3. h.tick \in {r.persistedAt.tick, r.tick}
    BY <1>5
  <2> HIDE DEF h
  <2> QED BY <1>5, <1>6, <1>7, <2>1, <2>2, <2>3 DEF Flushes, RecorderState
<1>8. CASE ~NothingToFlush(r)
  <2> DEFINE zero == 0
             none == <<>>
  <2>1. Flushed(r) = [r EXCEPT !.held = none, !.heldBytes = zero, !.itemsSent = zero, !.inFlight = f, !.sent = s]
    BY <1>8 DEF Flushed
  <2>2. none \in Seq(TraceRecord) /\ zero \in Nat /\ zero \in Int
    OBVIOUS
  <2> HIDE DEF f, s, zero, none
  <2>3. /\ Flushed(r) \in RecorderState
        /\ Flushed(r).inFlight = f /\ Flushed(r).sent = s /\ Flushed(r).persistedAt = r.persistedAt
        /\ Flushed(r).held = none /\ Flushed(r).itemsSent = zero
        /\ Flushed(r).cursor = r.cursor /\ Flushed(r).outbox = r.outbox /\ Flushed(r).header = r.header
        /\ Flushed(r).lastThroughSeq = r.lastThroughSeq /\ Flushed(r).tick = r.tick
    BY <1>2, <1>3, <2>1, <2>2 DEF RecorderState
  <2> QED BY <1>8, <2>3 DEF Flushes, f, s, zero, none
<1> QED BY <1>7, <1>8

(***************************************************************************)
(* What the buffer holds: the last records, in order, with every one that  *)
(* is not saved and that the profile keeps                                 *)
(***************************************************************************)
Oldest(b) == b.seq - Len(b.records)

InOrder(b) ==
  /\ \A i \in 1..Len(b.records) : b.records[i].seq = Oldest(b) + i - 1
  /\ Oldest(b) >= 0 /\ Oldest(b) <= b.persistedSeq + 1
  /\ b.persistedSeq < b.seq

KeepsEmitted(b) ==
  /\ \A e \in b.emitted : e.seq < b.seq /\ e.kept
  /\ \A i \in 1..Len(b.records) : b.records[i].kept => b.records[i] \in b.emitted
  /\ \A e \in b.emitted : e.seq >= Oldest(b) => e \in ToSet(b.records)
  /\ \A e, f \in b.emitted : e.seq = f.seq => e = f

BufferOK(b) == b \in Buffer /\ InOrder(b) /\ KeepsEmitted(b)

\* Forgetting takes only what is saved.
LEMMA ForgottenKeeps ==
  ASSUME NEW b, BufferOK(b)
  PROVE  /\ BufferOK(Forgotten(b))
         /\ Forgotten(b).seq = b.seq /\ Forgotten(b).persistedSeq = b.persistedSeq
         /\ Forgotten(b).emitted = b.emitted
<1> DEFINE s == b.records
           S == {i \in DOMAIN s : Forgettable(b, i)}
           n == Cardinality(S)
           t == SubSeq(s, n + 1, Len(s))
           c == [b EXCEPT !.records = t]
<1>0. b \in Buffer /\ s \in Seq(TraceRecord) /\ DOMAIN s = 1..Len(s) /\ Len(s) \in Nat
  BY DEF BufferOK, Buffer
<1>1. Forgotten(b) = c
  BY DEF Forgotten
<1>2. \A i \in 1..Len(s) : s[i].seq = Oldest(b) + i - 1
  BY DEF BufferOK, InOrder
<1>3. n \in 0..Len(s) /\ S = 1..n
  <2>1. \A i \in S : \A j \in 1..i : j \in S
    <3> SUFFICES ASSUME NEW i \in S, NEW j \in 1..i PROVE j \in S
      OBVIOUS
    <3>1. i \in 1..Len(s) /\ j \in 1..Len(s) /\ j <= i /\ i <= Len(s) - Capacity /\ s[i].seq <= b.persistedSeq
      BY <1>0 DEF Forgettable
    <3>2. s[j].seq <= s[i].seq
      BY <1>0, <1>2, <3>1 DEF Oldest, Buffer
    <3>3. s[j].seq <= b.persistedSeq
      <4>1. s[i] \in TraceRecord /\ s[j] \in TraceRecord /\ b.persistedSeq \in Int
        BY <1>0, <3>1 DEF Buffer
      <4>2. s[i].seq \in Int /\ s[j].seq \in Int
        BY <4>1 DEF TraceRecord
      <4> QED BY <3>1, <3>2, <4>1, <4>2
    <3>4. j <= Len(s) - Capacity
      BY <1>0, <3>1, RecorderAssumption
    <3> QED BY <1>0, <3>1, <3>3, <3>4 DEF Forgettable
  <2>2. S \in SUBSET (1..Len(s))
    BY <1>0
  <2> HIDE DEF S
  <2> QED BY <1>0, <2>1, <2>2, InitialSegment
<1>4. /\ t \in Seq(TraceRecord) /\ Len(t) = Len(s) - n
      /\ \A i \in 1..(Len(s) - n) : t[i] = s[n + i]
  <2> HIDE DEF n
  <2> QED BY <1>0, <1>3, AfterFirst
<1>5. \A i \in 1..n : s[i].seq <= b.persistedSeq
  BY <1>3 DEF Forgettable
<1> HIDE DEF S, n, t
<1>6. /\ c \in Buffer /\ c.seq = b.seq /\ c.persistedSeq = b.persistedSeq /\ c.emitted = b.emitted
      /\ c.records = t
  BY <1>0, <1>4 DEF Buffer
<1> HIDE DEF c
<1>7. Oldest(c) = Oldest(b) + n /\ Oldest(b) \in Int /\ Len(t) \in Nat /\ n \in Nat
      /\ b.seq \in Nat /\ b.persistedSeq \in Int
  <2>1. b.seq \in Nat /\ b.persistedSeq \in Int /\ n \in Nat
    BY <1>0, <1>3 DEF Buffer
  <2>2. Oldest(b) = b.seq - Len(s) /\ Oldest(c) = b.seq - Len(t)
    BY <1>6 DEF Oldest
  <2> QED BY <1>0, <1>3, <1>4, <2>1, <2>2
<1>8. Oldest(c) <= b.persistedSeq + 1
  <2>1. CASE n = 0
    BY <1>7, <2>1 DEF BufferOK, InOrder
  <2>2. CASE n # 0
    <3>1. n \in 1..n /\ n \in 1..Len(s)
      BY <1>3, <1>7, <2>2
    <3>2. s[n].seq <= b.persistedSeq /\ s[n].seq = Oldest(b) + n - 1
      BY <1>2, <1>5, <3>1
    <3> QED BY <1>7, <3>2
  <2> QED BY <2>1, <2>2
<1>9. InOrder(c)
  <2>1. \A i \in 1..Len(t) : t[i].seq = Oldest(c) + i - 1
    <3> SUFFICES ASSUME NEW i \in 1..Len(t) PROVE t[i].seq = Oldest(c) + i - 1
      OBVIOUS
    <3>1. n + i \in 1..Len(s) /\ t[i] = s[n + i]
      BY <1>0, <1>3, <1>4
    <3>2. s[n + i].seq = Oldest(b) + (n + i) - 1
      BY <1>2, <3>1
    <3> QED BY <1>7, <3>1, <3>2
  <2>2. Oldest(c) >= 0 /\ c.persistedSeq < c.seq
    BY <1>6, <1>7 DEF BufferOK, InOrder
  <2> QED BY <1>6, <1>8, <2>1, <2>2 DEF InOrder
<1>10. KeepsEmitted(c)
  <2>1. \A i \in 1..Len(t) : t[i].kept => t[i] \in b.emitted
    <3> SUFFICES ASSUME NEW i \in 1..Len(t) PROVE t[i].kept => t[i] \in b.emitted
      OBVIOUS
    <3>1. n + i \in 1..Len(s) /\ t[i] = s[n + i]
      BY <1>0, <1>3, <1>4
    <3> QED BY <3>1 DEF BufferOK, KeepsEmitted
  <2>2. ASSUME NEW e \in b.emitted, e.seq >= Oldest(c) PROVE e \in ToSet(t)
    <3>1. e.seq \in Int
      BY <1>0 DEF Buffer, TraceRecord
    <3>2. e \in ToSet(s)
      BY <1>7, <2>2, <3>1 DEF BufferOK, KeepsEmitted
    <3>3. PICK i \in 1..Len(s) : e = s[i]
      BY <1>0, <3>2 DEF ToSet
    <3>4. e.seq = Oldest(b) + i - 1
      BY <1>2, <3>3
    <3>5. i - n \in 1..Len(t) /\ n + (i - n) = i
      BY <1>0, <1>4, <1>7, <2>2, <3>4
    <3>6. t[i - n] = s[n + (i - n)]
      BY <1>4, <3>5
    <3>7. t[i - n] = e /\ DOMAIN t = 1..Len(t)
      BY <1>4, <3>3, <3>5, <3>6
    <3> QED BY <3>5, <3>7 DEF ToSet
  <2> QED BY <1>6, <2>1, <2>2 DEF BufferOK, KeepsEmitted
<1> QED BY <1>1, <1>6, <1>9, <1>10 DEF BufferOK

\* c has grown from b by records that are newer than all of b's.
Grown(b, c) ==
  /\ BufferOK(c)
  /\ c.seq >= b.seq /\ c.persistedSeq = b.persistedSeq
  /\ b.emitted \subseteq c.emitted
  /\ \A e \in c.emitted : e \in b.emitted \/ e.seq >= b.seq

\* A record more: the records stay in order, none that is not saved is forgotten.
LEMMA PushedKeeps ==
  ASSUME NEW b, BufferOK(b), NEW kept \in BOOLEAN, NEW refers \in Nat \cup {NoSnapshot}
  PROVE  /\ Grown(b, Pushed(b, kept, refers))
         /\ \A e \in Pushed(b, kept, refers).emitted : e \in b.emitted \/ (e.refers = refers /\ e.seq = b.seq)
         /\ kept => \E e \in Pushed(b, kept, refers).emitted : e.seq = b.seq /\ e.refers = refers
<1> DEFINE r == [seq |-> b.seq, kept |-> kept, refers |-> refers]
           x == IF kept THEN b.emitted \cup {r} ELSE b.emitted
           s == Append(b.records, r)
           q == b.seq + 1
           c == [b EXCEPT !.seq = q, !.records = s, !.emitted = x]
<1>0. /\ b \in Buffer /\ b.records \in Seq(TraceRecord) /\ b.seq \in Nat /\ b.persistedSeq \in Int
      /\ b.emitted \subseteq TraceRecord /\ Len(b.records) \in Nat
  BY DEF BufferOK, Buffer
<1>1. r \in TraceRecord /\ r.seq = b.seq /\ r.kept = kept /\ r.refers = refers
  BY <1>0 DEF TraceRecord
<1>2. Pushed(b, kept, refers) = Forgotten(c)
  BY DEF Pushed
<1> HIDE DEF r
<1>3. /\ x \in SUBSET TraceRecord /\ s \in Seq(TraceRecord) /\ q \in Nat
      /\ Len(s) = Len(b.records) + 1 /\ s[Len(b.records) + 1] = r
      /\ \A i \in 1..Len(b.records) : s[i] = b.records[i]
  BY <1>0, <1>1
<1>4. \A e : e \in x <=> e \in b.emitted \/ (kept /\ e = r)
  OBVIOUS
<1>5. b.emitted \subseteq x /\ (kept => r \in x)
  BY <1>4
<1> HIDE DEF x, s
<1>6. c \in Buffer /\ c.seq = q /\ c.records = s /\ c.emitted = x /\ c.persistedSeq = b.persistedSeq
  <2> HIDE DEF q
  <2> QED BY <1>0, <1>3 DEF Buffer
<1> HIDE DEF c
<1>7. Oldest(c) = Oldest(b) /\ Oldest(b) \in Int /\ Oldest(b) + Len(b.records) = b.seq
  BY <1>0, <1>3, <1>6, SMTT(30) DEF Oldest
<1>8. \A i \in 1..Len(s) : i \in 1..Len(b.records) \/ i = Len(b.records) + 1
  BY <1>0, <1>3
<1>9. InOrder(c)
  <2>1. ASSUME NEW i \in 1..Len(s) PROVE s[i].seq = Oldest(c) + i - 1
    <3>1. CASE i = Len(b.records) + 1
      BY <1>0, <1>1, <1>3, <1>7, <3>1
    <3>2. CASE i \in 1..Len(b.records)
      BY <1>3, <1>7, <3>2 DEF BufferOK, InOrder
    <3> QED BY <1>8, <3>1, <3>2
  <2> QED BY <1>0, <1>6, <1>7, <2>1 DEF InOrder, BufferOK
<1>10. KeepsEmitted(c)
  <2>1. \A e \in x : e.seq < q /\ e.kept
    BY <1>0, <1>1, <1>4 DEF BufferOK, KeepsEmitted, TraceRecord
  <2>2. ASSUME NEW i \in 1..Len(s), s[i].kept PROVE s[i] \in x
    <3>1. CASE i = Len(b.records) + 1
      BY <1>1, <1>3, <1>5, <2>2, <3>1
    <3>2. CASE i \in 1..Len(b.records)
      BY <1>3, <1>5, <2>2, <3>2 DEF BufferOK, KeepsEmitted
    <3> QED BY <1>8, <3>1, <3>2
  <2>3. ASSUME NEW e \in x, e.seq >= Oldest(c) PROVE e \in ToSet(s)
    <3>0. DOMAIN s = 1..Len(s) /\ Len(b.records) + 1 \in 1..Len(s) /\ 1..Len(b.records) \subseteq 1..Len(s)
      BY <1>0, <1>3
    <3>1. CASE e = r
      BY <1>3, <3>0, <3>1 DEF ToSet
    <3>2. CASE e \in b.emitted
      <4>1. e \in ToSet(b.records)
        BY <1>7, <2>3, <3>2 DEF BufferOK, KeepsEmitted
      <4>2. PICK i \in 1..Len(b.records) : e = b.records[i]
        BY <1>0, <4>1 DEF ToSet
      <4>3. i \in 1..Len(s) /\ e = s[i]
        BY <1>3, <3>0, <4>2
      <4> QED BY <3>0, <4>3 DEF ToSet
    <3> QED BY <1>4, <3>1, <3>2
  <2>4. ASSUME NEW e \in x, NEW f \in x, e.seq = f.seq PROVE e = f
    <3>1. \A g \in b.emitted : g.seq < b.seq /\ g.seq \in Nat
      BY <1>0 DEF BufferOK, KeepsEmitted, TraceRecord
    <3> QED BY <1>0, <1>1, <1>4, <2>4, <3>1 DEF BufferOK, KeepsEmitted
  <2> QED BY <1>6, <2>1, <2>2, <2>3, <2>4 DEF KeepsEmitted
<1>11. BufferOK(c)
  BY <1>6, <1>9, <1>10 DEF BufferOK
<1> DEFINE d == Forgotten(c)
<1>12. BufferOK(d) /\ d.seq = q /\ d.persistedSeq = b.persistedSeq /\ d.emitted = x
  BY <1>6, <1>11, ForgottenKeeps
<1> HIDE DEF d
<1>13. Grown(b, d)
  BY <1>0, <1>1, <1>4, <1>5, <1>12 DEF Grown
<1> QED BY <1>1, <1>2, <1>4, <1>5, <1>12, <1>13 DEF d

\* The buffer of a run grows, step after step.
LEMMA GrownOn ==
  ASSUME NEW b, NEW c, NEW d, BufferOK(b), Grown(b, c), Grown(c, d)
  PROVE  Grown(b, d)
<1>1. b.seq \in Nat /\ c.seq \in Nat /\ d.seq \in Nat /\ b.emitted \subseteq TraceRecord
      /\ c.emitted \subseteq TraceRecord /\ d.emitted \subseteq TraceRecord
  BY DEF Grown, BufferOK, Buffer
<1>2. \A e \in TraceRecord : e.seq \in Nat
  BY DEF TraceRecord
<1> QED BY <1>1, <1>2 DEF Grown

\* A report of what is saved lets the buffer forget, and nothing else.
LEMMA MarkedKeeps ==
  ASSUME NEW b, BufferOK(b), NEW seq \in Int
  PROVE  /\ BufferOK(MarkedPersisted(b, seq))
         /\ MarkedPersisted(b, seq).seq = b.seq /\ MarkedPersisted(b, seq).emitted = b.emitted
         /\ \/ MarkedPersisted(b, seq).persistedSeq = b.persistedSeq
            \/ MarkedPersisted(b, seq).persistedSeq <= seq
<1> DEFINE mark == IF seq < b.seq THEN seq ELSE b.seq - 1
           p == IF mark > b.persistedSeq THEN mark ELSE b.persistedSeq
           c == [b EXCEPT !.persistedSeq = p]
<1>0. b \in Buffer /\ b.seq \in Nat /\ b.persistedSeq \in Int /\ b.persistedSeq < b.seq
  BY DEF BufferOK, InOrder, Buffer
<1>1. /\ p \in Int /\ p >= b.persistedSeq /\ p < b.seq
      /\ p = b.persistedSeq \/ p <= seq
  BY <1>0
<1>2. MarkedPersisted(b, seq) = Forgotten(c)
  BY DEF MarkedPersisted
<1> HIDE DEF p
<1>3. /\ c \in Buffer /\ c.seq = b.seq /\ c.emitted = b.emitted /\ c.records = b.records
      /\ c.persistedSeq = p
  BY <1>0, <1>1 DEF Buffer
<1> HIDE DEF c
<1>4. Oldest(c) = Oldest(b) /\ Oldest(b) \in Int
  BY <1>3 DEF Oldest, Buffer
<1>5. BufferOK(c)
  BY <1>0, <1>1, <1>3, <1>4 DEF BufferOK, InOrder, KeepsEmitted
<1> QED BY <1>1, <1>2, <1>3, <1>5, ForgottenKeeps

\* Records that refer to no snapshot are new.
Plainly(b, c) == \A e \in c.emitted : e \in b.emitted \/ e.refers = NoSnapshot

\* The records a tick emits leave a buffer in order, and none refers to a snapshot.
LEMMA EmittedKeeps ==
  ASSUME NEW b, BufferOK(b), NEW s \in Seq(BOOLEAN)
  PROVE  Grown(b, Emitted(b, s)) /\ Plainly(b, Emitted(b, s))
<1> DEFINE n == Len(s)
           V == {x \in Buffer : Grown(b, x) /\ Plainly(b, x)}
           F == [i \in 1..n |-> [v \in V |-> Pushed(v, s[i], NoSnapshot)]]
           Rec(it) == it = [t \in SUBSET DOMAIN s |->
                              IF t = {} THEN b ELSE Pushed(it[t \ {Max(t)}], s[Max(t)], NoSnapshot)]
           g == CHOOSE it : Rec(it)
<1>1. n \in Nat /\ DOMAIN s = 1..n
  OBVIOUS
<1>2. b \in V
  <2>1. b \in Buffer /\ b.seq \in Nat
    BY DEF BufferOK, Buffer
  <2>2. Grown(b, b) /\ Plainly(b, b)
    BY <2>1 DEF Grown, Plainly
  <2> QED BY <2>1, <2>2
<1>3. \A v \in V, kept \in BOOLEAN : Pushed(v, kept, NoSnapshot) \in V
  <2> SUFFICES ASSUME NEW v \in V, NEW kept \in BOOLEAN PROVE Pushed(v, kept, NoSnapshot) \in V
    OBVIOUS
  <2>1. Grown(b, v) /\ Plainly(b, v)
    OBVIOUS
  <2>0. BufferOK(v)
    BY <2>1 DEF Grown
  <2> DEFINE c == Pushed(v, kept, NoSnapshot)
  <2>2. Grown(v, c) /\ \A e \in c.emitted : e \in v.emitted \/ e.refers = NoSnapshot
    <3>1. NoSnapshot \in Nat \cup {NoSnapshot}
      OBVIOUS
    <3> HIDE DEF V
    <3>2. Grown(v, c)
      BY <2>0, <3>1, PushedKeeps
    <3>3. \A e \in c.emitted : e \in v.emitted \/ e.refers = NoSnapshot
      BY <2>0, <3>1, PushedKeeps, ZenonT(30)
    <3> QED BY <3>2, <3>3
  <2> HIDE DEF c
  <2>3. Grown(b, c) /\ c \in Buffer
    BY <2>1, <2>2, GrownOn DEF Grown, BufferOK
  <2>4. Plainly(b, c)
    BY <2>1, <2>2 DEF Plainly
  <2>5. c \in V
    BY <2>3, <2>4
  <2> QED BY <2>5 DEF c
<1> HIDE DEF V
<1>4. F \in [1..n -> [V -> V]] /\ \A i \in 1..n, v \in V : F[i][v] = Pushed(v, s[i], NoSnapshot)
  <2>1. \A i \in 1..n, v \in V : Pushed(v, s[i], NoSnapshot) \in V
    BY <1>1, <1>3
  <2> HIDE DEF n
  <2> QED BY <2>1
<1> HIDE DEF F, n
<1>5. ASSUME NEW t \in SUBSET (1..n), t # {}
      PROVE  Max(t) \in 1..n /\ t \ {Max(t)} \in SUBSET (1..n)
  BY <1>1, <1>5, GreatestIndex
<1>6. PICK it \in [SUBSET (1..n) -> V] : SolvesFold(it, n, V, b, F)
  BY <1>1, <1>2, <1>4, FoldExists
<1>7. Rec(it)
  <2>1. ASSUME NEW t \in SUBSET (1..n), t # {}
        PROVE  it[t] = Pushed(it[t \ {Max(t)}], s[Max(t)], NoSnapshot)
    BY <1>4, <1>5, <1>6, <2>1 DEF SolvesFold
  <2>2. it[{}] = b
    BY <1>6 DEF SolvesFold
  <2> QED BY <1>1, <2>1, <2>2
<1>8. Rec(g)
  BY <1>7
<1>9. SolvesFold(g, n, V, b, F)
  <2> HIDE DEF g
  <2>1. ASSUME NEW t \in SUBSET (1..n), t # {}, g[t \ {Max(t)}] \in V
        PROVE  g[t] = F[Max(t)][g[t \ {Max(t)}]]
    <3>1. Max(t) \in 1..n
      BY <1>5, <2>1
    <3>2. g[t] = Pushed(g[t \ {Max(t)}], s[Max(t)], NoSnapshot)
      BY <1>1, <1>8, <2>1
    <3> QED BY <1>4, <2>1, <3>1, <3>2
  <2>2. g[{}] = b
    BY <1>1, <1>8
  <2> QED BY <2>1, <2>2 DEF SolvesFold
<1>10. Emitted(b, s) = FoldValue(g, n)
  BY <1>1 DEF FoldValue, Emitted, FoldLeft, MapThenFoldSet
<1> HIDE DEF g
<1>11. PICK H : StepsOf(H, n, V, b, F) /\ H[n] = FoldValue(g, n)
  BY <1>1, <1>2, <1>4, <1>9, FoldSteps
<1>12. H[n] \in V
  BY <1>1, <1>11 DEF StepsOf
<1> QED BY <1>10, <1>11, <1>12 DEF V

(***************************************************************************)
(* What is gathered                                                        *)
(***************************************************************************)
NewerThan(b, seq) == {e \in b.emitted : e.seq >= seq}

\* Since a seq that is still held, the buffer has every record, in order.
LEMMA SinceFacts ==
  ASSUME NEW b, BufferOK(b), NEW seq \in Int, Oldest(b) <= seq, seq <= b.seq
  PROVE  /\ Since(b, seq) \in Seq(TraceRecord) /\ Unlike(Since(b, seq))
         /\ Since(b, seq) = <<>> => b.seq = seq
         /\ Since(b, seq) # <<>> => Last(Since(b, seq)).seq = b.seq - 1
         /\ ToSet(Since(b, seq)) \cap Keepers = NewerThan(b, seq)
<1> DEFINE s == b.records
           first == Oldest(b)
           n == seq - first
           r == Since(b, seq)
<1>0. /\ b \in Buffer /\ s \in Seq(TraceRecord) /\ b.seq \in Nat /\ Len(s) \in Nat
      /\ b.emitted \subseteq TraceRecord /\ DOMAIN s = 1..Len(s)
  BY DEF BufferOK, Buffer
<1>1. first \in Int /\ first + Len(s) = b.seq
  BY <1>0 DEF Oldest
<1>2. \A i \in 1..Len(s) : s[i].seq = first + i - 1
  BY DEF BufferOK, InOrder
<1>3. n \in Nat /\ n <= Len(s)
  BY <1>0, <1>1
<1>4. r = SubSeq(s, n + 1, Len(s))
  <2>1. CASE s = <<>>
    <3>1. Len(s) = 0 /\ n = 0
      BY <1>1, <1>3, <2>1
    <3> QED BY <2>1, <3>1 DEF Since
  <2>2. CASE s # <<>>
    <3>1. Head(s) = s[1] /\ 1 \in 1..Len(s)
      BY <1>0, <2>2
    <3>2. Head(s).seq = first
      BY <1>1, <1>2, <3>1
    <3>3. seq - Head(b.records).seq = n
      BY <3>2
    <3>4. (IF n > 0 THEN n ELSE 0) = n
      BY <1>3
    <3> HIDE DEF n
    <3> QED BY <2>2, <3>3, <3>4 DEF Since
  <2> QED BY <2>1, <2>2
<1> HIDE DEF r
<1>5. /\ r \in Seq(TraceRecord) /\ Len(r) = Len(s) - n /\ DOMAIN r = 1..Len(r)
      /\ \A i \in 1..Len(r) : r[i] = s[n + i]
  <2> HIDE DEF n
  <2> QED BY <1>0, <1>3, <1>4, AfterFirst
<1>6. Len(r) = b.seq - seq /\ Len(r) \in Nat
  BY <1>0, <1>1, <1>5
<1>7. \A i \in 1..Len(r) : n + i \in 1..Len(s) /\ r[i] = s[n + i] /\ r[i].seq = seq + i - 1
  <2> SUFFICES ASSUME NEW i \in 1..Len(r)
               PROVE  n + i \in 1..Len(s) /\ r[i] = s[n + i] /\ r[i].seq = seq + i - 1
    OBVIOUS
  <2>1. n + i \in 1..Len(s) /\ r[i] = s[n + i]
    BY <1>0, <1>3, <1>5
  <2>2. s[n + i].seq = first + (n + i) - 1
    BY <1>2, <2>1
  <2> QED BY <1>1, <2>1, <2>2
<1>8. Unlike(r)
  BY <1>5, <1>7 DEF Unlike
<1>9. r # <<>> => Last(r).seq = b.seq - 1
  <2> SUFFICES ASSUME r # <<>> PROVE Last(r).seq = b.seq - 1
    OBVIOUS
  <2>1. Len(r) \in 1..Len(r)
    BY <1>5, <1>6
  <2>2. Last(r) = r[Len(r)]
    BY DEF Last
  <2> QED BY <1>0, <1>6, <1>7, <2>1, <2>2
<1>10. r = <<>> => b.seq = seq
  BY <1>0, <1>6
<1>11. ASSUME NEW e \in ToSet(r), e \in Keepers PROVE e \in NewerThan(b, seq)
  <2>1. PICK i \in 1..Len(r) : e = r[i]
    BY <1>5 DEF ToSet
  <2>2. e \in b.emitted
    BY <1>7, <1>11, <2>1 DEF BufferOK, KeepsEmitted, Keepers
  <2>3. e.seq >= seq
    BY <1>7, <2>1
  <2> QED BY <2>2, <2>3 DEF NewerThan
<1>12. ASSUME NEW e \in NewerThan(b, seq) PROVE e \in ToSet(r) /\ e \in Keepers
  <2>1. e \in b.emitted /\ e.seq >= seq /\ e \in TraceRecord /\ e.seq \in Nat /\ e.kept
    BY <1>0 DEF NewerThan, BufferOK, KeepsEmitted, TraceRecord
  <2>2. e \in ToSet(s)
    BY <1>1, <2>1 DEF BufferOK, KeepsEmitted
  <2>3. PICK i \in 1..Len(s) : e = s[i]
    BY <1>0, <2>2 DEF ToSet
  <2>4. i - n \in 1..Len(r) /\ n + (i - n) = i
    <3>1. e.seq = first + i - 1
      BY <1>2, <2>3
    <3>2. e.seq >= seq /\ e.seq \in Nat
      BY <2>1
    <3>3. Len(r) = Len(s) - n /\ Len(s) \in Nat /\ i \in Int /\ i <= Len(s)
      BY <1>0, <1>5
    <3> QED BY <1>1, <3>1, <3>2, <3>3
  <2>5. r[i - n] = e
    BY <1>7, <2>3, <2>4
  <2> QED BY <1>5, <2>1, <2>4, <2>5 DEF ToSet, Keepers
<1> QED BY <1>5, <1>8, <1>9, <1>10, <1>11, <1>12 DEF r

\* g has gathered from b, at a tick.
GatheredFrom(g, r, b, tick) ==
  /\ g \in RecorderState
  /\ g.cursor = b.seq /\ g.lastThroughSeq = b.seq - 1 /\ g.tick = tick
  /\ g.outbox = r.outbox /\ g.itemsSent = r.itemsSent /\ g.header = r.header
  /\ g.inFlight = r.inFlight /\ g.persistedAt = r.persistedAt /\ g.sent = r.sent
  /\ \E k \in Seq(Keepers) : /\ g.held = r.held \o k
                             /\ ToSet(k) = NewerThan(b, r.cursor)
                             /\ Len(k) = Cardinality(NewerThan(b, r.cursor))

\* The recorder is up to date with the buffer b.
UpTo(r, b) == r.cursor = b.seq /\ r.lastThroughSeq = b.seq - 1

\* Gathering holds every new record that the profile keeps.
LEMMA GatheredFacts ==
  ASSUME NEW r \in RecorderState, NEW a, NEW b, BufferOK(a), UpTo(r, a), Grown(a, b), NEW tick \in Nat
  PROVE  GatheredFrom(Gathered(r, b, tick), r, b, tick)
<1> DEFINE fresh == Since(b, r.cursor)
           k == Kept(fresh)
           c == CursorAfter(r, fresh)
           l == IF fresh = <<>> THEN r.lastThroughSeq ELSE Last(fresh).seq
           h == r.held \o k
           y == r.heldBytes + Len(k)
           g == [r EXCEPT !.tick = tick, !.cursor = c, !.lastThroughSeq = l, !.held = h, !.heldBytes = y]
<1>1. /\ BufferOK(b) /\ a.seq \in Nat /\ b.seq \in Nat /\ a.seq <= b.seq
      /\ Oldest(b) \in Int /\ Oldest(b) <= a.seq
  <2>1. BufferOK(b) /\ a.seq \in Nat /\ b.seq \in Nat /\ Len(b.records) \in Nat /\ a.persistedSeq \in Int
    BY DEF Grown, BufferOK, Buffer
  <2>2. Oldest(b) <= b.persistedSeq + 1 /\ b.persistedSeq = a.persistedSeq /\ a.persistedSeq < a.seq /\ a.seq <= b.seq
    BY DEF Grown, BufferOK, InOrder
  <2>3. Oldest(b) \in Int
    BY <2>1 DEF Oldest
  <2> QED BY <2>1, <2>2, <2>3
<1>2. r.cursor = a.seq /\ r.cursor \in Int /\ r.lastThroughSeq = a.seq - 1
  BY <1>1 DEF UpTo
<1>3. /\ fresh \in Seq(TraceRecord) /\ Unlike(fresh)
      /\ fresh = <<>> => b.seq = a.seq
      /\ fresh # <<>> => Last(fresh).seq = b.seq - 1
      /\ ToSet(fresh) \cap Keepers = NewerThan(b, r.cursor)
  BY <1>1, <1>2, SinceFacts
<1> HIDE DEF fresh
<1>4. /\ k \in Seq(Keepers) /\ ToSet(k) = NewerThan(b, r.cursor)
      /\ Len(k) = Cardinality(NewerThan(b, r.cursor))
  BY <1>3, KeptFacts
<1>5. k \in Seq(TraceRecord) /\ Len(k) \in Nat
  <2>1. Keepers \subseteq TraceRecord
    BY DEF Keepers
  <2> HIDE DEF k
  <2> QED BY <1>4, <2>1
<1>6. c = b.seq /\ l = b.seq - 1
  <2>1. CASE fresh = <<>>
    BY <1>2, <1>3, <2>1 DEF CursorAfter
  <2>2. CASE fresh # <<>>
    BY <1>1, <1>3, <2>2 DEF CursorAfter
  <2> QED BY <2>1, <2>2
<1> HIDE DEF k
<1>7. h \in Seq(TraceRecord) /\ y \in Int /\ c \in Int /\ l \in Int
  BY <1>1, <1>5, <1>6, SMTT(30) DEF RecorderState
<1>8. Gathered(r, b, tick) = g
  BY DEF Gathered, fresh, k
<1> HIDE DEF c, l, h, y
<1>9. /\ g \in RecorderState
      /\ g.cursor = c /\ g.lastThroughSeq = l /\ g.tick = tick /\ g.held = h
      /\ g.outbox = r.outbox /\ g.itemsSent = r.itemsSent /\ g.header = r.header
      /\ g.inFlight = r.inFlight /\ g.persistedAt = r.persistedAt /\ g.sent = r.sent
  BY <1>7 DEF RecorderState
<1> HIDE DEF g
<1>10. g.held = r.held \o k
  BY <1>9 DEF h
<1> QED BY <1>4, <1>6, <1>8, <1>9, <1>10 DEF GatheredFrom

\* An item is sent once the header is stored, and kept in the outbox before.
LEMMA EnqueuedFacts ==
  ASSUME NEW r \in RecorderState, NEW item \in Item
  PROVE  /\ Enqueued(r, item) \in RecorderState
         /\ Enqueued(r, item).cursor = r.cursor /\ Enqueued(r, item).lastThroughSeq = r.lastThroughSeq
         /\ Enqueued(r, item).held = r.held /\ Enqueued(r, item).header = r.header
         /\ Enqueued(r, item).inFlight = r.inFlight /\ Enqueued(r, item).tick = r.tick
         /\ Enqueued(r, item).persistedAt = r.persistedAt
         /\ r.header => /\ Enqueued(r, item).itemsSent = r.itemsSent + 1
                        /\ Enqueued(r, item).sent = Append(r.sent, item)
                        /\ Enqueued(r, item).outbox = r.outbox
         /\ ~r.header => /\ Enqueued(r, item).itemsSent = r.itemsSent
                         /\ Enqueued(r, item).sent = r.sent
                         /\ Enqueued(r, item).outbox = Append(r.outbox, item)
<1> DEFINE y == r.heldBytes + 1
           n == r.itemsSent + 1
           s == Append(r.sent, item)
           o == Append(r.outbox, item)
<1>1. y \in Int /\ n \in Nat /\ o \in Seq(Item)
  BY DEF RecorderState
<1>2. s \in Seq(Handed)
  BY DEF RecorderState, Handed
<1> HIDE DEF y, n, s, o
<1>3. CASE r.header
  <2> DEFINE q == [r EXCEPT !.heldBytes = y, !.itemsSent = n, !.sent = s]
  <2>1. /\ q \in RecorderState
        /\ q.cursor = r.cursor /\ q.lastThroughSeq = r.lastThroughSeq
        /\ q.held = r.held /\ q.header = r.header
        /\ q.inFlight = r.inFlight /\ q.tick = r.tick /\ q.persistedAt = r.persistedAt
        /\ q.itemsSent = n /\ q.sent = s /\ q.outbox = r.outbox
    BY <1>1, <1>2 DEF RecorderState
  <2>2. Enqueued(r, item) = WaitingUpdated(q)
    BY <1>3 DEF Enqueued, y, n, s
  <2> HIDE DEF q
  <2>3. Alike(WaitingUpdated(q), q)
    BY <2>1, WaitingFacts
  <2> QED BY <1>3, <2>1, <2>2, <2>3 DEF Alike, n, s
<1>4. CASE ~r.header
  <2> DEFINE q == [r EXCEPT !.heldBytes = y, !.outbox = o]
  <2>1. /\ q \in RecorderState
        /\ q.cursor = r.cursor /\ q.lastThroughSeq = r.lastThroughSeq
        /\ q.held = r.held /\ q.header = r.header
        /\ q.inFlight = r.inFlight /\ q.tick = r.tick /\ q.persistedAt = r.persistedAt
        /\ q.itemsSent = r.itemsSent /\ q.sent = r.sent /\ q.outbox = o
    BY <1>1, <1>2 DEF RecorderState
  <2>2. Enqueued(r, item) = WaitingUpdated(q)
    BY <1>4 DEF Enqueued, y, o
  <2> HIDE DEF q
  <2>3. Alike(WaitingUpdated(q), q)
    BY <2>1, WaitingFacts
  <2> QED BY <1>4, <2>1, <2>2, <2>3 DEF Alike, o
<1> QED BY <1>3, <1>4

(***************************************************************************)
(* The run and its recorder, between two events                            *)
(***************************************************************************)
IsSnapshot(e) == e.op = "item" /\ e.kind = "snapshot"

\* Until the header is stored: the two records and the snapshot of the start.
BeforeHeader(s) ==
  /\ s.recorder.inFlight = <<>> /\ s.recorder.persistedAt = NoHead /\ s.recorder.tick = 0
  /\ ToSet(s.recorder.held) = s.buffer.emitted
  /\ Len(s.recorder.held) = Cardinality(s.buffer.emitted)
  /\ s.sentBlobs = {s.section}
  /\ \E item \in Item : /\ s.recorder.outbox = <<item>>
                        /\ IsSnapshot(item) /\ item.tick = 0 /\ item.carries /\ item.section = s.section
  /\ \A e \in s.buffer.emitted : e.refers \in {NoSnapshot, 0}
  /\ \E e \in s.buffer.emitted : e.refers = 0

Settled(r) ==
  /\ r \in RecorderState
  /\ r.itemsSent = 0 /\ r.sent = <<>>
  /\ r.header => r.held = <<>> /\ r.outbox = <<>>

SimOK(s) ==
  /\ s \in SimState /\ BufferOK(s.buffer) /\ UpTo(s.recorder, s.buffer) /\ Settled(s.recorder)
  /\ ~s.recorder.header => BeforeHeader(s)

\* Up to where records, and of which sections the data, were handed over.
From(s)  == IF s.recorder.header THEN s.buffer.seq ELSE 0
Blobs(s) == IF s.recorder.header THEN s.sentBlobs ELSE {}

\* The items that go with the records from a seq on, at a tick; `sent` and `blobs` are
\* the sections sent after and before.
Accounts(items, tick, b, sent, from, blobs) ==
  /\ \A i \in DOMAIN items : items[i].tick = tick
  /\ \A i \in DOMAIN items : IsSnapshot(items[i]) =>
       /\ items[i].carries \/ items[i].section \in blobs
       /\ \E e \in b.emitted : e.seq >= from /\ e.refers = tick
  /\ \A x \in sent : x \in blobs \/ \E i \in DOMAIN items : IsSnapshot(items[i]) /\ items[i].section = x
  /\ blobs \subseteq sent
  /\ \A e \in b.emitted : e.seq >= from /\ e.refers # NoSnapshot =>
       e.refers = tick /\ \E i \in DOMAIN items : IsSnapshot(items[i])

\* A batch of the records `new` follows the items, unless there is nothing at all.
Sends(r, q, new, items, out) ==
  \/ /\ items = <<>> /\ new = {} /\ out = <<>>
     /\ r.inFlight = <<>> /\ q.inFlight = <<>>
     /\ q.persistedAt.throughSeq = r.persistedAt.throughSeq
     /\ q.persistedAt.tick \in {r.persistedAt.tick, q.tick}
     /\ r.persistedAt = NoHead => q.persistedAt = NoHead
  \/ \E batch \in BatchEntry, u \in Unsaved :
       /\ out = Append(items, batch)
       /\ ToSet(batch.records) = new
       /\ batch.throughSeq = q.lastThroughSeq /\ batch.tick = q.tick
       /\ q.inFlight = Append(r.inFlight, u)
       /\ u.throughSeq = q.lastThroughSeq /\ u.records = Cardinality(new)
       /\ q.persistedAt = r.persistedAt

Hands(s, q, out) ==
  /\ SimOK(q) /\ q.recorder.header
  /\ Grown(s.buffer, q.buffer)
  /\ q.recorder.tick >= s.recorder.tick
  /\ \E items \in Seq(Item) :
       /\ s.recorder.header /\ (items # <<>> \/ NewerThan(q.buffer, From(s)) # {}) => q.recorder.tick > s.recorder.tick
       /\ Accounts(items, q.recorder.tick, q.buffer, q.sentBlobs, From(s), Blobs(s))
       /\ Sends(s.recorder, q.recorder, NewerThan(q.buffer, From(s)), items, out)

\* Nothing happens that the storage worker or the buffer would see.
Rests(s, q) ==
  /\ q \in SimState
  /\ q.buffer = s.buffer /\ q.section = s.section /\ q.sentBlobs = s.sentBlobs
  /\ Alike(q.recorder, s.recorder)

\* A run of which only a flag changes is as sound as before.
LEMMA RestsOK ==
  ASSUME NEW s, NEW q, SimOK(s), Rests(s, q)
  PROVE  SimOK(q)
<1> DEFINE r == s.recorder
           z == q.recorder
<1>1. /\ z \in RecorderState /\ z.held = r.held /\ z.outbox = r.outbox /\ z.itemsSent = r.itemsSent
      /\ z.header = r.header /\ z.inFlight = r.inFlight /\ z.tick = r.tick
      /\ z.persistedAt = r.persistedAt /\ z.sent = r.sent
      /\ z.cursor = r.cursor /\ z.lastThroughSeq = r.lastThroughSeq
  BY DEF Rests, Alike
<1>2. q \in SimState /\ q.buffer = s.buffer /\ q.section = s.section /\ q.sentBlobs = s.sentBlobs
  BY DEF Rests
<1>3. Settled(z) /\ UpTo(z, q.buffer) /\ BufferOK(q.buffer)
  BY <1>1, <1>2 DEF SimOK, Settled, UpTo
<1>4. BeforeHeader(s) => BeforeHeader(q)
  BY <1>1, <1>2 DEF BeforeHeader
<1> QED BY <1>1, <1>2, <1>3, <1>4 DEF SimOK

\* What a flush leaves.
FlushedTo(z, g, items, out) ==
  /\ Settled(z) /\ z.header
  /\ z.cursor = g.cursor /\ z.lastThroughSeq = g.lastThroughSeq /\ z.tick = g.tick
  /\ \/ /\ items = <<>> /\ g.held = <<>> /\ out = <<>>
        /\ g.inFlight = <<>> /\ z.inFlight = <<>>
        /\ z.persistedAt.throughSeq = g.persistedAt.throughSeq
        /\ z.persistedAt.tick \in {g.persistedAt.tick, g.tick}
        /\ g.persistedAt = NoHead => z.persistedAt = NoHead
     \/ /\ out = Append(items, Batch(g))
        /\ z.inFlight = Append(g.inFlight, [throughSeq |-> g.lastThroughSeq,
                                            records |-> Len(g.held), bytes |-> g.heldBytes])
        /\ z.persistedAt = g.persistedAt

\* A flush behind items: the items go out, then one batch, or nothing at all.
LEMMA FlushHands ==
  ASSUME NEW g \in RecorderState, NEW items \in Seq(Item), g.header, g.outbox = <<>>,
         g.itemsSent = Len(items), g.sent = items
  PROVE  FlushedTo(Send(WaitingUpdated(Flushed(g))), g, items, WaitingUpdated(Flushed(g)).sent)
<1> DEFINE f == Flushed(g)
           w == WaitingUpdated(f)
           none == <<>>
           z == [w EXCEPT !.sent = none]
<1>1. Flushes(f, g)
  BY FlushedFacts
<1> HIDE DEF f
<1>2. Alike(w, f)
  BY <1>1, WaitingFacts DEF Flushes
<1> HIDE DEF w
<1>3. Send(w) = z
  BY DEF Send
<1>4. none \in Seq(Handed)
  OBVIOUS
<1> HIDE DEF none
<1>5. /\ z \in RecorderState /\ z.sent = none
      /\ z.cursor = w.cursor /\ z.held = w.held /\ z.outbox = w.outbox /\ z.itemsSent = w.itemsSent
      /\ z.header = w.header /\ z.inFlight = w.inFlight /\ z.lastThroughSeq = w.lastThroughSeq
      /\ z.tick = w.tick /\ z.persistedAt = w.persistedAt
  BY <1>2, <1>4 DEF Alike, RecorderState
<1> HIDE DEF z
<1>6. /\ z.cursor = g.cursor /\ z.outbox = g.outbox /\ z.header = g.header
      /\ z.lastThroughSeq = g.lastThroughSeq /\ z.tick = g.tick
      /\ z.held = <<>> /\ z.itemsSent = 0 /\ z.sent = <<>>
      /\ z.inFlight = f.inFlight /\ z.persistedAt = f.persistedAt /\ w.sent = f.sent
  BY <1>1, <1>2, <1>5 DEF Flushes, Alike, none
<1>7. Settled(z)
  BY <1>5, <1>6 DEF Settled
<1>8. CASE NothingToFlush(g)
  <2>1. g.held = <<>> /\ g.inFlight = <<>> /\ Len(items) = 0
    BY <1>8 DEF NothingToFlush
  <2>2. items = <<>>
    BY <2>1
  <2>3. /\ f.inFlight = g.inFlight /\ f.sent = g.sent
        /\ f.persistedAt.throughSeq = g.persistedAt.throughSeq
        /\ f.persistedAt.tick \in {g.persistedAt.tick, g.tick}
        /\ g.persistedAt = NoHead => f.persistedAt = NoHead
    BY <1>1, <1>8 DEF Flushes
  <2> QED BY <1>3, <1>6, <1>7, <2>1, <2>2, <2>3 DEF FlushedTo, w, f
<1>9. CASE ~NothingToFlush(g)
  <2>1. /\ f.inFlight = Append(g.inFlight, [throughSeq |-> g.lastThroughSeq,
                                            records |-> Len(g.held), bytes |-> g.heldBytes])
        /\ f.sent = Append(g.sent, Batch(g))
        /\ f.persistedAt = g.persistedAt
    BY <1>1, <1>9 DEF Flushes
  <2>2. /\ z.inFlight = Append(g.inFlight, [throughSeq |-> g.lastThroughSeq,
                                            records |-> Len(g.held), bytes |-> g.heldBytes])
        /\ w.sent = Append(items, Batch(g))
        /\ z.persistedAt = g.persistedAt
    BY <1>6, <2>1
  <2> QED BY <1>3, <1>6, <1>7, <2>2 DEF FlushedTo, w, f
<1> QED BY <1>8, <1>9

\* What a run did since the last time, gathered and flushed, is handed over as a whole.
LEMMA CollectedHands ==
  ASSUME NEW s, SimOK(s), s.recorder.header, NEW y \in SimState, NEW tick \in Nat, NEW items \in Seq(Item),
         Grown(s.buffer, y.buffer), UpTo(y.recorder, s.buffer),
         y.recorder.header, y.recorder.held = <<>>, y.recorder.outbox = <<>>,
         y.recorder.itemsSent = Len(items), y.recorder.sent = items,
         y.recorder.inFlight = s.recorder.inFlight, y.recorder.persistedAt = s.recorder.persistedAt,
         tick >= s.recorder.tick, items # <<>> \/ NewerThan(y.buffer, s.buffer.seq) # {} => tick > s.recorder.tick,
         Accounts(items, tick, y.buffer, y.sentBlobs, s.buffer.seq, s.sentBlobs),
         NEW x, x = Gathers(y, tick), NEW q, q = [x EXCEPT !.recorder = Send(@)]
  PROVE  Hands(s, q, x.recorder.sent)
<1> DEFINE r == y.recorder
           g == Gathered(r, y.buffer, tick)
           new == NewerThan(y.buffer, s.buffer.seq)
           w == WaitingUpdated(Flushed(g))
           z == Send(w)
<1>1. r \in RecorderState /\ BufferOK(s.buffer) /\ BufferOK(y.buffer)
  BY DEF SimState, SimOK, Grown
<1>2. GatheredFrom(g, r, y.buffer, tick)
  BY <1>1, GatheredFacts
<1>3. r.cursor = s.buffer.seq
  BY DEF UpTo
<1>4. x.recorder = w
  <2>1. x.recorder = Collected(r, y.buffer, tick)
    BY DEF Gathers, SimState
  <2>2. g.header
    BY <1>2 DEF GatheredFrom
  <2> QED BY <2>1, <2>2 DEF Collected
<1> HIDE DEF g
<1>5. /\ g \in RecorderState /\ g.header /\ g.outbox = <<>> /\ g.itemsSent = Len(items) /\ g.sent = items
      /\ g.cursor = y.buffer.seq /\ g.lastThroughSeq = y.buffer.seq - 1 /\ g.tick = tick
      /\ g.inFlight = s.recorder.inFlight /\ g.persistedAt = s.recorder.persistedAt
  BY <1>2 DEF GatheredFrom
<1>6. g.held \in Seq(TraceRecord) /\ ToSet(g.held) = new /\ Len(g.held) = Cardinality(new)
  <2>1. PICK k \in Seq(Keepers) : g.held = r.held \o k /\ ToSet(k) = new /\ Len(k) = Cardinality(new)
    BY <1>2, <1>3 DEF GatheredFrom
  <2>2. r.held \o k = k
    OBVIOUS
  <2> QED BY <1>5, <2>1, <2>2 DEF RecorderState
<1>7. FlushedTo(z, g, items, w.sent)
  BY <1>5, FlushHands
<1> HIDE DEF w, z, new
<1>8. q \in SimState /\ q.recorder = z /\ q.buffer = y.buffer /\ q.sentBlobs = y.sentBlobs
  <2>1. z \in RecorderState
    BY <1>7 DEF FlushedTo, Settled
  <2>2. q = [y EXCEPT !.recorder = z]
    <3>1. x = [y EXCEPT !.recorder = w]
      BY <1>4 DEF Gathers, SimState
    <3> QED BY <3>1 DEF z, SimState
  <2> QED BY <2>1, <2>2 DEF SimState
<1>9. SimOK(q) /\ q.recorder.header
  BY <1>1, <1>5, <1>7, <1>8 DEF SimOK, FlushedTo, UpTo
<1>10. Sends(s.recorder, z, new, items, w.sent)
  <2> DEFINE batch == Batch(g)
             u == [throughSeq |-> g.lastThroughSeq, records |-> Len(g.held), bytes |-> g.heldBytes]
  <2>1. batch \in BatchEntry /\ batch.records = g.held /\ batch.throughSeq = g.lastThroughSeq /\ batch.tick = g.tick
    BY <1>5, BatchType DEF Batch
  <2>2. u \in Unsaved /\ u.throughSeq = g.lastThroughSeq /\ u.records = Len(g.held)
    BY <1>5 DEF Unsaved, RecorderState
  <2>3. z.lastThroughSeq = g.lastThroughSeq /\ z.tick = g.tick
    BY <1>7 DEF FlushedTo
  <2>4. CASE /\ items = <<>> /\ g.held = <<>> /\ w.sent = <<>>
             /\ g.inFlight = <<>> /\ z.inFlight = <<>>
             /\ z.persistedAt.throughSeq = g.persistedAt.throughSeq
             /\ z.persistedAt.tick \in {g.persistedAt.tick, g.tick}
             /\ g.persistedAt = NoHead => z.persistedAt = NoHead
    <3>1. new = {}
      BY <1>6, <2>4 DEF ToSet
    <3> QED BY <1>5, <2>3, <2>4, <3>1 DEF Sends
  <2>5. CASE /\ w.sent = Append(items, batch)
             /\ z.inFlight = Append(g.inFlight, u)
             /\ z.persistedAt = g.persistedAt
    <3> HIDE DEF batch, u
    <3> QED BY <1>5, <1>6, <2>1, <2>2, <2>3, <2>5 DEF Sends
  <2> HIDE DEF batch, u
  <2> QED BY <1>7, <2>4, <2>5 DEF FlushedTo, batch, u
<1>11. q.recorder.tick = tick
  BY <1>5, <1>7, <1>8 DEF FlushedTo
<1> QED BY <1>4, <1>8, <1>9, <1>10, <1>11 DEF Hands, From, Blobs, new

\* Between two events nothing waits to be gathered.
LEMMA NothingNew ==
  ASSUME NEW s, SimOK(s)
  PROVE  /\ Grown(s.buffer, s.buffer)
         /\ NewerThan(s.buffer, s.buffer.seq) = {}
         /\ s.recorder.tick \in Nat /\ s.buffer.seq \in Nat
<1>1. s \in SimState /\ BufferOK(s.buffer) /\ s.recorder \in RecorderState
  BY DEF SimOK, SimState
<1>2. s.recorder.tick \in Nat
  BY <1>1 DEF RecorderState
<1>3. s.buffer.seq \in Nat /\ \A e \in s.buffer.emitted : e.seq \in Nat /\ e.seq < s.buffer.seq
  BY <1>1 DEF BufferOK, Buffer, KeepsEmitted, TraceRecord
<1>4. Grown(s.buffer, s.buffer)
  BY <1>1, <1>3 DEF Grown
<1> QED BY <1>2, <1>3, <1>4 DEF NewerThan

\* A pause hands over what is held, if the header is stored.
LEMMA PausingHands ==
  ASSUME NEW s, SimOK(s), NEW x, x = Pausing(s), NEW q, q = [x EXCEPT !.recorder = Send(@)]
  PROVE  \/ s.recorder.header /\ Hands(s, q, x.recorder.sent)
         \/ ~s.recorder.header /\ Rests(s, q) /\ x.recorder.sent = <<>>
<1> DEFINE r == s.recorder
           tick == r.tick
           b == s.buffer
<1>1. /\ s \in SimState /\ r \in RecorderState /\ BufferOK(b) /\ UpTo(r, b) /\ Settled(r)
      /\ tick \in Nat /\ Grown(b, b) /\ NewerThan(b, b.seq) = {} /\ b.seq \in Nat
  BY NothingNew DEF SimOK, SimState
<1>2. x = Gathers(s, tick)
  BY DEF Pausing
<1>3. CASE r.header
  <2> DEFINE items == <<>>
  <2>1. items \in Seq(Item) /\ r.itemsSent = Len(items) /\ r.sent = items /\ r.held = <<>> /\ r.outbox = <<>>
    BY <1>1, <1>3 DEF Settled
  <2>2. Accounts(items, tick, b, s.sentBlobs, b.seq, s.sentBlobs)
    BY <1>1 DEF Accounts, NewerThan
  <2> HIDE DEF items
  <2>3. tick >= tick /\ (items # <<>> \/ NewerThan(b, b.seq) # {} => tick > tick)
    BY <1>1 DEF items
  <2>4. Hands(s, q, x.recorder.sent)
    BY <1>1, <1>2, <1>3, <2>1, <2>2, <2>3, CollectedHands
  <2> QED BY <1>3, <2>4
<1>4. CASE ~r.header
  <2> DEFINE g == Gathered(r, b, tick)
             w == WaitingUpdated(g)
             none == <<>>
             z == [w EXCEPT !.sent = none]
  <2>1. GatheredFrom(g, r, b, tick)
    BY <1>1, GatheredFacts
  <2>2. x.recorder = w /\ x = [s EXCEPT !.recorder = w]
    <3>1. x = [s EXCEPT !.recorder = Collected(r, b, tick)]
      BY <1>1, <1>2 DEF Gathers, SimState
    <3>2. Collected(r, b, tick) = w
      BY <1>4, <2>1 DEF Collected, GatheredFrom
    <3> HIDE DEF w
    <3> QED BY <1>1, <3>1, <3>2 DEF SimState
  <2> HIDE DEF g
  <2>3. PICK k \in Seq(Keepers) : g.held = r.held \o k /\ Len(k) = Cardinality(NewerThan(b, r.cursor))
    BY <2>1 DEF GatheredFrom
  <2>4. Len(k) = 0
    <3>1. NewerThan(b, r.cursor) = {}
      BY <1>1 DEF UpTo
    <3> QED BY <2>3, <3>1, FS_EmptySet
  <2>5. g.held = r.held
    <3>1. k = <<>>
      BY <2>4
    <3>2. r.held \in Seq(TraceRecord)
      BY <1>1 DEF RecorderState
    <3> QED BY <2>3, <3>1, <3>2
  <2>6. Alike(g, r)
    BY <1>1, <2>1, <2>5 DEF GatheredFrom, Alike, UpTo
  <2>7. Alike(w, g)
    BY <2>1, WaitingFacts DEF GatheredFrom
  <2> HIDE DEF w
  <2>8. Alike(w, r) /\ w.sent = <<>>
    BY <1>1, <2>6, <2>7 DEF Alike, Settled
  <2>9. q = [s EXCEPT !.recorder = z]
    <3>1. Send(w) = z
      BY DEF Send
    <3> HIDE DEF z
    <3> QED BY <1>1, <2>2, <3>1 DEF SimState
  <2>10. Alike(z, r)
    <3>1. none \in Seq(Handed)
      OBVIOUS
    <3>2. none = r.sent
      BY <1>1 DEF Settled
    <3> HIDE DEF none
    <3>3. /\ z \in RecorderState /\ z.sent = none
          /\ z.cursor = w.cursor /\ z.held = w.held /\ z.outbox = w.outbox /\ z.itemsSent = w.itemsSent
          /\ z.header = w.header /\ z.inFlight = w.inFlight /\ z.lastThroughSeq = w.lastThroughSeq
          /\ z.tick = w.tick /\ z.persistedAt = w.persistedAt
      BY <2>8, <3>1 DEF Alike, RecorderState
    <3> HIDE DEF z
    <3> QED BY <2>8, <3>2, <3>3 DEF Alike
  <2> HIDE DEF z
  <2>11. z \in RecorderState
    BY <2>10 DEF Alike
  <2>12. q \in SimState /\ q.buffer = b /\ q.section = s.section /\ q.sentBlobs = s.sentBlobs /\ q.recorder = z
    BY <1>1, <2>9, <2>11 DEF SimState
  <2>13. Rests(s, q)
    BY <2>10, <2>12 DEF Rests
  <2> QED BY <1>4, <2>2, <2>8, <2>13
<1> QED BY <1>3, <1>4

\* A snapshot, of the run's own section.
LEMMA SnapshotFacts ==
  ASSUME NEW s \in SimState, NEW tick \in Nat
  PROVE  /\ Snapshot(s, tick) \in Item /\ IsSnapshot(Snapshot(s, tick))
         /\ Snapshot(s, tick).tick = tick /\ Snapshot(s, tick).section = s.section
         /\ Snapshot(s, tick).carries <=> s.section \notin s.sentBlobs
         /\ Metrics(tick) \in Item /\ ~IsSnapshot(Metrics(tick)) /\ Metrics(tick).tick = tick
<1> DEFINE x == s.section
           c == s.section \notin s.sentBlobs
           i == [op |-> "item", by |-> "recorder", kind |-> "snapshot", tick |-> tick, section |-> x, carries |-> c]
           m == [op |-> "item", by |-> "recorder", kind |-> "metrics", tick |-> tick, section |-> 0, carries |-> FALSE]
<1>1. x \in Int /\ c \in BOOLEAN /\ Snapshot(s, tick) = i /\ Metrics(tick) = m /\ tick \in Int
  BY DEF SimState, Snapshot, Metrics
<1> HIDE DEF x, c
<1>2. i \in Item /\ IsSnapshot(i) /\ i.tick = tick /\ i.section = x
  BY <1>1 DEF Item, IsSnapshot
<1>3. i.carries <=> c
  OBVIOUS
<1>4. m \in Item /\ ~IsSnapshot(m) /\ m.tick = tick
  BY <1>1 DEF Item, IsSnapshot
<1> HIDE DEF i, m
<1> QED BY <1>1, <1>2, <1>3, <1>4 DEF x, c

\* A snapshot is its record, its container, and its section, sent once.
LEMMA TakenFacts ==
  ASSUME NEW s \in SimState, BufferOK(s.buffer), NEW tick \in Nat
  PROVE  /\ SnapshotTaken(s, tick) \in SimState
         /\ SnapshotTaken(s, tick).buffer = Pushed(s.buffer, TRUE, tick)
         /\ SnapshotTaken(s, tick).recorder = Enqueued(s.recorder, Snapshot(s, tick))
         /\ SnapshotTaken(s, tick).sentBlobs = s.sentBlobs \cup {s.section}
         /\ SnapshotTaken(s, tick).section = s.section
<1> DEFINE b == Pushed(s.buffer, TRUE, tick)
           r == Enqueued(s.recorder, Snapshot(s, tick))
           x == s.sentBlobs \cup {s.section}
<1>1. b \in Buffer
  <2>1. tick \in Nat \cup {NoSnapshot} /\ TRUE \in BOOLEAN
    OBVIOUS
  <2>2. Grown(s.buffer, b)
    BY <2>1, PushedKeeps
  <2> QED BY <2>2 DEF Grown, BufferOK
<1>2. r \in RecorderState
  BY SnapshotFacts, EnqueuedFacts DEF SimState
<1>3. x \in SUBSET Int
  BY DEF SimState
<1>4. SnapshotTaken(s, tick) = [s EXCEPT !.buffer = b, !.recorder = r, !.sentBlobs = x]
  BY DEF SnapshotTaken, SectionsSent
<1> HIDE DEF b, r, x
<1>5. /\ SnapshotTaken(s, tick) \in SimState
      /\ SnapshotTaken(s, tick).buffer = b /\ SnapshotTaken(s, tick).recorder = r
      /\ SnapshotTaken(s, tick).sentBlobs = x /\ SnapshotTaken(s, tick).section = s.section
  BY <1>1, <1>2, <1>3, <1>4 DEF SimState
<1> QED BY <1>5 DEF b, r, x

\* A tick in the making: y is s after records, and items that are on their way.
Loaded(y, s, items, tick) ==
  /\ y \in SimState /\ items \in Seq(Item)
  /\ Grown(s.buffer, y.buffer) /\ UpTo(y.recorder, s.buffer)
  /\ y.recorder.header /\ y.recorder.held = <<>> /\ y.recorder.outbox = <<>>
  /\ y.recorder.itemsSent = Len(items) /\ y.recorder.sent = items
  /\ y.recorder.inFlight = s.recorder.inFlight /\ y.recorder.persistedAt = s.recorder.persistedAt
  /\ Accounts(items, tick, y.buffer, y.sentBlobs, s.buffer.seq, s.sentBlobs)

\* A tick without a snapshot leaves no item.
LEMMA WorldLoaded ==
  ASSUME NEW s, SimOK(s), s.recorder.header, NEW b, Grown(s.buffer, b), Plainly(s.buffer, b), NEW tick \in Nat,
         NEW y \in SimState, y.buffer = b, y.recorder = s.recorder, y.sentBlobs = s.sentBlobs
  PROVE  Loaded(y, s, <<>>, tick)
<1> DEFINE items == <<>>
<1>4. items \in Seq(Item) /\ Len(items) = 0 /\ DOMAIN items = {}
  OBVIOUS
<1>5. \A e \in s.buffer.emitted : e.seq < s.buffer.seq /\ e.seq \in Nat /\ s.buffer.seq \in Nat
  BY DEF SimOK, BufferOK, Buffer, KeepsEmitted, TraceRecord
<1>6. Accounts(items, tick, b, s.sentBlobs, s.buffer.seq, s.sentBlobs)
  <2>1. ASSUME NEW e \in b.emitted, e.seq >= s.buffer.seq PROVE e.refers = NoSnapshot
    BY <1>5, <2>1 DEF Plainly
  <2> HIDE DEF items
  <2> QED BY <1>4, <2>1 DEF Accounts
<1>7. Loaded(y, s, items, tick)
  BY <1>4, <1>6 DEF Loaded, SimOK, Settled
<1> QED BY <1>7

\* A snapshot leaves one, with the sections never sent before.
LEMMA SnapshotLoaded ==
  ASSUME NEW s, SimOK(s), NEW tick \in Nat, NEW y, Loaded(y, s, <<>>, tick), Plainly(s.buffer, y.buffer),
         y.sentBlobs = s.sentBlobs
  PROVE  Loaded(SnapshotTaken(y, tick), s, <<Snapshot(y, tick)>>, tick)
<1> DEFINE z == SnapshotTaken(y, tick)
           item == Snapshot(y, tick)
           items == <<item>>
           r == y.recorder
           b == Pushed(y.buffer, TRUE, tick)
<1>1. y \in SimState /\ r \in RecorderState /\ Grown(s.buffer, y.buffer) /\ BufferOK(s.buffer) /\ BufferOK(y.buffer)
  BY DEF Loaded, SimState, SimOK, Grown
<1>2. /\ item \in Item /\ IsSnapshot(item) /\ item.tick = tick /\ item.section = y.section
      /\ item.carries <=> y.section \notin y.sentBlobs
  BY <1>1, SnapshotFacts
<1>3. /\ z \in SimState /\ z.buffer = b /\ z.recorder = Enqueued(r, item) /\ z.sentBlobs = y.sentBlobs \cup {y.section}
  BY <1>1, TakenFacts
<1>4. /\ Grown(y.buffer, b)
      /\ \A e \in b.emitted : e \in y.buffer.emitted \/ (e.refers = tick /\ e.seq = y.buffer.seq)
      /\ \E e \in b.emitted : e.seq = y.buffer.seq /\ e.refers = tick
  <2>1. tick \in Nat \cup {NoSnapshot} /\ TRUE \in BOOLEAN
    OBVIOUS
  <2> QED BY <1>1, <2>1, PushedKeeps, ZenonT(30)
<1>5. /\ Enqueued(r, item).cursor = r.cursor /\ Enqueued(r, item).lastThroughSeq = r.lastThroughSeq
      /\ Enqueued(r, item).held = r.held /\ Enqueued(r, item).header = r.header
      /\ Enqueued(r, item).inFlight = r.inFlight
      /\ Enqueued(r, item).persistedAt = r.persistedAt
      /\ r.header => /\ Enqueued(r, item).itemsSent = r.itemsSent + 1
                     /\ Enqueued(r, item).sent = Append(r.sent, item)
                     /\ Enqueued(r, item).outbox = r.outbox
  BY <1>1, <1>2, EnqueuedFacts
<1> HIDE DEF z, item, b
<1>6. /\ items \in Seq(Item) /\ Len(items) = 1 /\ DOMAIN items = {1} /\ items[1] = item
      /\ Append(<<>>, item) = items
  BY <1>2
<1>7. Grown(s.buffer, b)
  BY <1>1, <1>4, GrownOn
<1>8. s.buffer.seq \in Nat /\ y.buffer.seq \in Nat /\ y.buffer.seq >= s.buffer.seq
      /\ \A e \in s.buffer.emitted : e.seq < s.buffer.seq /\ e.seq \in Nat
  BY <1>1 DEF Grown, BufferOK, Buffer, KeepsEmitted, TraceRecord
<1> HIDE DEF items
<1>9. Accounts(items, tick, b, z.sentBlobs, s.buffer.seq, s.sentBlobs)
  <2>1. ASSUME NEW e \in b.emitted, e.seq >= s.buffer.seq, e.refers # NoSnapshot PROVE e.refers = tick
    BY <1>4, <1>8, <2>1 DEF Plainly
  <2>2. item.carries \/ item.section \in s.sentBlobs
    BY <1>2
  <2>3. \E e \in b.emitted : e.seq >= s.buffer.seq /\ e.refers = tick
    BY <1>4, <1>8
  <2>4. \A x \in z.sentBlobs : x \in s.sentBlobs \/ x = item.section
    BY <1>2, <1>3
  <2>5. s.sentBlobs \subseteq z.sentBlobs
    BY <1>3
  <2> QED BY <1>2, <1>6, <2>1, <2>2, <2>3, <2>4, <2>5 DEF Accounts
<1>10. Loaded(z, s, items, tick)
  BY <1>3, <1>5, <1>6, <1>7, <1>9 DEF Loaded, UpTo
<1> QED BY <1>10 DEF z, items, item

\* Metrics leave one more.
LEMMA MetricsLoaded ==
  ASSUME NEW s, NEW tick \in Nat, NEW items, NEW y, Loaded(y, s, items, tick), NEW z,
         z = [y EXCEPT !.recorder = Enqueued(@, Metrics(tick))]
  PROVE  Loaded(z, s, Append(items, Metrics(tick)), tick)
<1> DEFINE m == Metrics(tick)
           r == y.recorder
           q == Enqueued(r, m)
           more == Append(items, m)
<1>1. y \in SimState /\ r \in RecorderState /\ items \in Seq(Item)
  BY DEF Loaded, SimState
<1>2. m \in Item /\ ~IsSnapshot(m) /\ m.tick = tick
  BY <1>1, SnapshotFacts
<1>3. /\ q \in RecorderState /\ q.cursor = r.cursor /\ q.lastThroughSeq = r.lastThroughSeq
      /\ q.held = r.held /\ q.header = r.header
      /\ q.inFlight = r.inFlight /\ q.persistedAt = r.persistedAt
      /\ r.header => q.itemsSent = r.itemsSent + 1 /\ q.sent = Append(r.sent, m) /\ q.outbox = r.outbox
  BY <1>1, <1>2, EnqueuedFacts
<1>4. z = [y EXCEPT !.recorder = q]
  BY <1>1 DEF SimState
<1> HIDE DEF m, q
<1>5. /\ more \in Seq(Item) /\ Len(more) = Len(items) + 1 /\ DOMAIN more = 1..Len(more)
      /\ DOMAIN items = 1..Len(items) /\ Len(items) \in Nat /\ more[Len(items) + 1] = m
      /\ \A i \in 1..Len(items) : more[i] = items[i]
  BY <1>1, <1>2
<1>6. z \in SimState /\ z.recorder = q /\ z.buffer = y.buffer /\ z.sentBlobs = y.sentBlobs
  BY <1>1, <1>3, <1>4 DEF SimState
<1>7. \A i \in DOMAIN more : i \in DOMAIN items \/ i = Len(items) + 1
  BY <1>5
<1>8. \A i \in DOMAIN items : i \in DOMAIN more /\ more[i] = items[i]
  BY <1>5
<1> HIDE DEF more
<1>9. Accounts(more, tick, y.buffer, y.sentBlobs, s.buffer.seq, s.sentBlobs)
  <2>1. Accounts(items, tick, y.buffer, y.sentBlobs, s.buffer.seq, s.sentBlobs)
    BY DEF Loaded
  <2>2. \A i \in DOMAIN more : IsSnapshot(more[i]) => i \in DOMAIN items
    BY <1>2, <1>5, <1>7
  <2>3. \A i \in DOMAIN more : more[i].tick = tick
    BY <1>2, <1>5, <1>7, <1>8, <2>1 DEF Accounts
  <2>4. \A i \in DOMAIN more : IsSnapshot(more[i]) =>
         /\ more[i].carries \/ more[i].section \in s.sentBlobs
         /\ \E e \in y.buffer.emitted : e.seq >= s.buffer.seq /\ e.refers = tick
    BY <1>8, <2>1, <2>2 DEF Accounts
  <2>5. \A x \in y.sentBlobs : x \in s.sentBlobs \/ \E i \in DOMAIN more : IsSnapshot(more[i]) /\ more[i].section = x
    BY <1>8, <2>1 DEF Accounts
  <2>6. \A e \in y.buffer.emitted : e.seq >= s.buffer.seq /\ e.refers # NoSnapshot =>
         e.refers = tick /\ \E i \in DOMAIN more : IsSnapshot(more[i])
    BY <1>8, <2>1 DEF Accounts
  <2> QED BY <2>1, <2>3, <2>4, <2>5, <2>6 DEF Accounts
<1>10. Loaded(z, s, more, tick)
  <2>1. /\ Grown(s.buffer, y.buffer) /\ UpTo(r, s.buffer)
        /\ r.header /\ r.held = <<>> /\ r.outbox = <<>>
        /\ r.itemsSent = Len(items) /\ r.sent = items
        /\ r.inFlight = s.recorder.inFlight /\ r.persistedAt = s.recorder.persistedAt
    BY DEF Loaded
  <2>2. q.itemsSent = Len(more) /\ q.sent = more
    BY <1>3, <1>5, <2>1 DEF more
  <2> QED BY <1>3, <1>5, <1>6, <1>9, <2>1, <2>2 DEF Loaded, UpTo
<1> QED BY <1>10 DEF more, m

\* A tick hands over its items and the batch of its records.
LEMMA TickHands ==
  ASSUME NEW s, SimOK(s), s.recorder.header, NEW t \in Ticks, NEW tick, tick = s.recorder.tick + 1,
         NEW x, x = Gathers(Ticked(s, t, tick), tick), NEW q, q = [x EXCEPT !.recorder = Send(@)]
  PROVE  Hands(s, q, x.recorder.sent)
<1> DEFINE section == IF t.changes THEN s.section + 1 ELSE s.section
           b == Emitted(s.buffer, t.emits)
           world == [s EXCEPT !.buffer = b, !.section = section]
           snap == IF t.snapshot THEN SnapshotTaken(world, tick) ELSE world
           y == IF t.metrics THEN [snap EXCEPT !.recorder = Enqueued(@, Metrics(tick))] ELSE snap
<1>1. s.recorder.tick \in Nat /\ tick \in Nat /\ tick > s.recorder.tick /\ s \in SimState
  BY NothingNew DEF SimOK
<1>2. t.emits \in Seq(BOOLEAN)
  BY RecordingAssumption
<1>3. section \in Int
  BY <1>1 DEF SimState
<1>4. Ticked(s, t, tick) = y
  BY DEF Ticked
<1>0. Grown(s.buffer, b) /\ Plainly(s.buffer, b) /\ b \in Buffer
  <2>1. Grown(s.buffer, b) /\ Plainly(s.buffer, b)
    BY <1>2, EmittedKeeps DEF SimOK
  <2> QED BY <2>1 DEF Grown, BufferOK
<1> HIDE DEF section, b
<1>10. /\ world \in SimState /\ world.buffer = b /\ world.recorder = s.recorder
       /\ world.sentBlobs = s.sentBlobs
  BY <1>0, <1>1, <1>3 DEF SimState
<1> HIDE DEF world
<1>5. Loaded(world, s, <<>>, tick) /\ world.sentBlobs = s.sentBlobs /\ Plainly(s.buffer, world.buffer)
  BY <1>0, <1>1, <1>10, WorldLoaded
<1>6. \E items \in Seq(Item) : Loaded(snap, s, items, tick)
  <2>1. CASE t.snapshot
    <3>1. Loaded(snap, s, <<Snapshot(world, tick)>>, tick)
      BY <1>1, <1>5, <2>1, SnapshotLoaded
    <3> QED BY <3>1 DEF Loaded
  <2>2. CASE ~t.snapshot
    BY <1>5, <2>2 DEF Loaded
  <2> QED BY <2>1, <2>2
<1> HIDE DEF snap
<1>7. PICK items \in Seq(Item) : Loaded(y, s, items, tick)
  <2>1. PICK items \in Seq(Item) : Loaded(snap, s, items, tick)
    BY <1>6
  <2>2. CASE t.metrics
    <3>1. Loaded(y, s, Append(items, Metrics(tick)), tick)
      BY <1>1, <2>1, <2>2, MetricsLoaded
    <3> QED BY <3>1 DEF Loaded
  <2>3. CASE ~t.metrics
    BY <2>1, <2>3
  <2> QED BY <2>2, <2>3
<1> HIDE DEF y
<1>8. /\ y \in SimState
      /\ Grown(s.buffer, y.buffer) /\ UpTo(y.recorder, s.buffer)
      /\ y.recorder.header /\ y.recorder.held = <<>> /\ y.recorder.outbox = <<>>
      /\ y.recorder.itemsSent = Len(items) /\ y.recorder.sent = items
      /\ y.recorder.inFlight = s.recorder.inFlight /\ y.recorder.persistedAt = s.recorder.persistedAt
      /\ Accounts(items, tick, y.buffer, y.sentBlobs, s.buffer.seq, s.sentBlobs)
  BY <1>7 DEF Loaded
<1>9. x = Gathers(y, tick) /\ tick >= s.recorder.tick
  BY <1>1, <1>4
<1> QED BY <1>1, <1>8, <1>9, CollectedHands

\* The header is stored: what was held for it is handed over.
LEMMA HeaderHands ==
  ASSUME NEW s, SimOK(s), ~s.recorder.header,
         NEW x, x = [s EXCEPT !.recorder = HeaderStored(@)], NEW q, q = [x EXCEPT !.recorder = Send(@)]
  PROVE  Hands(s, q, x.recorder.sent)
<1> DEFINE r == s.recorder
           b == s.buffer
           items == r.outbox
           yes == TRUE
           none == <<>>
           n == r.itemsSent + Len(items)
           out == r.sent \o items
           g == [r EXCEPT !.header = yes, !.outbox = none, !.itemsSent = n, !.sent = out]
           w == WaitingUpdated(Flushed(g))
           z == Send(w)
           new == NewerThan(b, 0)
<1>1. /\ s \in SimState /\ r \in RecorderState /\ BufferOK(b) /\ UpTo(r, b) /\ Settled(r) /\ BeforeHeader(s)
      /\ Grown(b, b) /\ b.seq \in Nat /\ r.tick \in Nat
  BY NothingNew DEF SimOK, SimState
<1>2. PICK item \in Item : /\ items = <<item>> /\ IsSnapshot(item) /\ item.tick = 0 /\ item.carries
                           /\ item.section = s.section
  BY <1>1 DEF BeforeHeader
<1>3. items \in Seq(Item) /\ Len(items) = 1 /\ DOMAIN items = {1} /\ items[1] = item /\ items # <<>>
  BY <1>2
<1>4. n = 1 /\ out = items /\ none \in Seq(Item) /\ yes \in BOOLEAN /\ items \in Seq(Handed)
  BY <1>1, <1>3 DEF Settled, Handed
<1>5. w = x.recorder
  BY <1>1 DEF HeaderStored, SimState
<1>6. new = b.emitted
  BY <1>1 DEF NewerThan, BufferOK, Buffer, TraceRecord
<1> HIDE DEF items, n, out, none, yes
<1>7. /\ g \in RecorderState /\ g.header = yes /\ g.outbox = none /\ g.itemsSent = n /\ g.sent = out
      /\ g.held = r.held /\ g.inFlight = r.inFlight /\ g.persistedAt = r.persistedAt
      /\ g.cursor = r.cursor /\ g.lastThroughSeq = r.lastThroughSeq /\ g.tick = r.tick
  BY <1>1, <1>4 DEF RecorderState
<1> HIDE DEF g
<1>8. FlushedTo(z, g, items, w.sent)
  BY <1>3, <1>4, <1>7, FlushHands DEF yes, none
<1> HIDE DEF w, z
<1>9. q \in SimState /\ q.recorder = z /\ q.buffer = b /\ q.sentBlobs = s.sentBlobs
  <2>1. z \in RecorderState
    BY <1>8 DEF FlushedTo, Settled
  <2>2. q = [s EXCEPT !.recorder = z]
    <3>1. x = [s EXCEPT !.recorder = w]
      BY <1>1 DEF w, g, yes, none, n, out, items, HeaderStored, SimState
    <3> QED BY <1>1, <3>1 DEF z, SimState
  <2> QED BY <1>1, <2>1, <2>2 DEF SimState
<1>10. SimOK(q) /\ q.recorder.header /\ q.recorder.tick = r.tick /\ r.tick = 0
  BY <1>1, <1>7, <1>8, <1>9 DEF SimOK, FlushedTo, UpTo, BeforeHeader
<1>11. Sends(r, z, new, items, w.sent)
  <2> DEFINE batch == Batch(g)
             u == [throughSeq |-> g.lastThroughSeq, records |-> Len(g.held), bytes |-> g.heldBytes]
  <2>1. batch \in BatchEntry /\ batch.records = g.held /\ batch.throughSeq = g.lastThroughSeq /\ batch.tick = g.tick
    BY <1>7, BatchType DEF Batch
  <2>2. u \in Unsaved /\ u.throughSeq = g.lastThroughSeq /\ u.records = Len(g.held)
    BY <1>7 DEF Unsaved, RecorderState
  <2>3. z.lastThroughSeq = g.lastThroughSeq /\ z.tick = g.tick
    BY <1>8 DEF FlushedTo
  <2>4. ToSet(g.held) = new /\ Len(g.held) = Cardinality(new)
    BY <1>1, <1>6, <1>7 DEF BeforeHeader
  <2>5. /\ w.sent = Append(items, batch)
        /\ z.inFlight = Append(g.inFlight, u)
        /\ z.persistedAt = g.persistedAt
    BY <1>3, <1>8 DEF FlushedTo
  <2> HIDE DEF batch, u, new
  <2> QED BY <1>7, <2>1, <2>2, <2>3, <2>4, <2>5 DEF Sends
<1>12. Accounts(items, 0, b, s.sentBlobs, 0, {})
  <2>1. s.sentBlobs = {s.section}
    BY <1>1 DEF BeforeHeader
  <2>2. \E e \in b.emitted : e.seq >= 0 /\ e.refers = 0
    BY <1>1, <1>6 DEF BeforeHeader, NewerThan
  <2>3. \A e \in b.emitted : e.refers # NoSnapshot => e.refers = 0
    BY <1>1 DEF BeforeHeader
  <2> QED BY <1>2, <1>3, <2>1, <2>2, <2>3 DEF Accounts
<1> QED BY <1>1, <1>3, <1>5, <1>9, <1>10, <1>11, <1>12 DEF Hands, From, Blobs, new

\* At the start, two records and a snapshot are held for the header.
LEMMA InitialSimOK ==
  SimOK(InitialSim) /\ ~InitialSim.recorder.header /\ InitialSim.buffer.persistedSeq = -1
<1> DEFINE a == NewBuffer
           first == Pushed(a, TRUE, NoSnapshot)
           new == [buffer |-> first, recorder |-> NewRecorder, section |-> 1, sentBlobs |-> {},
                   quotaPaused |-> FALSE]
           item == Snapshot(new, 0)
           y == SnapshotTaken(new, 0)
           b == Pushed(first, TRUE, 0)
           r == Enqueued(NewRecorder, item)
           g == Gathered(r, b, 0)
           w == WaitingUpdated(g)
<1>1. BufferOK(a) /\ a.seq = 0 /\ a.emitted = {} /\ a.persistedSeq = -1
  <2>1. a \in Buffer /\ Len(a.records) = 0 /\ a.seq = 0 /\ a.emitted = {} /\ a.persistedSeq = -1
    BY DEF NewBuffer, Buffer
  <2>2. Oldest(a) = 0
    BY <2>1 DEF Oldest
  <2> QED BY <2>1, <2>2 DEF BufferOK, InOrder, KeepsEmitted
<1>2. /\ Grown(a, first)
      /\ \A e \in first.emitted : e.refers = NoSnapshot
  <2>1. NoSnapshot \in Nat \cup {NoSnapshot} /\ TRUE \in BOOLEAN
    OBVIOUS
  <2> QED BY <1>1, <2>1, PushedKeeps
<1>3. BufferOK(first) /\ first \in Buffer
  BY <1>2 DEF Grown, BufferOK
<1>4. /\ Grown(first, b)
      /\ \A e \in b.emitted : e \in first.emitted \/ e.refers = 0
      /\ \E e \in b.emitted : e.refers = 0
  <2>1. 0 \in Nat \cup {NoSnapshot} /\ TRUE \in BOOLEAN
    OBVIOUS
  <2> QED BY <1>3, <2>1, PushedKeeps
<1> HIDE DEF a, first
<1>5. Grown(a, b) /\ BufferOK(b) /\ b \in Buffer
  <2>1. Grown(a, b)
    BY <1>1, <1>2, <1>4, GrownOn
  <2> QED BY <2>1 DEF Grown, BufferOK
<1>6. NewRecorder \in RecorderState
  BY DEF NewRecorder, RecorderState, NoHead, HeadRecord
<1>7. new \in SimState /\ new.buffer = first /\ new.section = 1 /\ new.sentBlobs = {} /\ new.recorder = NewRecorder
  BY <1>3, <1>6 DEF SimState
<1> HIDE DEF new
<1>8. item \in Item /\ IsSnapshot(item) /\ item.tick = 0 /\ item.section = 1 /\ item.carries
  BY <1>7, SnapshotFacts
<1>9. y \in SimState /\ y.buffer = b /\ y.recorder = r /\ y.sentBlobs = {1} /\ y.section = 1
  BY <1>3, <1>7, TakenFacts
<1> HIDE DEF item, y, b
<1>10. /\ r \in RecorderState /\ UpTo(r, a) /\ r.held = <<>> /\ ~r.header /\ r.inFlight = <<>>
       /\ r.persistedAt = NoHead /\ r.itemsSent = 0 /\ r.sent = <<>> /\ r.outbox = <<item>>
  <2>1. /\ NewRecorder.cursor = 0 /\ NewRecorder.lastThroughSeq = -1 /\ NewRecorder.held = <<>>
        /\ NewRecorder.header = FALSE /\ NewRecorder.inFlight = <<>>
        /\ NewRecorder.persistedAt = NoHead /\ NewRecorder.itemsSent = 0 /\ NewRecorder.sent = <<>>
        /\ NewRecorder.outbox = <<>>
    BY DEF NewRecorder
  <2>2. Append(<<>>, item) = <<item>>
    OBVIOUS
  <2> HIDE DEF r
  <2>3. /\ r \in RecorderState
        /\ r.cursor = 0 /\ r.lastThroughSeq = -1 /\ r.held = <<>>
        /\ r.header = FALSE /\ r.inFlight = <<>> /\ r.persistedAt = NoHead
        /\ r.itemsSent = 0 /\ r.sent = <<>> /\ r.outbox = <<item>>
    BY <1>6, <1>8, <2>1, <2>2, EnqueuedFacts DEF r
  <2> QED BY <1>1, <2>3 DEF UpTo
<1> HIDE DEF r
<1>11. GatheredFrom(g, r, b, 0)
  BY <1>1, <1>5, <1>10, GatheredFacts
<1> HIDE DEF g
<1>12. InitialSim = [y EXCEPT !.recorder = w]
  <2>1. InitialSim = Gathers(y, 0)
    BY DEF InitialSim, y, new, first, a
  <2>2. Collected(r, b, 0) = w
    BY <1>10, <1>11 DEF Collected, GatheredFrom, g
  <2> QED BY <1>9, <2>1, <2>2 DEF Gathers
<1>13. Alike(w, g)
  BY <1>11, WaitingFacts DEF GatheredFrom
<1> HIDE DEF w
<1> DEFINE s == InitialSim
<1>14. s \in SimState /\ s.buffer = b /\ s.recorder = w /\ s.sentBlobs = {1} /\ s.section = 1
  BY <1>9, <1>12, <1>13 DEF SimState, Alike
<1> HIDE DEF s
<1>15. /\ w \in RecorderState /\ w.cursor = b.seq /\ w.lastThroughSeq = b.seq - 1 /\ w.tick = 0
       /\ w.outbox = <<item>> /\ w.itemsSent = 0 /\ ~w.header /\ w.inFlight = <<>>
       /\ w.persistedAt = NoHead /\ w.sent = <<>> /\ w.held = g.held
  BY <1>10, <1>11, <1>13 DEF Alike, GatheredFrom
<1>16. ToSet(w.held) = b.emitted /\ Len(w.held) = Cardinality(b.emitted)
  <2>1. r.cursor = 0
    BY <1>1, <1>10 DEF UpTo
  <2>2. NewerThan(b, 0) = b.emitted
    BY <1>5 DEF NewerThan, Buffer, TraceRecord
  <2>3. PICK k \in Seq(Keepers) : g.held = r.held \o k /\ ToSet(k) = b.emitted /\ Len(k) = Cardinality(b.emitted)
    BY <1>11, <2>1, <2>2 DEF GatheredFrom
  <2>4. g.held = k
    BY <1>10, <2>3
  <2> QED BY <1>15, <2>3, <2>4
<1>17. BeforeHeader(s)
  BY <1>2, <1>4, <1>8, <1>14, <1>15, <1>16 DEF BeforeHeader
<1>18. SimOK(s) /\ ~s.recorder.header /\ s.buffer.persistedSeq = -1
  <2>1. b.persistedSeq = -1
    BY <1>1, <1>5 DEF Grown
  <2> QED BY <1>5, <1>14, <1>15, <1>17, <2>1 DEF SimOK, Settled, UpTo
<1> QED BY <1>18 DEF s

\* A head is taken: batches in flight are forgotten, from the front.
Acks(s, q, head) ==
  /\ SimOK(q)
  /\ q.buffer.seq = s.buffer.seq /\ q.buffer.emitted = s.buffer.emitted
  /\ \/ q.buffer.persistedSeq = s.buffer.persistedSeq
     \/ q.buffer.persistedSeq <= head.throughSeq
  /\ q.sentBlobs = s.sentBlobs
  /\ q.recorder.header = s.recorder.header /\ q.recorder.tick = s.recorder.tick
  /\ q.recorder.persistedAt = head
  /\ \E n \in 0..Len(s.recorder.inFlight) :
       /\ q.recorder.inFlight = SubSeq(s.recorder.inFlight, n + 1, Len(s.recorder.inFlight))
       /\ \A i \in 1..n : s.recorder.inFlight[i].throughSeq <= head.throughSeq
       /\ n < Len(s.recorder.inFlight) => s.recorder.inFlight[n + 1].throughSeq > head.throughSeq

\* A head takes from what is in flight the batches it covers, at the front.
LEMMA HeadFacts ==
  ASSUME NEW s, SimOK(s), s.recorder.header, NEW head \in HeadRecord, ~GoesBack(s.recorder, head),
         NEW x, x = HeadTaken(s, head), NEW q, q = [x EXCEPT !.recorder = Send(@)]
  PROVE  Acks(s, q, head) /\ x.recorder.sent = <<>>
<1> DEFINE r == s.recorder
           f == r.inFlight
           S == {i \in DOMAIN f : \A j \in 1..i : f[j].throughSeq <= head.throughSeq}
           n == Cardinality(S)
           rest == SubSeq(f, n + 1, Len(f))
           g == [r EXCEPT !.inFlight = rest, !.persistedAt = head]
           w == WaitingUpdated(g)
           none == <<>>
           z == [w EXCEPT !.sent = none]
           b == MarkedPersisted(s.buffer, head.throughSeq)
<1>1. /\ s \in SimState /\ r \in RecorderState /\ BufferOK(s.buffer) /\ UpTo(r, s.buffer) /\ Settled(r)
      /\ f \in Seq(Unsaved) /\ DOMAIN f = 1..Len(f) /\ Len(f) \in Nat /\ head.throughSeq \in Int
  BY DEF SimOK, SimState, RecorderState, HeadRecord
<1>2. n \in 0..Len(f) /\ S = 1..n
  <2>1. \A i \in S : \A j \in 1..i : j \in S
    BY <1>1
  <2>2. S \in SUBSET (1..Len(f))
    BY <1>1
  <2> HIDE DEF S
  <2> QED BY <1>1, <2>1, <2>2, InitialSegment
<1>3. \A i \in 1..n : f[i].throughSeq <= head.throughSeq
  BY <1>2
<1>4. n < Len(f) => f[n + 1].throughSeq > head.throughSeq
  <2> SUFFICES ASSUME n < Len(f), ~(f[n + 1].throughSeq > head.throughSeq) PROVE FALSE
    OBVIOUS
  <2> HIDE DEF n
  <2>0. n \in Nat /\ n + 1 \in 1..Len(f)
    BY <1>1, <1>2
  <2>1. f[n + 1].throughSeq \in Int
    <3> DEFINE m == n + 1
    <3>1. m \in 1..Len(f)
      BY <2>0
    <3> HIDE DEF m
    <3>2. f[m] \in Unsaved
      BY <1>1, <3>1
    <3> QED BY <3>2 DEF Unsaved, m
  <2>2. \A j \in 1..(n + 1) : f[j].throughSeq <= head.throughSeq
    BY <1>1, <1>3, <2>0, <2>1
  <2>3. n + 1 \in S
    BY <1>1, <2>0, <2>2
  <2> HIDE DEF S
  <2> QED BY <1>2, <2>0, <2>3
<1>5. rest \in Seq(Unsaved)
  <2> HIDE DEF n
  <2> QED BY <1>1, <1>2, AfterFirst
<1>6. /\ BufferOK(b) /\ b.seq = s.buffer.seq /\ b.emitted = s.buffer.emitted
      /\ b.persistedSeq = s.buffer.persistedSeq \/ b.persistedSeq <= head.throughSeq
  BY <1>1, MarkedKeeps
<1>7. b \in Buffer
  BY <1>6 DEF BufferOK
<1>8. x = [s EXCEPT !.recorder = w, !.buffer = b]
  BY <1>1 DEF HeadTaken, Acknowledged, StillInFlight, SimState
<1> HIDE DEF S, n, rest, b
<1>9. /\ g \in RecorderState /\ g.inFlight = rest /\ g.persistedAt = head
      /\ g.cursor = r.cursor /\ g.held = r.held /\ g.outbox = r.outbox /\ g.itemsSent = r.itemsSent
      /\ g.header = r.header /\ g.lastThroughSeq = r.lastThroughSeq /\ g.tick = r.tick /\ g.sent = r.sent
  BY <1>1, <1>5 DEF RecorderState
<1> HIDE DEF g
<1>10. Alike(w, g)
  BY <1>9, WaitingFacts
<1> HIDE DEF w
<1>11. w \in RecorderState /\ x.recorder = w /\ x.buffer = b /\ x.recorder.sent = <<>>
  BY <1>1, <1>7, <1>8, <1>9, <1>10 DEF Alike, SimState, Settled
<1>12. none \in Seq(Handed)
  OBVIOUS
<1> HIDE DEF none
<1>13. /\ z \in RecorderState /\ z.sent = none /\ z.inFlight = rest /\ z.persistedAt = head
       /\ z.cursor = r.cursor /\ z.held = r.held /\ z.outbox = r.outbox /\ z.itemsSent = r.itemsSent
       /\ z.header = r.header /\ z.lastThroughSeq = r.lastThroughSeq /\ z.tick = r.tick
  <2>1. /\ z \in RecorderState /\ z.sent = none
        /\ z.cursor = w.cursor /\ z.held = w.held /\ z.outbox = w.outbox /\ z.itemsSent = w.itemsSent
        /\ z.header = w.header /\ z.inFlight = w.inFlight /\ z.lastThroughSeq = w.lastThroughSeq
        /\ z.tick = w.tick /\ z.persistedAt = w.persistedAt
    BY <1>11, <1>12 DEF RecorderState
  <2> HIDE DEF z
  <2> QED BY <1>9, <1>10, <2>1 DEF Alike
<1>14. q \in SimState /\ q.recorder = z /\ q.buffer = b /\ q.sentBlobs = s.sentBlobs
  <2>1. q = [s EXCEPT !.recorder = z, !.buffer = b]
    <3>1. Send(w) = z
      BY DEF Send, none
    <3> HIDE DEF z
    <3> QED BY <1>1, <1>8, <1>11, <3>1 DEF SimState
  <2> HIDE DEF z
  <2> QED BY <1>1, <1>7, <1>13, <2>1 DEF SimState
<1> HIDE DEF z
<1>15. SimOK(q)
  BY <1>1, <1>6, <1>13, <1>14 DEF SimOK, Settled, UpTo, none
<1> QED BY <1>2, <1>3, <1>4, <1>6, <1>11, <1>13, <1>14, <1>15 DEF Acks, rest

(***************************************************************************)
(* A transaction                                                           *)
(***************************************************************************)
Tx == [db : DbState, results : Seq(BOOLEAN)]

\* An entry is known by its fields.
LEMMA EntryKinds ==
  ASSUME NEW e \in Entry
  PROVE  /\ e.op = "item" => e \in Item
         /\ FromRecorder(e) <=> e \in Handed
         /\ IsBatch(e) <=> e \in BatchEntry
         /\ IsSnapshot(e) => e \in Item
         /\ e \in Handed => e \in Item \/ e \in BatchEntry
  BY DEF Entry, Handed, Item, BatchEntry, Request, FromRecorder, IsBatch, IsSnapshot

\* An entry that is stored leaves a batch's records, a snapshot and its section, or a sample.
StoredAs(d, c, e) ==
  /\ d \in DbState /\ d.runs = c.runs
  /\ IsBatch(e) => d.records = c.records \cup ToSet(e.records)
  /\ ~IsBatch(e) => d.records = c.records
  /\ IsSnapshot(e) => d.snapshots = c.snapshots \cup {e.tick} /\ d.sections = c.sections \cup {e.section}
  /\ ~IsSnapshot(e) => d.snapshots = c.snapshots /\ d.sections = c.sections

\* A snapshot is stored with its section.
LEMMA ItemStoredFacts ==
  ASSUME NEW d \in DbState, NEW e \in Item PROVE StoredAs(ItemStored(d, e), d, e)
<1> DEFINE sn == d.snapshots \cup {e.tick}
           se == d.sections \cup {e.section}
           sa == d.samples \cup {e.tick}
<1>1. sn \in SUBSET Int /\ se \in SUBSET Int /\ sa \in SUBSET Int /\ e.op = "item"
  BY DEF DbState, Item
<1>2. ~IsBatch(e)
  BY <1>1 DEF IsBatch
<1>3. CASE e.kind = "snapshot"
  <2>1. ItemStored(d, e) = [d EXCEPT !.snapshots = sn, !.sections = se]
    BY <1>3 DEF ItemStored
  <2> HIDE DEF sn, se
  <2>2. /\ ItemStored(d, e) \in DbState /\ ItemStored(d, e).runs = d.runs /\ ItemStored(d, e).records = d.records
        /\ ItemStored(d, e).snapshots = sn /\ ItemStored(d, e).sections = se
    BY <1>1, <2>1 DEF DbState
  <2> QED BY <1>1, <1>2, <1>3, <2>2 DEF StoredAs, IsSnapshot, sn, se
<1>4. CASE e.kind # "snapshot"
  <2>1. ItemStored(d, e) = [d EXCEPT !.samples = sa]
    BY <1>4 DEF ItemStored
  <2> HIDE DEF sa
  <2>2. /\ ItemStored(d, e) \in DbState /\ ItemStored(d, e).runs = d.runs /\ ItemStored(d, e).records = d.records
        /\ ItemStored(d, e).snapshots = d.snapshots /\ ItemStored(d, e).sections = d.sections
    BY <1>1, <2>1 DEF DbState
  <2> QED BY <1>2, <1>4, <2>2 DEF StoredAs, IsSnapshot
<1> QED BY <1>3, <1>4

\* The records of a batch of the run are stored.
LEMMA RecordsStoredFacts ==
  ASSUME NEW d \in DbState, NEW e \in Entry, e.op # "item" PROVE StoredAs(RecordsStored(d, e), d, e)
<1>1. ~IsSnapshot(e)
  BY DEF IsSnapshot
<1>2. CASE FromRecorder(e)
  <2>1. e \in BatchEntry /\ IsBatch(e)
    BY <1>2, EntryKinds DEF Item
  <2> DEFINE re == d.records \cup ToSet(e.records)
  <2>2. re \in SUBSET TraceRecord
    <3>1. e.records \in Seq(TraceRecord)
      BY <2>1 DEF BatchEntry
    <3>2. ToSet(e.records) \subseteq TraceRecord
      BY <3>1 DEF ToSet
    <3> QED BY <3>2 DEF DbState
  <2>3. RecordsStored(d, e) = [d EXCEPT !.records = re]
    BY <1>2 DEF RecordsStored
  <2> HIDE DEF re
  <2>4. /\ RecordsStored(d, e) \in DbState /\ RecordsStored(d, e).runs = d.runs /\ RecordsStored(d, e).records = re
        /\ RecordsStored(d, e).snapshots = d.snapshots /\ RecordsStored(d, e).sections = d.sections
    BY <2>2, <2>3 DEF DbState
  <2> QED BY <1>1, <2>1, <2>4 DEF StoredAs, re
<1>3. CASE ~FromRecorder(e)
  <2>1. RecordsStored(d, e) = d /\ ~IsBatch(e)
    BY <1>3 DEF RecordsStored, IsBatch
  <2> QED BY <1>1, <2>1 DEF StoredAs
<1> QED BY <1>2, <1>3

\* What Stored makes of a transaction.
Accepts(tx, e, fault) == IF e.op = "item" THEN fault # "items" /\ Storable(tx.db, e)
                         ELSE RunOf(e) \in tx.db.runs

\* An entry is stored as a whole or refused as a whole.
LEMMA StoredFacts ==
  ASSUME NEW tx \in Tx, NEW e \in Entry, NEW fault
  PROVE  /\ Stored(tx, e, fault) \in Tx
         /\ Stored(tx, e, fault).db.runs = tx.db.runs
         /\ Accepts(tx, e, fault) => /\ StoredAs(Stored(tx, e, fault).db, tx.db, e)
                                     /\ Stored(tx, e, fault).results = Append(tx.results, TRUE)
         /\ ~Accepts(tx, e, fault) => /\ Stored(tx, e, fault).db = tx.db
                                      /\ Stored(tx, e, fault).results = Append(tx.results, FALSE)
<1> DEFINE yes == Append(tx.results, TRUE)
           no == Append(tx.results, FALSE)
           d == IF e.op = "item" THEN ItemStored(tx.db, e) ELSE RecordsStored(tx.db, e)
<1>1. yes \in Seq(BOOLEAN) /\ no \in Seq(BOOLEAN) /\ tx.db \in DbState
  BY DEF Tx
<1>2. StoredAs(d, tx.db, e) /\ d \in DbState /\ d.runs = tx.db.runs
  <2>1. StoredAs(d, tx.db, e)
    <3>1. CASE e.op = "item"
      BY <1>1, <3>1, EntryKinds, ItemStoredFacts
    <3>2. CASE e.op # "item"
      BY <1>1, <3>2, RecordsStoredFacts
    <3> QED BY <3>1, <3>2
  <2> QED BY <2>1 DEF StoredAs
<1>3. CASE Accepts(tx, e, fault)
  <2>1. Stored(tx, e, fault) = [tx EXCEPT !.db = d, !.results = yes]
    BY <1>3 DEF Stored, Accepts, Tx
  <2> HIDE DEF d, yes
  <2>2. Stored(tx, e, fault) \in Tx /\ Stored(tx, e, fault).db = d /\ Stored(tx, e, fault).results = yes
    BY <1>1, <1>2, <2>1 DEF Tx
  <2> QED BY <1>2, <1>3, <2>2 DEF yes
<1>4. CASE ~Accepts(tx, e, fault)
  <2>1. Stored(tx, e, fault) = [tx EXCEPT !.results = no]
    BY <1>4 DEF Stored, Accepts, Tx
  <2> HIDE DEF no
  <2>2. Stored(tx, e, fault) \in Tx /\ Stored(tx, e, fault).db = tx.db /\ Stored(tx, e, fault).results = no
    BY <1>1, <2>1 DEF Tx
  <2> QED BY <1>4, <2>2 DEF no
<1> QED BY <1>3, <1>4

\* The transaction, entry by entry.
Steps(H, run, fault) ==
  /\ H[0] = [db |-> db, results |-> <<>>]
  /\ \A i \in 0..Len(run) : H[i] \in Tx
  /\ \A i \in 1..Len(run) : H[i] = Stored(H[i - 1], run[i], fault)

\* A transaction goes through its entries one by one.
LEMMA TransactionSteps ==
  ASSUME db \in DbState, NEW s \in Seq(Entry), NEW fault
  PROVE  \E H : Steps(H, s, fault) /\ Transaction(s, fault) = H[Len(s)]
<1> DEFINE n == Len(s)
           V == Tx
           v0 == [db |-> db, results |-> <<>>]
           F == [i \in 1..n |-> [v \in V |-> Stored(v, s[i], fault)]]
           Rec(it) == it = [t \in SUBSET DOMAIN s |->
                              IF t = {} THEN v0 ELSE Stored(it[t \ {Max(t)}], s[Max(t)], fault)]
           g == CHOOSE it : Rec(it)
<1>1. n \in Nat /\ DOMAIN s = 1..n
  OBVIOUS
<1>2. v0 \in V
  BY DEF Tx
<1>3. \A v \in V, i \in 1..n : Stored(v, s[i], fault) \in V
  <2> SUFFICES ASSUME NEW v \in V, NEW i \in 1..n PROVE Stored(v, s[i], fault) \in V
    OBVIOUS
  <2>1. s[i] \in Entry
    OBVIOUS
  <2> QED BY <2>1, StoredFacts
<1> HIDE DEF V, v0, n
<1>4. F \in [1..n -> [V -> V]] /\ \A i \in 1..n, v \in V : F[i][v] = Stored(v, s[i], fault)
  BY <1>3
<1> HIDE DEF F
<1>5. ASSUME NEW t \in SUBSET (1..n), t # {}
      PROVE  Max(t) \in 1..n /\ t \ {Max(t)} \in SUBSET (1..n)
  BY <1>1, <1>5, GreatestIndex
<1>6. PICK it \in [SUBSET (1..n) -> V] : SolvesFold(it, n, V, v0, F)
  BY <1>1, <1>2, <1>4, FoldExists
<1>7. Rec(it)
  <2>1. ASSUME NEW t \in SUBSET (1..n), t # {}
        PROVE  it[t] = Stored(it[t \ {Max(t)}], s[Max(t)], fault)
    BY <1>4, <1>5, <1>6, <2>1 DEF SolvesFold
  <2>2. it[{}] = v0
    BY <1>6 DEF SolvesFold
  <2> QED BY <1>1, <2>1, <2>2
<1>8. Rec(g)
  BY <1>7
<1>9. SolvesFold(g, n, V, v0, F)
  <2> HIDE DEF g
  <2>1. ASSUME NEW t \in SUBSET (1..n), t # {}, g[t \ {Max(t)}] \in V
        PROVE  g[t] = F[Max(t)][g[t \ {Max(t)}]]
    <3>1. Max(t) \in 1..n
      BY <1>5, <2>1
    <3>2. g[t] = Stored(g[t \ {Max(t)}], s[Max(t)], fault)
      BY <1>1, <1>8, <2>1
    <3> QED BY <1>4, <2>1, <3>1, <3>2
  <2>2. g[{}] = v0
    BY <1>1, <1>8
  <2> QED BY <2>1, <2>2 DEF SolvesFold
<1>10. Transaction(s, fault) = FoldValue(g, n)
  BY <1>1 DEF FoldValue, Transaction, FoldLeft, MapThenFoldSet, v0
<1> HIDE DEF g
<1>11. PICK H : StepsOf(H, n, V, v0, F) /\ H[n] = FoldValue(g, n)
  BY <1>1, <1>2, <1>4, <1>9, FoldSteps
<1>12. \A i \in 0..n : H[i] \in V
  BY <1>11 DEF StepsOf
<1>13. \A i \in 1..n : H[i] = Stored(H[i - 1], s[i], fault)
  <2> SUFFICES ASSUME NEW i \in 1..n PROVE H[i] = Stored(H[i - 1], s[i], fault)
    OBVIOUS
  <2>1. i - 1 \in 0..n
    BY <1>1
  <2> QED BY <1>4, <1>11, <1>12, <2>1 DEF StepsOf
<1>14. Steps(H, s, fault)
  BY <1>11, <1>12, <1>13 DEF Steps, StepsOf, V, v0, n
<1> QED BY <1>10, <1>11, <1>14 DEF n

\* Batches are stored exactly when their run is there; the runs stay as they are.
LEMMA BatchResults ==
  ASSUME db \in DbState, NEW s \in Seq(Entry), NEW fault, NEW tx, tx = Transaction(s, fault)
  PROVE  /\ tx \in Tx /\ Len(tx.results) = Len(s) /\ tx.db.runs = db.runs
         /\ \A i \in 1..Len(s) : IsBatch(s[i]) => (tx.results[i] <=> Live \in db.runs)
<1> DEFINE n == Len(s)
<1>1. PICK H : Steps(H, s, fault) /\ tx = H[n]
  BY TransactionSteps
<1> DEFINE P(i) == /\ H[i] \in Tx /\ Len(H[i].results) = i /\ H[i].db.runs = db.runs
                   /\ \A j \in 1..i : IsBatch(s[j]) => (H[i].results[j] <=> Live \in db.runs)
           T == {i \in 0..n : P(i)}
<1>2. n \in Nat
  OBVIOUS
<1>3. P(0)
  <2>1. H[0] = [db |-> db, results |-> <<>>] /\ H[0] \in Tx
    BY <1>1, <1>2 DEF Steps
  <2>2. H[0].db = db /\ Len(H[0].results) = 0
    BY <2>1
  <2> QED BY <2>1, <2>2
<1>4. ASSUME NEW i \in 0..n, P(i), i < n PROVE P(i + 1)
  <2> DEFINE k == i + 1
             e == s[k]
             tx1 == H[i]
             tx2 == H[k]
             ok == Accepts(tx1, e, fault)
  <2>1. k \in 1..n /\ k - 1 = i
    BY <1>2, <1>4
  <2>2. e \in Entry
    BY <2>1
  <2>3. tx2 = Stored(tx1, e, fault)
    <3> HIDE DEF k
    <3> QED BY <1>1, <2>1 DEF Steps
  <2>4. tx1 \in Tx /\ Len(tx1.results) = i /\ tx1.db.runs = db.runs
        /\ \A j \in 1..i : IsBatch(s[j]) => (tx1.results[j] <=> Live \in db.runs)
    BY <1>4
  <2>5. IsBatch(e) => (ok <=> Live \in db.runs)
    BY <2>2, <2>4, EntryKinds DEF Accepts, RunOf, IsBatch
  <2> HIDE DEF k, e, tx1, tx2, ok
  <2>6. /\ tx2 \in Tx /\ tx2.db.runs = db.runs
        /\ ok => tx2.results = Append(tx1.results, TRUE)
        /\ ~ok => tx2.results = Append(tx1.results, FALSE)
    BY <2>2, <2>3, <2>4, StoredFacts, ZenonT(30) DEF ok, StoredAs
  <2>7. /\ Len(tx2.results) = k
        /\ \A j \in 1..i : tx2.results[j] = tx1.results[j]
        /\ tx2.results[k] <=> ok
    <3>1. tx1.results \in Seq(BOOLEAN) /\ i \in Nat /\ k = i + 1
      BY <1>2, <2>4 DEF Tx, k
    <3>2. \A x \in BOOLEAN : /\ Len(Append(tx1.results, x)) = k
                             /\ \A j \in 1..i : Append(tx1.results, x)[j] = tx1.results[j]
                             /\ Append(tx1.results, x)[k] = x
      BY <2>4, <3>1, AppendedOne
    <3>3. CASE ok
      BY <2>6, <3>2, <3>3
    <3>4. CASE ~ok
      BY <2>6, <3>2, <3>4
    <3> QED BY <3>3, <3>4
  <2>8. \A j \in 1..k : IsBatch(s[j]) => (tx2.results[j] <=> Live \in db.runs)
    <3> SUFFICES ASSUME NEW j \in 1..k, IsBatch(s[j]) PROVE tx2.results[j] <=> Live \in db.runs
      OBVIOUS
    <3>1. CASE j = k
      BY <2>5, <2>7, <3>1 DEF e
    <3>2. CASE j # k
      <4>1. j \in 1..i
        BY <3>2 DEF k
      <4> QED BY <2>4, <2>7, <4>1
    <3> QED BY <3>1, <3>2
  <2> QED BY <2>6, <2>7, <2>8 DEF k, tx2
<1> HIDE DEF P
<1>5. 0..n \subseteq T
  <2>1. 0 \in T /\ \A i \in 0..n : i \in T /\ i < n => i + 1 \in T
    BY <1>2, <1>3, <1>4
  <2> HIDE DEF T, n
  <2> QED BY <1>2, <2>1, AllIndices
<1>6. P(n)
  BY <1>2, <1>5
<1> QED BY <1>1, <1>6 DEF P

(***************************************************************************)
(* The steps of the storage worker                                         *)
(***************************************************************************)
Worker(w) == w \in WorkerState(w.pending)

\* v has the queues of w.
Quiet(v, w) ==
  /\ Worker(v)
  /\ v.queue = w.queue /\ v.held = w.held /\ v.open = w.open /\ v.head = w.head
  /\ v.full = w.full \/ v.full
  /\ v.at \in {w.at, "idle"} \/ v.open

\* A call of drain() leaves the queues alone ...
LEMMA WokenFacts ==
  ASSUME NEW w, Worker(w) PROVE Quiet(Woken(w), w) /\ Woken(w).full = w.full
<1> DEFINE at == IF w.at = "idle" /\ w.open THEN "draining" ELSE w.at
<1>1. at \in {"idle", "draining", "serving"} /\ (at = w.at \/ w.open)
  BY DEF Worker, WorkerState
<1>2. Woken(w) = [w EXCEPT !.at = at]
  BY DEF Woken, Worker, WorkerState
<1> HIDE DEF at
<1> QED BY <1>1, <1>2 DEF Quiet, Worker, WorkerState

\* ... as do the timers, the end of a request and of a drain ...
LEMMA QuietSteps ==
  ASSUME TypeOK, Served \/ Stop \/ ScheduleFlush \/ FlushTimer \/ QuotaTimer,
         worker.open \/ worker.at = "idle"
  PROVE  Quiet(worker', worker) /\ worker'.full = worker.full /\ UNCHANGED <<db, toSim, answer, refused>>
<1>0. Worker(worker)
  BY DEF TypeOK, Worker
<1> DEFINE yes == TRUE
           no == FALSE
<1>1. yes \in BOOLEAN /\ no \in BOOLEAN
  OBVIOUS
<1>2. CASE Stop
  <2>1. worker' = [worker EXCEPT !.at = "idle"]
    BY <1>2 DEF Stop
  <2> QED BY <1>0, <1>2, <2>1 DEF Stop, Quiet, Worker, WorkerState
<1>3. CASE ScheduleFlush
  <2>1. worker' = [worker EXCEPT !.flushTimer = yes, !.at = "idle"]
    BY <1>3 DEF ScheduleFlush
  <2> HIDE DEF yes, no
  <2>2. Quiet(worker', worker) /\ worker'.full = worker.full
    BY <1>0, <1>1, <2>1 DEF Quiet, Worker, WorkerState
  <2> QED BY <1>3, <2>2 DEF ScheduleFlush
<1>4. CASE Served
  <2>1. worker' = [worker EXCEPT !.at = "draining"] /\ worker.at = "serving"
    BY <1>4 DEF Served
  <2>2. worker.open
    BY <2>1
  <2>3. Quiet(worker', worker) /\ worker'.full = worker.full
    BY <1>0, <2>1, <2>2 DEF Quiet, Worker, WorkerState
  <2> QED BY <1>4, <2>3 DEF Served
<1>5. CASE FlushTimer
  <2> DEFINE w == [worker EXCEPT !.flushTimer = no, !.flushDue = yes]
  <2>1. worker' = Woken(w)
    BY <1>5 DEF FlushTimer
  <2> HIDE DEF yes, no
  <2>2. Worker(w) /\ Quiet(w, worker) /\ w.full = worker.full
    BY <1>0, <1>1 DEF Quiet, Worker, WorkerState
  <2> HIDE DEF w
  <2>3. Quiet(Woken(w), w) /\ Woken(w).full = w.full
    BY <2>2, WokenFacts
  <2>4. Quiet(worker', worker) /\ worker'.full = worker.full
    BY <2>1, <2>2, <2>3 DEF Quiet
  <2> QED BY <1>5, <2>4 DEF FlushTimer
<1>6. CASE QuotaTimer
  <2>1. worker' = [worker EXCEPT !.measuring = yes]
    BY <1>6 DEF QuotaTimer
  <2> HIDE DEF yes, no
  <2>2. Quiet(worker', worker) /\ worker'.full = worker.full
    BY <1>0, <1>1, <2>1 DEF Quiet, Worker, WorkerState
  <2> QED BY <1>6, <2>2 DEF QuotaTimer
<1> QED BY <1>2, <1>3, <1>4, <1>5, <1>6

\* With the quota measured, either the queues stay, or what is held comes back first.
Returns(v, w) ==
  /\ Worker(v)
  /\ v.queue = HeldAgain(w) /\ v.held = <<>> /\ v.open = w.open /\ v.head = w.head /\ ~v.full
  /\ v.at = w.at \/ v.open

\* ... and what the browser measures, unless it gives back what was held.
LEMMA MeasuredSteps ==
  ASSUME TypeOK, Measured
  PROVE  /\ Quiet(worker', worker) \/ Returns(worker', worker)
         /\ toSim' = toSim \/ \E m \in Message : m.type = "quota" /\ toSim' = Append(toSim, m)
         /\ UNCHANGED <<db, answer, refused>>
<1>0. Worker(worker)
  BY DEF TypeOK, Worker
<1> DEFINE yes == TRUE
           no == FALSE
           none == <<>>
           w == [worker EXCEPT !.measuring = no]
           again == HeldAgain(worker)
<1>1. yes \in BOOLEAN /\ no \in BOOLEAN /\ none \in Seq(Handed)
  OBVIOUS
<1>2. again \in Seq(Entry)
  <2>1. worker.held \in Seq(Entry) /\ worker.queue \in Seq(Entry)
    BY <1>0 DEF Worker, WorkerState, Entry
  <2> QED BY <2>1 DEF HeldAgain
<1>3. [type |-> "quota", state |-> "paused"] \in Message /\ [type |-> "quota", state |-> "ok"] \in Message
  BY DEF Message
<1>4. \A state : [type |-> "quota", state |-> state].type = "quota"
  OBVIOUS
<1>5. UNCHANGED <<db, answer, refused>>
  BY DEF Measured
<1>6. PICK level \in Levels :
         \/ /\ NewlyFull(level)
            /\ worker' = [w EXCEPT !.full = yes, !.quotaTimer = yes]
            /\ toSim' = Append(toSim, [type |-> "quota", state |-> "paused"])
         \/ /\ NewlyRoomy(level)
            /\ worker' = Woken([w EXCEPT !.full = no, !.quotaTimer = no, !.queue = again, !.held = none])
            /\ toSim' = Append(toSim, [type |-> "quota", state |-> "ok"])
         \/ /\ ~NewlyFull(level) /\ ~NewlyRoomy(level)
            /\ worker' = w
            /\ UNCHANGED toSim
  BY DEF Measured
<1>7. CASE /\ NewlyFull(level)
           /\ worker' = [w EXCEPT !.full = yes, !.quotaTimer = yes]
           /\ toSim' = Append(toSim, [type |-> "quota", state |-> "paused"])
  <2>0. yes
    OBVIOUS
  <2> HIDE DEF yes, no
  <2>1. Quiet(worker', worker)
    BY <1>0, <1>1, <1>7, <2>0 DEF Quiet, Worker, WorkerState
  <2> QED BY <1>3, <1>4, <1>5, <1>7, <2>1
<1>8. CASE /\ NewlyRoomy(level)
           /\ worker' = Woken([w EXCEPT !.full = no, !.quotaTimer = no, !.queue = again, !.held = none])
           /\ toSim' = Append(toSim, [type |-> "quota", state |-> "ok"])
  <2> DEFINE u == [w EXCEPT !.full = no, !.quotaTimer = no, !.queue = again, !.held = none]
  <2>0. ~no
    OBVIOUS
  <2> HIDE DEF yes, no, none, again
  <2>1. /\ Worker(u) /\ u.queue = again /\ u.held = none /\ u.open = worker.open /\ u.head = worker.head
        /\ u.at = worker.at /\ u.full = no
    BY <1>0, <1>1, <1>2 DEF Worker, WorkerState
  <2> HIDE DEF u
  <2>2. Quiet(Woken(u), u) /\ Woken(u).full = u.full
    BY <2>1, WokenFacts
  <2>3. worker' = Woken(u)
    BY <1>8 DEF u
  <2>4. worker'.at = worker.at \/ worker'.open
    <3>1. worker'.at = (IF u.at = "idle" /\ u.open THEN "draining" ELSE u.at) /\ worker'.open = u.open
      BY <2>1, <2>2, <2>3 DEF Woken, Quiet, Worker, WorkerState
    <3> QED BY <2>1, <3>1
  <2>5. Returns(worker', worker)
    BY <2>0, <2>1, <2>2, <2>3, <2>4 DEF Returns, Quiet, again, none
  <2> QED BY <1>3, <1>4, <1>5, <1>8, <2>5
<1>9. CASE worker' = w /\ UNCHANGED toSim
  <2> HIDE DEF yes, no
  <2>1. Quiet(worker', worker)
    BY <1>0, <1>1, <1>9 DEF Quiet, Worker, WorkerState
  <2> QED BY <1>5, <1>9, <2>1
<1> QED BY <1>6, <1>7, <1>8, <1>9

\* Near the quota the first entry goes from the queue to what is held.
LEMMA HoldFacts ==
  ASSUME TypeOK, Hold
  PROVE  /\ Worker(worker') /\ worker.queue # <<>> /\ FromRecorder(Head(worker.queue)) /\ worker.full
         /\ worker'.queue = Tail(worker.queue) /\ worker'.held = Append(worker.held, Head(worker.queue))
         /\ worker'.open = worker.open /\ worker'.head = worker.head /\ worker'.full = worker.full
         /\ worker'.at = worker.at /\ worker.at = "draining"
         /\ UNCHANGED <<db, toSim, answer, refused>>
<1> DEFINE held == Append(worker.held, Head(worker.queue))
           queue == Tail(worker.queue)
           p == SizeOf(Tail(worker.queue))
<1>1. /\ Worker(worker) /\ worker.queue \in Seq(Entry) /\ worker.held \in Seq(Handed)
  BY DEF TypeOK, Worker, WorkerState
<1>2. worker.queue # <<>> /\ worker.at = "draining" /\ FromRecorder(Head(worker.queue)) /\ worker.full
  BY DEF Hold, Waiting, Draining, Holds
<1>3. Head(worker.queue) \in Handed
  <2>1. Head(worker.queue) \in Entry
    BY <1>1, <1>2
  <2> QED BY <1>2, <2>1, EntryKinds
<1>4. held \in Seq(Handed) /\ queue \in Seq(Entry)
  BY <1>1, <1>2, <1>3
<1>5. worker' = [worker EXCEPT !.held = held, !.queue = queue, !.pending = p]
  BY <1>1 DEF Hold, Worker, WorkerState
<1> HIDE DEF held, queue, p
<1>6. /\ Worker(worker') /\ worker'.queue = queue /\ worker'.held = held
      /\ worker'.open = worker.open /\ worker'.head = worker.head /\ worker'.full = worker.full
      /\ worker'.at = worker.at
  BY <1>1, <1>4, <1>5 DEF Worker, WorkerState
<1> QED BY <1>2, <1>6 DEF Hold, held, queue

\* A request of the main thread is served: the queue is shorter by it.
Serving(op) ==
  /\ Worker(worker') /\ worker.queue # <<>> /\ Head(worker.queue).op = op
  /\ worker'.queue = Tail(worker.queue) /\ worker'.held = worker.held
  /\ worker'.open = worker.open /\ worker'.head = worker.head /\ worker'.full = worker.full
  /\ worker.at = "draining"

\* runs.create stores the header and tells the recorder.
LEMMA CreateRunFacts ==
  ASSUME TypeOK, CreateRun
  PROVE  /\ Serving("create")
         /\ db' \in DbState /\ db'.records = db.records /\ db'.snapshots = db.snapshots /\ db'.sections = db.sections
         /\ db'.runs = db.runs \cup {Head(worker.queue).run} /\ Head(worker.queue).run \in Runs
         /\ toSim' = Append(toSim, [type |-> "header", run |-> Head(worker.queue).run])
         /\ [type |-> "header", run |-> Head(worker.queue).run] \in Message
         /\ UNCHANGED refused
<1> DEFINE run == Head(worker.queue).run
           queue == Tail(worker.queue)
           rec == {run}
           runs == db.runs \cup {run}
<1>1. /\ Worker(worker) /\ worker.queue \in Seq(Entry) /\ db \in DbState /\ worker.queue # <<>>
      /\ worker.at = "draining" /\ Head(worker.queue).op = "create"
  BY DEF TypeOK, Worker, WorkerState, CreateRun, Serves, Waiting, Draining
<1>2. run \in Runs /\ queue \in Seq(Entry)
  <2>1. Head(worker.queue) \in Entry
    BY <1>1
  <2>2. Head(worker.queue) \in Request
    BY <1>1, <2>1 DEF Entry, Handed, Item, BatchEntry
  <2> QED BY <1>1, <2>2 DEF Request
<1>3. worker' = [worker EXCEPT !.queue = queue, !.recorded = rec] /\ db' = [db EXCEPT !.runs = runs]
  BY <1>1 DEF CreateRun, Worker, WorkerState, DbState
<1>4. rec \in SUBSET Runs /\ runs \in SUBSET Runs
  BY <1>1, <1>2 DEF DbState
<1>5. [type |-> "header", run |-> run] \in Message
  BY <1>2 DEF Message
<1>6. toSim' = Append(toSim, [type |-> "header", run |-> run]) /\ UNCHANGED refused
  BY DEF CreateRun
<1> HIDE DEF run, queue, rec, runs
<1>7. /\ Worker(worker') /\ worker'.queue = queue /\ worker'.held = worker.held
      /\ worker'.open = worker.open /\ worker'.head = worker.head /\ worker'.full = worker.full
  BY <1>1, <1>2, <1>3, <1>4 DEF Worker, WorkerState
<1>8. /\ db' \in DbState /\ db'.records = db.records /\ db'.snapshots = db.snapshots /\ db'.sections = db.sections
      /\ db'.runs = runs
  BY <1>1, <1>3, <1>4 DEF DbState
<1> QED BY <1>1, <1>2, <1>5, <1>6, <1>7, <1>8 DEF Serving, run, queue, runs

\* runs.delete takes at most runs away.
LEMMA DeleteRunFacts ==
  ASSUME TypeOK, DeleteRun
  PROVE  Serving("delete") /\ db' \in DbState /\ db'.runs \subseteq db.runs /\ UNCHANGED <<toSim, refused>>
<1> DEFINE run == Head(worker.queue).run
           queue == Tail(worker.queue)
           m == worker.measuring \/ MayDelete(run)
           runs == db.runs \ {run}
           empty == [EmptyDb EXCEPT !.runs = runs]
           gone == [db EXCEPT !.runs = runs]
<1>1. /\ Worker(worker) /\ worker.queue \in Seq(Entry) /\ db \in DbState /\ worker.queue # <<>>
      /\ worker.at = "draining" /\ Head(worker.queue).op = "delete"
  BY DEF TypeOK, Worker, WorkerState, DeleteRun, Serves, Waiting, Draining
<1>2. queue \in Seq(Entry) /\ m \in BOOLEAN /\ runs \subseteq Runs /\ runs \subseteq db.runs
  BY <1>1 DEF DbState
<1>3. worker' = [worker EXCEPT !.queue = queue, !.measuring = m]
  BY <1>1 DEF DeleteRun, Worker, WorkerState
<1>4. db' = db \/ db' = empty \/ db' = gone
  BY DEF DeleteRun
<1> HIDE DEF queue, m, runs
<1>5. /\ Worker(worker') /\ worker'.queue = queue /\ worker'.held = worker.held
      /\ worker'.open = worker.open /\ worker'.head = worker.head /\ worker'.full = worker.full
  BY <1>1, <1>2, <1>3 DEF Worker, WorkerState
<1>6. empty \in DbState /\ empty.runs = runs
  BY <1>2 DEF EmptyDb, DbState
<1>7. gone \in DbState /\ gone.runs = runs
  BY <1>1, <1>2 DEF DbState
<1> HIDE DEF empty, gone
<1>8. db' \in DbState /\ db'.runs \subseteq db.runs
  BY <1>1, <1>2, <1>4, <1>6, <1>7
<1> QED BY <1>1, <1>5, <1>8 DEF Serving, queue, DeleteRun

\* admin.importDb leaves no run.
LEMMA ImportFacts ==
  ASSUME TypeOK, ImportDb
  PROVE  Serving("import") /\ db' \in DbState /\ db'.runs = {} /\ UNCHANGED <<toSim, refused>>
<1> DEFINE queue == Tail(worker.queue)
<1>1. /\ Worker(worker) /\ worker.queue \in Seq(Entry) /\ db \in DbState /\ worker.queue # <<>>
      /\ worker.at = "draining" /\ Head(worker.queue).op = "import"
  BY DEF TypeOK, Worker, WorkerState, ImportDb, Serves, Waiting, Draining
<1>2. queue \in Seq(Entry)
  BY <1>1
<1>3. worker' = [worker EXCEPT !.queue = queue] /\ db' = EmptyDb
  BY <1>1 DEF ImportDb, Worker, WorkerState
<1> HIDE DEF queue
<1>4. /\ Worker(worker') /\ worker'.queue = queue /\ worker'.held = worker.held
      /\ worker'.open = worker.open /\ worker'.head = worker.head /\ worker'.full = worker.full
  BY <1>1, <1>2, <1>3 DEF Worker, WorkerState
<1>5. db' \in DbState /\ db'.runs = {}
  BY <1>3 DEF EmptyDb, DbState
<1> QED BY <1>1, <1>4, <1>5 DEF Serving, queue, ImportDb

\* A request that awaits the browser changes nothing that is stored.
LEMMA SlowFacts ==
  ASSUME TypeOK, ServeSlowly
  PROVE  Serving("slow") /\ UNCHANGED <<db, toSim, answer, refused>>
<1> DEFINE queue == Tail(worker.queue)
<1>1. /\ Worker(worker) /\ worker.queue \in Seq(Entry) /\ worker.queue # <<>>
      /\ worker.at = "draining" /\ Head(worker.queue).op = "slow"
  BY DEF TypeOK, Worker, WorkerState, ServeSlowly, Serves, Waiting, Draining
<1>2. queue \in Seq(Entry)
  BY <1>1
<1>3. worker' = [worker EXCEPT !.queue = queue, !.at = "serving"]
  BY <1>1 DEF ServeSlowly, Worker, WorkerState
<1> HIDE DEF queue
<1>4. /\ Worker(worker') /\ worker'.queue = queue /\ worker'.held = worker.held
      /\ worker'.open = worker.open /\ worker'.head = worker.head /\ worker'.full = worker.full
  BY <1>1, <1>2, <1>3 DEF Worker, WorkerState
<1> QED BY <1>1, <1>4 DEF Serving, queue, ServeSlowly

\* Rejections say nothing of what was refused.
LEMMA RejectionsFacts ==
  ASSUME NEW n \in Nat, NEW S \in SUBSET (1..n)
  PROVE  Rejections(S) \in Seq([type : {"rejected"}])
<1>1. 1 \in Int /\ n \in Int /\ IsFiniteSet(1..n)
  BY FS_Interval
<1>2. IsFiniteSet(S)
  BY <1>1, FS_Subset
<1>3. Cardinality(S) \in Nat
  BY <1>2, FS_CardinalityType
<1> DEFINE m == Cardinality(S)
<1> HIDE DEF m
<1>4. m \in Nat /\ Rejections(S) = [i \in 1..m |-> Rejected]
  BY <1>3 DEF Rejections, m
<1>5. Rejected \in [type : {"rejected"}]
  BY DEF Rejected
<1> QED BY <1>4, <1>5

\* admin.close refuses what is behind it and ends the worker.
LEMMA CloseFacts ==
  ASSUME TypeOK, Close
  PROVE  /\ Worker(worker') /\ worker.queue # <<>> /\ Head(worker.queue).op = "close"
         /\ worker'.queue = <<>> /\ worker'.held = worker.held /\ ~worker'.open /\ worker'.at = "idle"
         /\ worker'.head = worker.head /\ worker'.full = worker.full
         /\ \E told \in Seq([type : {"rejected"}]) : toSim' = toSim \o told
         /\ refused' \subseteq Handed /\ UNCHANGED db
         /\ \A e \in refused' : e \in refused \/ \E i \in DOMAIN worker.queue : worker.queue[i] = e /\ FromRecorder(e)
<1> DEFINE behind == Tail(worker.queue)
           given == {i \in DOMAIN behind : FromRecorder(behind[i])}
           none == <<>>
           zero == 0
           no == FALSE
<1>1. /\ Worker(worker) /\ worker.queue \in Seq(Entry) /\ worker.queue # <<>> /\ refused \subseteq Handed
      /\ Head(worker.queue).op = "close"
  BY DEF TypeOK, Worker, WorkerState, Close, Serves, Waiting, Draining
<1>2. behind \in Seq(Entry) /\ DOMAIN behind = 1..Len(behind) /\ Len(behind) \in Nat
      /\ \A i \in DOMAIN behind : i + 1 \in DOMAIN worker.queue /\ behind[i] = worker.queue[i + 1]
  BY <1>1
<1>3. Rejections(given) \in Seq([type : {"rejected"}])
  BY <1>2, RejectionsFacts
<1>4. worker' = [worker EXCEPT !.open = no, !.at = "idle", !.queue = none, !.pending = zero, !.flushTimer = no]
  BY <1>1 DEF Close, Worker, WorkerState
<1>5. refused' = refused \cup {behind[i] : i \in given} /\ toSim' = toSim \o Rejections(given) /\ UNCHANGED db
  BY DEF Close
<1>6. none \in Seq(Entry) /\ no \in BOOLEAN /\ ~no
  OBVIOUS
<1> HIDE DEF none, zero, no
<1>7. /\ Worker(worker') /\ worker'.queue = none /\ worker'.held = worker.held /\ worker'.open = no
      /\ worker'.at = "idle" /\ worker'.head = worker.head /\ worker'.full = worker.full
  BY <1>1, <1>4, <1>6 DEF Worker, WorkerState
<1>8. \A i \in given : behind[i] \in Handed /\ FromRecorder(behind[i])
  BY <1>2, EntryKinds
<1> HIDE DEF behind
<1>9. \A e \in refused' : e \in refused \/ \E i \in given : e = behind[i]
  BY <1>5
<1>10. refused' \subseteq Handed
  BY <1>1, <1>8, <1>9
<1>11. \A e \in refused' : e \in refused \/ \E i \in DOMAIN worker.queue : worker.queue[i] = e /\ FromRecorder(e)
  BY <1>2, <1>8, <1>9
<1> QED BY <1>1, <1>3, <1>5, <1>6, <1>7, <1>10, <1>11 DEF none

\* A message is taken.
LEMMA ReceivedFacts ==
  ASSUME NEW w, Worker(w), NEW e \in Entry, NEW v, v = Received(w, e)
  PROVE  /\ Worker(v) /\ v.queue = Append(w.queue, e) /\ v.held = w.held /\ v.open = w.open
         /\ v.head = w.head /\ v.full = w.full /\ (v.at = w.at \/ v.open)
<1> DEFINE queue == Append(w.queue, e)
           p == w.pending + AppendSize(e)
           u == [w EXCEPT !.queue = queue, !.pending = p]
<1>1. queue \in Seq(Entry)
  BY DEF Worker, WorkerState
<1>2. v = Woken(u)
  BY DEF Received, Worker, WorkerState
<1> HIDE DEF queue, p
<1>3. /\ Worker(u) /\ u.queue = queue /\ u.held = w.held /\ u.open = w.open /\ u.head = w.head
      /\ u.full = w.full /\ u.at = w.at
  BY <1>1 DEF Worker, WorkerState
<1> HIDE DEF u
<1>4. Quiet(v, u) /\ v.full = u.full
  BY <1>2, <1>3, WokenFacts
<1>5. v.at = w.at \/ v.open
  BY <1>2, <1>3, <1>4 DEF Woken, Quiet, Worker, WorkerState
<1> QED BY <1>3, <1>4, <1>5 DEF Quiet, queue

\* The entries that are committed together, and those behind them.
LEMMA RunFacts ==
  ASSUME NEW q \in Seq(Entry), q # <<>>, Coalescable(Head(q)),
         NEW run, run = SubSeq(q, 1, RunLength(q)), NEW rest, rest = SubSeq(q, RunLength(q) + 1, Len(q))
  PROVE  /\ run \in Seq(Entry) /\ rest \in Seq(Entry) /\ run # <<>> /\ q = run \o rest
         /\ \A i \in 1..Len(run) : Coalescable(run[i])
<1> DEFINE S == {i \in DOMAIN q : \A j \in 1..i : Coalescable(q[j])}
           n == Cardinality(S)
<1>1. Len(q) \in Nat /\ S \in SUBSET (1..Len(q)) /\ DOMAIN q = 1..Len(q)
  OBVIOUS
<1>2. \A i \in S : \A j \in 1..i : j \in S
  BY <1>1
<1>3. 1 \in S
  <2>1. 1 \in DOMAIN q /\ q[1] = Head(q)
    OBVIOUS
  <2>2. \A j \in 1..1 : j = 1
    OBVIOUS
  <2> QED BY <2>1, <2>2
<1>4. n \in 0..Len(q) /\ S = 1..n
  <2> HIDE DEF S
  <2> QED BY <1>1, <1>2, InitialSegment
<1>5. n \in 1..Len(q)
  <2> HIDE DEF S, n
  <2> QED BY <1>3, <1>4
<1>6. \A i \in 1..n : Coalescable(q[i])
  <2> SUFFICES ASSUME NEW i \in 1..n PROVE Coalescable(q[i])
    OBVIOUS
  <2>1. i \in S
    BY <1>4
  <2>2. i \in 1..i
    BY <1>5
  <2> QED BY <2>1, <2>2
<1>7. RunLength(q) = n
  BY DEF RunLength
<1> HIDE DEF n, S
<1>8. /\ run \in Seq(Entry) /\ rest \in Seq(Entry) /\ Len(run) = n /\ q = run \o rest
      /\ \A i \in 1..n : run[i] = q[i]
  BY <1>5, <1>7
<1>9. \A i \in 1..Len(run) : Coalescable(run[i])
  <2> SUFFICES ASSUME NEW i \in 1..n PROVE Coalescable(run[i])
    BY <1>8
  <2>1. run[i] = q[i]
    BY <1>8
  <2> QED BY <1>6, <2>1
<1>10. run # <<>>
  <2>1. Len(run) # 0 /\ Len(<<>>) = 0
    BY <1>5, <1>8
  <2> QED BY <2>1, Zenon
<1> QED BY <1>8, <1>9, <1>10

\* The head after a transaction: what its last saved batch says.
LEMMA HeadOfFacts ==
  ASSUME NEW run \in Seq(Entry), NEW results, SavedBatches(run, results) # {}
  PROVE  \E i \in SavedBatches(run, results) :
           /\ \A j \in SavedBatches(run, results) : j <= i
           /\ i \in 1..Len(run) /\ run[i] \in BatchEntry
           /\ HeadOf(run, results) = [throughSeq |-> run[i].throughSeq, tick |-> run[i].tick]
           /\ HeadOf(run, results) \in HeadRecord
<1> DEFINE S == SavedBatches(run, results)
           P(i) == i \in S /\ \A j \in S : j <= i
           c == CHOOSE i \in S : \A j \in S : j <= i
<1>1. S \in SUBSET (1..Len(run)) /\ Len(run) \in Nat /\ \A i \in S : IsBatch(run[i])
  BY DEF SavedBatches
<1> HIDE DEF S
<1>2. Max(S) \in S /\ \A j \in S : j <= Max(S)
  BY <1>1, GreatestIndex DEF S
<1>3. c \in S /\ \A j \in S : j <= c
  BY <1>2
<1>4. HeadOf(run, results) = [throughSeq |-> run[c].throughSeq, tick |-> run[c].tick]
  BY DEF HeadOf, S
<1> HIDE DEF c
<1>5. c \in 1..Len(run) /\ run[c] \in Entry /\ run[c] \in BatchEntry
  <2>1. c \in 1..Len(run) /\ run[c] \in Entry /\ IsBatch(run[c])
    BY <1>1, <1>3
  <2> QED BY <2>1, EntryKinds
<1>6. HeadOf(run, results) \in HeadRecord
  BY <1>4, <1>5 DEF BatchEntry, HeadRecord
<1> QED BY <1>3, <1>4, <1>5, <1>6 DEF S

\* What is told of a transaction: of the head, between rejections.
Rejecteds == Seq([type : {"rejected"}])

\* A sequence over a set is one over a larger set.
LEMMA Wider ==
  ASSUME NEW D, NEW C \in SUBSET D, NEW s \in Seq(C) PROVE s \in Seq(D)
<1>1. Len(s) \in Nat /\ \A i \in 1..Len(s) : s[i] \in D
  OBVIOUS
<1> QED BY <1>1

\* What is told of refused entries are messages to the recorder.
LEMMA RejectedsAreMessages ==
  /\ <<>> \in Rejecteds /\ <<Rejected>> \in Rejecteds
  /\ \A a \in Rejecteds : a \in Seq(Message)
<1> DEFINE C == [type : {"rejected"}]
<1>1. C \in SUBSET Message /\ Rejected \in C /\ Rejecteds = Seq(C)
  BY DEF Message, Rejected, Rejecteds
<1> HIDE DEF C
<1>2. <<>> \in Seq(C) /\ <<Rejected>> \in Seq(C)
  BY <1>1
<1>3. \A a \in Seq(C) : a \in Seq(Message)
  BY <1>1, Wider
<1> QED BY <1>1, <1>2, <1>3

\* After a transaction: refusals, at most one head, refusals.
LEMMA ToldFacts ==
  ASSUME NEW run \in Seq(Entry), NEW results
  PROVE  \E a, b \in Rejecteds :
           Told(run, results) = a \o (IF SavedBatches(run, results) = {} THEN <<>>
                                      ELSE <<Persisted(HeadOf(run, results))>>) \o b
<1> DEFINE items   == {i \in DOMAIN run : run[i].op = "item" /\ ~results[i]}
           batches == {i \in DOMAIN run : IsBatch(run[i]) /\ ~results[i]}
           b == IF batches = {} THEN <<>> ELSE <<Rejected>>
<1>1. items \in SUBSET (1..Len(run)) /\ Len(run) \in Nat
  OBVIOUS
<1>2. Rejections(items) \in Rejecteds
  <2> HIDE DEF items
  <2> QED BY <1>1, RejectionsFacts DEF Rejecteds
<1>3. b \in Rejecteds
  BY RejectedsAreMessages
<1>4. Told(run, results) = Rejections(items) \o (IF SavedBatches(run, results) = {} THEN <<>>
                                      ELSE <<Persisted(HeadOf(run, results))>>) \o b
  BY DEF Told
<1> HIDE DEF items, b
<1> QED BY <1>2, <1>3, <1>4

\* A transaction on the entries run, with their results; those of rest are left.
Commits(run, rest, fault, results) ==
  /\ fault \in Faults /\ worker.at = "draining"
  /\ run \in Seq(Entry) /\ rest \in Seq(Entry) /\ run # <<>> /\ worker.queue = run \o rest
  /\ \A i \in 1..Len(run) : Coalescable(run[i])
  /\ FromRecorder(Head(worker.queue)) => ~worker.full
  /\ Worker(worker') /\ worker'.queue = rest /\ worker'.held = worker.held
  /\ worker'.open = worker.open /\ worker'.full = worker.full /\ worker'.at = worker.at
  /\ IF SavedBatches(run, results) = {} THEN worker'.head = worker.head
     ELSE \E i \in SavedBatches(run, results) :
            /\ \A j \in SavedBatches(run, results) : j <= i
            /\ i \in 1..Len(run) /\ run[i] \in BatchEntry
            /\ worker'.head = [throughSeq |-> run[i].throughSeq, tick |-> run[i].tick]
  /\ refused' = refused \cup RefusedOf(run, results) /\ RefusedOf(run, results) \subseteq Handed
  /\ db' \in DbState /\ db'.runs = db.runs
  /\ IF fault = "commit"
     THEN db' = db /\ results = [i \in DOMAIN run |-> FALSE]
     ELSE Transaction(run, fault) = [db |-> db', results |-> results]
  /\ \E a, b \in Rejecteds :
       toSim' = toSim \o a \o (IF SavedBatches(run, results) = {} THEN <<>>
                               ELSE <<Persisted(worker'.head)>>) \o b

\* A step of drain() that commits, as a whole.
LEMMA CommitFacts ==
  ASSUME TypeOK, Commit
  PROVE  \E run, rest, fault, results : Commits(run, rest, fault, results)
<1> DEFINE n    == RunLength(worker.queue)
           run  == SubSeq(worker.queue, 1, n)
           rest == SubSeq(worker.queue, n + 1, Len(worker.queue))
           none == [i \in DOMAIN run |-> FALSE]
<1>1. PICK fault \in Faults :
        LET tx   == Transaction(run, fault)
            done == IF fault = "commit" THEN none ELSE tx.results
        IN  /\ db' = IF fault = "commit" THEN db ELSE tx.db
            /\ toSim' = toSim \o
                 (IF fault = "commit"
                  THEN Rejections({i \in DOMAIN run : FromRecorder(run[i])})
                  ELSE Told(run, tx.results))
            /\ answer' = AnswerTo(run, done, fault)
            /\ refused' = refused \cup RefusedOf(run, done)
            /\ worker' = [worker EXCEPT
                 !.queue = rest, !.pending = SizeOf(rest), !.flushDue = FALSE,
                 !.measuring = TRUE,
                 !.head = IF SavedBatches(run, done) = {} THEN @ ELSE HeadOf(run, done)]
  BY DEF Commit
<1> DEFINE tx      == Transaction(run, fault)
           done    == IF fault = "commit" THEN none ELSE tx.results
           head    == IF SavedBatches(run, done) = {} THEN worker.head ELSE HeadOf(run, done)
           pending == SizeOf(rest)
           yes == TRUE
           no  == FALSE
<1>2. /\ Worker(worker) /\ worker.queue \in Seq(Entry) /\ worker.queue # <<>> /\ db \in DbState
      /\ worker.at = "draining" /\ Coalescable(Head(worker.queue)) /\ worker.head \in HeadRecord
      /\ toSim \in Seq(Message) /\ ~Holds(Head(worker.queue))
  BY DEF TypeOK, Worker, WorkerState, Commit, Waiting, Draining
<1>3. /\ run \in Seq(Entry) /\ rest \in Seq(Entry) /\ run # <<>> /\ worker.queue = run \o rest
      /\ \A i \in 1..Len(run) : Coalescable(run[i])
  BY <1>2, RunFacts
<1>4. worker' = [worker EXCEPT !.queue = rest, !.pending = pending, !.flushDue = no,
                               !.measuring = yes, !.head = head]
  BY <1>1, <1>2 DEF Worker, WorkerState
<1>5. refused' = refused \cup RefusedOf(run, done)
  BY <1>1
<1>6. db' = IF fault = "commit" THEN db ELSE tx.db
  BY <1>1
<1>7. toSim' = toSim \o (IF fault = "commit" THEN Rejections({i \in DOMAIN run : FromRecorder(run[i])})
                         ELSE Told(run, tx.results))
  BY <1>1
<1>8. yes \in BOOLEAN /\ no \in BOOLEAN
  OBVIOUS
<1> HIDE DEF run, rest, n, pending, yes, no
<1>9. tx \in Tx /\ tx.db.runs = db.runs
  BY <1>2, <1>3, BatchResults
<1>10. SavedBatches(run, done) # {} =>
         \E i \in SavedBatches(run, done) :
           /\ \A j \in SavedBatches(run, done) : j <= i
           /\ i \in 1..Len(run) /\ run[i] \in BatchEntry
           /\ HeadOf(run, done) = [throughSeq |-> run[i].throughSeq, tick |-> run[i].tick]
           /\ HeadOf(run, done) \in HeadRecord
  <2> HIDE DEF done
  <2> QED BY <1>3, HeadOfFacts
<1>11. head \in HeadRecord
  BY <1>2, <1>10
<1>12. /\ SavedBatches(run, done) = {} => head = worker.head
       /\ SavedBatches(run, done) # {} => head = HeadOf(run, done)
  OBVIOUS
<1>13. fault = "commit" => SavedBatches(run, done) = {}
  <2> SUFFICES ASSUME fault = "commit", NEW i \in SavedBatches(run, done) PROVE FALSE
    OBVIOUS
  <2>1. i \in 1..Len(run) /\ IsBatch(run[i]) /\ \A j \in 1..i : IsBatch(run[j]) => done[j]
    BY <1>3 DEF SavedBatches
  <2>2. i \in 1..i /\ done[i] = FALSE
    BY <1>3, <2>1
  <2> QED BY <2>1, <2>2
<1>14. RefusedOf(run, done) \subseteq Handed
  <2> SUFFICES ASSUME NEW i \in DOMAIN run, FromRecorder(run[i]) PROVE run[i] \in Handed
    BY DEF RefusedOf
  <2>1. run[i] \in Entry
    BY <1>3
  <2> QED BY <2>1, EntryKinds
<1>15. fault # "commit" => Transaction(run, fault) = [db |-> db', results |-> done]
  BY <1>6, <1>9 DEF Tx
<1>16. fault = "commit" => db' = db /\ done = [i \in DOMAIN run |-> FALSE]
  BY <1>6
<1>17. db' \in DbState /\ db'.runs = db.runs
  BY <1>2, <1>6, <1>9 DEF Tx
<1>18. fault # "commit" => done = tx.results
  OBVIOUS
<1> HIDE DEF head
<1>19. /\ Worker(worker') /\ worker'.queue = rest /\ worker'.held = worker.held /\ worker'.head = head
       /\ worker'.open = worker.open /\ worker'.full = worker.full /\ worker'.at = worker.at
  BY <1>2, <1>3, <1>4, <1>8, <1>11 DEF Worker, WorkerState
<1>20. \E a, b \in Rejecteds :
       toSim' = toSim \o a \o (IF SavedBatches(run, done) = {} THEN <<>>
                               ELSE <<Persisted(worker'.head)>>) \o b
  <2> HIDE DEF done, tx
  <2>1. CASE fault = "commit"
    <3> DEFINE S == {i \in DOMAIN run : FromRecorder(run[i])}
               a == Rejections(S)
    <3>1. S \in SUBSET (1..Len(run)) /\ Len(run) \in Nat
      BY <1>3
    <3>2. a \in Rejecteds
      <4> HIDE DEF S
      <4> QED BY <3>1, RejectionsFacts DEF Rejecteds
    <3>3. toSim' = toSim \o a
      BY <1>7, <2>1
    <3> HIDE DEF a
    <3>4. <<>> \in Rejecteds /\ toSim' = toSim \o a \o <<>> \o <<>>
      BY <1>2, <3>2, <3>3 DEF Rejecteds, Message
    <3> QED BY <1>13, <2>1, <3>2, <3>4
  <2>2. CASE fault # "commit"
    <3> DEFINE m == IF SavedBatches(run, done) = {} THEN <<>> ELSE <<Persisted(HeadOf(run, done))>>
    <3>1. PICK a, b \in Rejecteds : Told(run, done) = a \o m \o b
      BY <1>3, ToldFacts
    <3>2. m = IF SavedBatches(run, done) = {} THEN <<>> ELSE <<Persisted(worker'.head)>>
      <4>1. SavedBatches(run, done) # {} => worker'.head = HeadOf(run, done)
        BY <1>12, <1>19, Zenon
      <4> HIDE DEF done
      <4> QED BY <4>1, Zenon
    <3>3. m \in Seq(Message)
      <4> DEFINE h == HeadOf(run, done)
                 x == Persisted(h)
      <4>1. CASE SavedBatches(run, done) = {}
        BY <4>1
      <4>2. CASE SavedBatches(run, done) # {}
        <5>1. h \in HeadRecord
          BY <1>10, <4>2
        <5> HIDE DEF h
        <5>2. x \in Message
          BY <5>1 DEF Persisted, Message
        <5> HIDE DEF x
        <5>3. m = <<x>>
          BY <4>2 DEF x, h
        <5> HIDE DEF m
        <5> QED BY <5>2, <5>3
      <4> QED BY <4>1, <4>2
    <3>4. toSim' = toSim \o (a \o m \o b)
      BY <1>7, <1>18, <2>2, <3>1
    <3> HIDE DEF m
    <3>5. a \in Seq(Message) /\ b \in Seq(Message)
      BY <3>1, RejectedsAreMessages
    <3>6. toSim' = toSim \o a \o m \o b
      BY <1>2, <3>3, <3>4, <3>5, SMTT(30)
    <3> QED BY <3>1, <3>2, <3>6
  <2> QED BY <2>1, <2>2
<1> HIDE DEF done, tx
<1>21. IF SavedBatches(run, done) = {} THEN worker'.head = worker.head
       ELSE \E i \in SavedBatches(run, done) :
            /\ \A j \in SavedBatches(run, done) : j <= i
            /\ i \in 1..Len(run) /\ run[i] \in BatchEntry
            /\ worker'.head = [throughSeq |-> run[i].throughSeq, tick |-> run[i].tick]
  BY <1>10, <1>12, <1>19
<1>22. FromRecorder(Head(worker.queue)) => ~worker.full
  BY <1>2 DEF Holds
<1>23. Commits(run, rest, fault, done)
  BY <1>2, <1>3, <1>5, <1>14, <1>15, <1>16, <1>17, <1>19, <1>20, <1>21, <1>22 DEF Commits
<1> QED BY <1>23

(***************************************************************************)
(* The events of the run                                                   *)
(***************************************************************************)
HandsOver == \E out : Hands(sim, sim', out) /\ toStorage' = toStorage \o out
GoesOn    == Rests(sim, sim') /\ UNCHANGED toStorage

\* With nothing to send, sending changes nothing.
LEMMA SendNothing ==
  ASSUME NEW s, SimOK(s), NEW q, q = [s EXCEPT !.recorder = Send(@)]
  PROVE  Rests(s, q) /\ s.recorder.sent = <<>>
<1>1. s \in SimState /\ s.recorder \in RecorderState /\ s.recorder.sent = <<>>
  BY DEF SimOK, Settled, SimState
<1>2. Send(s.recorder) = s.recorder
  BY <1>1 DEF Send, RecorderState
<1>3. q = s
  BY <1>1, <1>2 DEF SimState
<1> QED BY <1>1, <1>3 DEF Rests, Alike

\* Whether the quota pauses the run makes no difference to its recording.
LEMMA QuotaAside ==
  ASSUME NEW s, SimOK(s), NEW paused \in BOOLEAN, NEW z, z = [s EXCEPT !.quotaPaused = paused]
  PROVE  /\ SimOK(z) /\ z.recorder = s.recorder
         /\ \A q, out : Hands(z, q, out) => Hands(s, q, out)
         /\ \A q : Rests(z, q) => Rests(s, q)
<1>1. /\ z \in SimState /\ z.buffer = s.buffer /\ z.recorder = s.recorder /\ z.section = s.section
      /\ z.sentBlobs = s.sentBlobs
  BY DEF SimOK, SimState
<1>2. SimOK(z)
  BY <1>1 DEF SimOK, BeforeHeader
<1>3. From(z) = From(s) /\ Blobs(z) = Blobs(s)
  BY <1>1 DEF From, Blobs
<1>4. \A q, out : Hands(z, q, out) => Hands(s, q, out)
  BY <1>1, <1>3 DEF Hands
<1>5. \A q : Rests(z, q) => Rests(s, q)
  BY <1>1 DEF Rests
<1> QED BY <1>1, <1>2, <1>4, <1>5

\* A tick hands over what it gathered.
LEMMA TickFacts ==
  ASSUME SimOK(sim), Tick
  PROVE  sim.recorder.header /\ HandsOver /\ UNCHANGED <<main, storageVars>>
<1>1. sim.recorder.header
  BY DEF Tick, Gated
<1>2. PICK t \in Ticks : Becomes(Gathers(Ticked(sim, t, sim.recorder.tick + 1), sim.recorder.tick + 1))
  BY DEF Tick
<1> DEFINE tick == sim.recorder.tick + 1
           x == Gathers(Ticked(sim, t, tick), tick)
<1>3. sim' = [x EXCEPT !.recorder = Send(@)] /\ toStorage' = toStorage \o x.recorder.sent
  BY <1>2 DEF Becomes
<1>4. Hands(sim, sim', x.recorder.sent)
  BY <1>1, <1>3, TickHands
<1> HIDE DEF x
<1> QED BY <1>1, <1>3, <1>4 DEF HandsOver, Tick

\* A pause, with the quota's or without, hands over or changes nothing.
LEMMA PausingFacts ==
  ASSUME SimOK(sim), toStorage \in Seq(Handed), NEW paused \in BOOLEAN, NEW z, z = [sim EXCEPT !.quotaPaused = paused],
         Becomes(Pausing(z))
  PROVE  (sim.recorder.header /\ HandsOver) \/ GoesOn
<1> DEFINE x == Pausing(z)
<1>1. sim' = [x EXCEPT !.recorder = Send(@)] /\ toStorage' = toStorage \o x.recorder.sent
  BY DEF Becomes
<1>2. /\ SimOK(z) /\ z.recorder = sim.recorder
      /\ \A q, out : Hands(z, q, out) => Hands(sim, q, out)
      /\ \A q : Rests(z, q) => Rests(sim, q)
  BY QuotaAside
<1>3. \/ z.recorder.header /\ Hands(z, sim', x.recorder.sent)
      \/ ~z.recorder.header /\ Rests(z, sim') /\ x.recorder.sent = <<>>
  BY <1>1, <1>2, PausingHands
<1> HIDE DEF x
<1>4. CASE z.recorder.header /\ Hands(z, sim', x.recorder.sent)
  BY <1>1, <1>2, <1>4 DEF HandsOver
<1>5. CASE ~z.recorder.header /\ Rests(z, sim') /\ x.recorder.sent = <<>>
  BY <1>1, <1>2, <1>5 DEF GoesOn
<1> QED BY <1>3, <1>4, <1>5

\* The same, of the run as it is.
LEMMA PausingNow ==
  ASSUME SimOK(sim), toStorage \in Seq(Handed), Becomes(Pausing(sim))
  PROVE  (sim.recorder.header /\ HandsOver) \/ GoesOn
<1>1. sim.quotaPaused \in BOOLEAN /\ sim = [sim EXCEPT !.quotaPaused = sim.quotaPaused]
  BY DEF SimOK, SimState
<1> QED BY <1>1, PausingFacts

\* What changes a flag alone hands nothing over.
LEMMA SameAgain ==
  ASSUME SimOK(sim), toStorage \in Seq(Handed), NEW z, SimOK(z), Rests(sim, z), Becomes(z)
  PROVE  GoesOn
<1>1. Rests(z, sim') /\ z.recorder.sent = <<>>
  BY SendNothing DEF Becomes
<1>2. toStorage' = toStorage
  BY <1>1 DEF Becomes
<1>3. Rests(sim, sim')
  BY <1>1 DEF Rests, Alike
<1> QED BY <1>2, <1>3 DEF GoesOn

\* The header of the run is told once, and what was held for it goes out.
LEMMA HeaderFacts ==
  ASSUME SimOK(sim), toStorage \in Seq(Handed), Header
  PROVE  /\ toSim # <<>> /\ Head(toSim).type = "header"
         /\ \/ Head(toSim).run = Live /\ ~sim.recorder.header /\ HandsOver
            \/ (Head(toSim).run = Live => sim.recorder.header) /\ GoesOn
<1>1. toSim # <<>> /\ Head(toSim).type = "header"
  BY DEF Header, Hears
<1>2. CASE Head(toSim).run = Live /\ ~sim.recorder.header
  <2> DEFINE x == [sim EXCEPT !.recorder = HeaderStored(@)]
  <2>1. sim' = [x EXCEPT !.recorder = Send(@)] /\ toStorage' = toStorage \o x.recorder.sent
    BY <1>2 DEF Header, Becomes
  <2>2. Hands(sim, sim', x.recorder.sent)
    BY <1>2, <2>1, HeaderHands
  <2> HIDE DEF x
  <2> QED BY <1>1, <1>2, <2>1, <2>2 DEF HandsOver
<1>3. CASE ~(Head(toSim).run = Live /\ ~sim.recorder.header)
  <2>1. sim \in SimState /\ sim.recorder \in RecorderState
    BY DEF SimOK, SimState
  <2>2. sim.recorder.header => [sim EXCEPT !.recorder = HeaderStored(@)] = sim
    BY <2>1 DEF HeaderStored, SimState
  <2>3. Becomes(sim)
    BY <1>3, <2>2 DEF Header
  <2>4. Rests(sim, sim)
    BY <2>1 DEF Rests, Alike
  <2>5. GoesOn
    BY <2>3, <2>4, SameAgain
  <2> QED BY <1>1, <1>3, <2>5
<1> QED BY <1>2, <1>3

\* A head is taken, or ignored when it goes back.
LEMMA PersistFacts ==
  ASSUME SimOK(sim), toStorage \in Seq(Handed), toSim \in Seq(Message), sim.recorder.header, Persist
  PROVE  /\ toSim # <<>> /\ Head(toSim).type = "persisted" /\ Head(toSim).head \in HeadRecord
         /\ \/ GoesBack(sim.recorder, Head(toSim).head) /\ GoesOn
            \/ ~GoesBack(sim.recorder, Head(toSim).head) /\ Acks(sim, sim', Head(toSim).head) /\ UNCHANGED toStorage
<1>1. toSim # <<>> /\ Head(toSim).type = "persisted"
  BY DEF Persist, Hears
<1>2. Head(toSim) \in Message
  BY <1>1
<1>3. Head(toSim).head \in HeadRecord
  <2> DEFINE m == Head(toSim)
  <2>1. m \in Message /\ m.type = "persisted"
    BY <1>1, <1>2
  <2> HIDE DEF m
  <2>2. m.head \in HeadRecord
    BY <2>1 DEF Message
  <2> QED BY <2>2 DEF m
<1> DEFINE head == Head(toSim).head
           x == HeadTaken(sim, head)
<1>4. sim' = [x EXCEPT !.recorder = Send(@)] /\ toStorage' = toStorage \o x.recorder.sent
  BY DEF Persist, Becomes
<1> HIDE DEF head
<1>5. CASE GoesBack(sim.recorder, head)
  <2>1. x = sim
    BY <1>5 DEF HeadTaken
  <2>2. Rests(sim, sim') /\ sim.recorder.sent = <<>>
    BY <1>4, <2>1, SendNothing
  <2>3. GoesOn
    BY <1>4, <2>1, <2>2 DEF GoesOn
  <2> QED BY <1>1, <1>3, <1>5, <2>3 DEF head
<1>6. CASE ~GoesBack(sim.recorder, head)
  <2>1. Acks(sim, sim', head) /\ x.recorder.sent = <<>>
    BY <1>3, <1>4, <1>6, HeadFacts DEF head
  <2> HIDE DEF x
  <2>2. UNCHANGED toStorage
    BY <1>4, <2>1
  <2> QED BY <1>1, <1>3, <1>6, <2>1, <2>2 DEF head
<1> QED BY <1>5, <1>6

\* The quota pauses the run, with what it holds handed over.
LEMMA QuotaFacts ==
  ASSUME SimOK(sim), toStorage \in Seq(Handed), Quota
  PROVE  /\ toSim # <<>> /\ Head(toSim).type = "quota"
         /\ (sim.recorder.header /\ HandsOver) \/ GoesOn
<1>1. toSim # <<>> /\ Head(toSim).type = "quota"
  BY DEF Quota, Hears
<1> DEFINE paused == Head(toSim).state = "paused"
           z == [sim EXCEPT !.quotaPaused = paused]
<1>2. paused \in BOOLEAN
  OBVIOUS
<1>3. Becomes(z) \/ Becomes(Pausing(z))
  BY DEF Quota
<1> HIDE DEF paused
<1>4. SimOK(z) /\ Rests(sim, z)
  <2>1. SimOK(z) /\ \A q : Rests(z, q) => Rests(sim, q)
    BY <1>2, QuotaAside
  <2>2. Rests(z, z)
    BY <2>1 DEF Rests, Alike, SimOK, SimState
  <2> QED BY <2>1, <2>2
<1>5. CASE Becomes(z)
  <2> HIDE DEF z
  <2> QED BY <1>1, <1>4, <1>5, SameAgain
<1>6. CASE Becomes(Pausing(z))
  BY <1>1, <1>2, <1>6, PausingFacts
<1> QED BY <1>3, <1>5, <1>6

\* A refusal may pause the run.
LEMMA RejectFacts ==
  ASSUME SimOK(sim), toStorage \in Seq(Handed), Reject
  PROVE  /\ toSim # <<>> /\ Head(toSim).type = "rejected"
         /\ (sim.recorder.header /\ HandsOver) \/ GoesOn
<1>1. toSim # <<>> /\ Head(toSim).type = "rejected"
  BY DEF Reject, Hears
<1>2. Becomes(sim) \/ Becomes(Pausing(sim))
  BY DEF Reject
<1>3. CASE Becomes(sim)
  <2>1. Rests(sim, sim)
    BY DEF SimOK, SimState, Rests, Alike
  <2> QED BY <1>1, <1>3, <2>1, SameAgain
<1>4. CASE Becomes(Pausing(sim))
  BY <1>1, <1>4, PausingNow
<1> QED BY <1>2, <1>3, <1>4

\* What is handed over.
LEMMA HandsType ==
  ASSUME NEW s, NEW q, NEW out, Hands(s, q, out)
  PROVE  out \in Seq(Handed)
<1>1. PICK items \in Seq(Item) : Sends(s.recorder, q.recorder, NewerThan(q.buffer, From(s)), items, out)
  BY DEF Hands
<1>2. CASE out = <<>>
  BY <1>2
<1>3. CASE \E batch \in BatchEntry : out = Append(items, batch)
  <2>1. PICK batch \in BatchEntry : out = Append(items, batch)
    BY <1>3
  <2>2. items \in Seq(Handed)
    BY Wider DEF Handed
  <2>3. batch \in Handed
    BY DEF Handed
  <2> QED BY <2>1, <2>2, <2>3
<1> QED BY <1>1, <1>2, <1>3 DEF Sends

(***************************************************************************)
(* The steps of the system, told apart by what they do to what is on its   *)
(* way                                                                     *)
(***************************************************************************)
IsCreate(e)   == e.op = "create" /\ e.run = Live
HasCreate(q)  == \E i \in 1..Len(q) : IsCreate(q[i])
OneCreate(q)  == \A i, j \in 1..Len(q) : IsCreate(q[i]) /\ IsCreate(q[j]) => i = j
HasGiven(q)   == \E i \in 1..Len(q) : FromRecorder(q[i])
HeaderTold(s) == \E i \in 1..Len(s) : s[i].type = "header" /\ s[i].run = Live
HeadTold(s)   == \E i \in 1..Len(s) : s[i].type = "persisted"

\* The header is asked for once; nothing is handed over before the recorder
\* hears that it is stored.
HeaderInv ==
  /\ OneCreate(worker.queue)
  /\ HasCreate(worker.queue) => main.header /\ ~HeaderTold(toSim) /\ ~sim.recorder.header
  /\ HeaderTold(toSim) \/ sim.recorder.header => main.header
  /\ \/ toStorage # <<>> \/ worker.held # <<>> \/ HasGiven(worker.queue) \/ refused # {} \/ HeadTold(toSim)
     => sim.recorder.header
  /\ ~worker.open => worker.at = "idle"
  /\ ~Resims => main.resim = "idle"

Base == TypeOK /\ SimOK(sim) /\ HeaderInv

Quietly ==
  /\ Quiet(worker', worker)
  /\ toSim' = toSim \/ \E m \in Message : m.type = "quota" /\ toSim' = Append(toSim, m)
  /\ main' \in MainState /\ main'.header = main.header /\ (~Resims => main'.resim = main.resim)
  /\ UNCHANGED <<sim, toStorage, db, refused>>

Hearing == toSim # <<>> /\ toSim' = Tail(toSim)

RunGoesOn ==
  /\ GoesOn
  /\ toSim' = toSim \/ (Hearing /\ (Head(toSim).type = "header" /\ Head(toSim).run = Live => sim.recorder.header))
  /\ UNCHANGED <<main, worker, db, refused>>

RunHands ==
  /\ HandsOver
  /\ \/ sim.recorder.header /\ (toSim' = toSim \/ Hearing)
     \/ ~sim.recorder.header /\ Hearing /\ Head(toSim).type = "header" /\ Head(toSim).run = Live
  /\ UNCHANGED <<main, worker, db, refused>>

RunAcks ==
  /\ Hearing /\ Head(toSim).type = "persisted" /\ Head(toSim).head \in HeadRecord
  /\ sim.recorder.header /\ Acks(sim, sim', Head(toSim).head) /\ ~GoesBack(sim.recorder, Head(toSim).head)
  /\ UNCHANGED <<toStorage, main, worker, db, refused>>

Takes(e) ==
  /\ Worker(worker') /\ worker'.queue = Append(worker.queue, e) /\ worker'.held = worker.held
  /\ worker'.open = worker.open /\ worker'.head = worker.head /\ worker'.full = worker.full
  /\ worker'.at = worker.at \/ worker'.open

Asked ==
  /\ \E e \in Request :
       /\ Takes(e)
       /\ IsCreate(e) => ~main.header /\ main'.header
       /\ ~IsCreate(e) => main'.header = main.header
       /\ ~Resims => IsCreate(e) \/ e.op \in Requests
  /\ main' \in MainState /\ (~Resims => main'.resim = main.resim)
  /\ UNCHANGED <<sim, toStorage, db, toSim, refused>>

Delivered ==
  /\ toStorage # <<>> /\ toStorage' = Tail(toStorage)
  /\ IF worker.open THEN Takes(Head(toStorage)) ELSE worker' = worker
  /\ UNCHANGED <<sim, main, db, toSim, refused>>

HoldsOne ==
  /\ Worker(worker') /\ worker.queue # <<>> /\ FromRecorder(Head(worker.queue)) /\ worker.full
  /\ worker'.queue = Tail(worker.queue) /\ worker'.held = Append(worker.held, Head(worker.queue))
  /\ worker'.open = worker.open /\ worker'.head = worker.head /\ worker'.full = worker.full
  /\ worker'.at = worker.at /\ worker.at = "draining"
  /\ UNCHANGED <<sim, toStorage, main, db, toSim, refused>>

GivesBack ==
  /\ Returns(worker', worker)
  /\ toSim' = toSim \/ \E m \in Message : m.type = "quota" /\ toSim' = Append(toSim, m)
  /\ UNCHANGED <<sim, toStorage, main, db, refused>>

CommitsSome ==
  /\ \E run, rest, fault, results : Commits(run, rest, fault, results)
  /\ UNCHANGED <<sim, toStorage, main>>

Creates ==
  /\ Serving("create")
  /\ db' \in DbState /\ db'.records = db.records /\ db'.snapshots = db.snapshots /\ db'.sections = db.sections
  /\ db'.runs = db.runs \cup {Head(worker.queue).run} /\ Head(worker.queue).run \in Runs
  /\ toSim' = Append(toSim, [type |-> "header", run |-> Head(worker.queue).run])
  /\ [type |-> "header", run |-> Head(worker.queue).run] \in Message
  /\ UNCHANGED <<sim, toStorage, main, refused>>

Deletes ==
  /\ Serving("delete") \/ Serving("import")
  /\ db' \in DbState /\ db'.runs \subseteq db.runs
  /\ UNCHANGED <<sim, toStorage, main, toSim, refused>>

TakesTime ==
  /\ Serving("slow")
  /\ UNCHANGED <<sim, toStorage, main, db, toSim, refused>>

Closes ==
  /\ worker.queue # <<>> /\ Head(worker.queue).op = "close"
  /\ Worker(worker') /\ worker'.queue = <<>> /\ worker'.held = worker.held /\ ~worker'.open /\ worker'.at = "idle"
  /\ worker'.head = worker.head /\ worker'.full = worker.full
  /\ \E told \in Rejecteds : toSim' = toSim \o told
  /\ refused' \subseteq Handed
  /\ \A e \in refused' : e \in refused \/ \E i \in DOMAIN worker.queue : worker.queue[i] = e /\ FromRecorder(e)
  /\ UNCHANGED <<sim, toStorage, main, db>>

RunSteps     == RunGoesOn \/ RunHands \/ RunAcks
QueueSteps   == Quietly \/ Asked \/ Delivered \/ HoldsOne \/ GivesBack
ServingSteps == CommitsSome \/ Creates \/ Deletes \/ TakesTime \/ Closes

\* The run and its recorder: a step hands over, takes a head, or changes nothing that is seen.
LEMMA RunStepKinds ==
  ASSUME Base, Tick \/ Pause \/ Hear
  PROVE  RunSteps
<1>1. SimOK(sim) /\ toStorage \in Seq(Handed) /\ toSim \in Seq(Message)
  BY DEF Base, TypeOK
<1>2. CASE Tick
  BY <1>1, <1>2, TickFacts DEF RunSteps, RunHands, storageVars
<1>3. CASE Pause
  <2>1. Becomes(Pausing(sim)) /\ UNCHANGED <<main, storageVars>>
    BY <1>3 DEF Pause
  <2>2. (sim.recorder.header /\ HandsOver) \/ GoesOn
    BY <1>1, <2>1, PausingNow
  <2> QED BY <2>1, <2>2 DEF RunSteps, RunHands, RunGoesOn, storageVars
<1>4. CASE Hear /\ Header
  <2>1. toSim' = Tail(toSim) /\ UNCHANGED <<main, worker, db, answer, refused>>
    BY <1>4 DEF Hear
  <2>2. /\ toSim # <<>> /\ Head(toSim).type = "header"
        /\ \/ Head(toSim).run = Live /\ ~sim.recorder.header /\ HandsOver
           \/ (Head(toSim).run = Live => sim.recorder.header) /\ GoesOn
    BY <1>1, <1>4, HeaderFacts
  <2> QED BY <2>1, <2>2 DEF RunSteps, RunHands, RunGoesOn, Hearing
<1>5. CASE Hear /\ Persist
  <2>1. toSim' = Tail(toSim) /\ UNCHANGED <<main, worker, db, answer, refused>>
    BY <1>5 DEF Hear
  <2>2. toSim # <<>> /\ Head(toSim).type = "persisted"
    BY <1>5 DEF Persist, Hears
  <2>3. HeadTold(toSim)
    <3>1. 1 \in 1..Len(toSim) /\ toSim[1] = Head(toSim)
      BY <1>1, <2>2
    <3> QED BY <2>2, <3>1 DEF HeadTold
  <2>4. sim.recorder.header
    BY <2>3 DEF Base, HeaderInv
  <2>5. /\ toSim # <<>> /\ Head(toSim).type = "persisted" /\ Head(toSim).head \in HeadRecord
         /\ \/ GoesBack(sim.recorder, Head(toSim).head) /\ GoesOn
            \/ ~GoesBack(sim.recorder, Head(toSim).head) /\ Acks(sim, sim', Head(toSim).head) /\ UNCHANGED toStorage
    BY <1>1, <1>5, <2>4, PersistFacts
  <2> QED BY <2>1, <2>4, <2>5 DEF RunSteps, RunAcks, RunGoesOn, Hearing
<1>6. CASE Hear /\ Quota
  <2>1. toSim' = Tail(toSim) /\ UNCHANGED <<main, worker, db, answer, refused>>
    BY <1>6 DEF Hear
  <2>2. toSim # <<>> /\ Head(toSim).type = "quota" /\ ((sim.recorder.header /\ HandsOver) \/ GoesOn)
    BY <1>1, <1>6, QuotaFacts
  <2> QED BY <2>1, <2>2 DEF RunSteps, RunHands, RunGoesOn, Hearing
<1>7. CASE Hear /\ Reject
  <2>1. toSim' = Tail(toSim) /\ UNCHANGED <<main, worker, db, answer, refused>>
    BY <1>7 DEF Hear
  <2>2. toSim # <<>> /\ Head(toSim).type = "rejected" /\ ((sim.recorder.header /\ HandsOver) \/ GoesOn)
    BY <1>1, <1>7, RejectFacts
  <2> QED BY <2>1, <2>2 DEF RunSteps, RunHands, RunGoesOn, Hearing
<1> QED BY <1>2, <1>3, <1>4, <1>5, <1>6, <1>7 DEF Hear

\* A request of the main thread is queued as it is.
LEMMA AsksFacts ==
  ASSUME TypeOK, NEW op, NEW run, Asks(op, run), op \in {"create", "append", "delete", "slow", "import", "close"},
         run \in Runs
  PROVE  \E e \in Request : e.op = op /\ e.run = run /\ Takes(e)
<1> DEFINE e == [op |-> op, by |-> "main", run |-> run, records |-> <<>>]
<1>1. e \in Request /\ e.op = op /\ e.run = run
  BY DEF Request
<1>2. worker' = Received(worker, e) /\ Worker(worker)
  BY DEF Asks, TypeOK, Worker
<1>3. e \in Entry
  BY <1>1 DEF Entry
<1> HIDE DEF e
<1>4. Takes(e)
  BY <1>2, <1>3, ReceivedFacts DEF Takes
<1> QED BY <1>1, <1>4

\* The header is asked for once; the re-simulation asks only where there is one.
LEMMA AskKinds ==
  ASSUME Base, StoreHeader \/ Other \/ StoreWindow \/ AppendWindow \/ RemoveWindow
  PROVE  Asked
<1>1. TypeOK /\ main \in MainState
  BY DEF Base, TypeOK
<1>2. Live \in Runs /\ Derived \in Runs /\ Live # Derived /\ Requests \subseteq {"slow", "import", "close"} /\ Resims \in BOOLEAN
  BY StorageAssumption, RecordingAssumption DEF Runs
<1>3. CASE StoreHeader
  <2>1. ~main.header /\ main' = [main EXCEPT !.header = TRUE] /\ Asks("create", Live)
    BY <1>3 DEF StoreHeader
  <2>2. main' \in MainState /\ main'.header /\ main'.resim = main.resim
    BY <1>1, <2>1 DEF MainState
  <2>3. PICK e \in Request : e.op = "create" /\ e.run = Live /\ Takes(e)
    BY <1>1, <1>2, <2>1, AsksFacts
  <2> QED BY <2>1, <2>2, <2>3 DEF Asked, Asks, IsCreate
<1>4. CASE Other
  <2>1. main' = [main EXCEPT !.requests = @ + 1] /\ \E op \in Requests : Asks(op, Live)
    BY <1>4 DEF Other
  <2>2. main' \in MainState /\ main'.header = main.header /\ main'.resim = main.resim
    BY <1>1, <2>1 DEF MainState
  <2>3. PICK op \in Requests : Asks(op, Live)
    BY <2>1
  <2>4. PICK e \in Request : e.op = op /\ e.run = Live /\ Takes(e)
    BY <1>1, <1>2, <2>3, AsksFacts
  <2>5. ~IsCreate(e) /\ e.op \in Requests
    BY <1>2, <2>3, <2>4 DEF IsCreate
  <2> QED BY <2>2, <2>3, <2>4, <2>5 DEF Asked, Asks
<1>5. ASSUME NEW from, NEW op, NEW to, Resim(from, op, to), Resims, op \in {"create", "append", "delete"},
             to \in {"creating", "appending", "removing"}
      PROVE Asked
  <2>1. main' = [main EXCEPT !.resim = to] /\ Asks(op, Derived)
    BY <1>5 DEF Resim
  <2>2. main' \in MainState /\ main'.header = main.header
    BY <1>1, <1>5, <2>1 DEF MainState
  <2>3. PICK e \in Request : e.op = op /\ e.run = Derived /\ Takes(e)
    BY <1>1, <1>2, <1>5, <2>1, AsksFacts
  <2>4. ~IsCreate(e)
    BY <1>2, <2>3 DEF IsCreate
  <2> QED BY <1>5, <2>1, <2>2, <2>3, <2>4 DEF Asked, Asks
<1>6. CASE StoreWindow
  BY <1>5, <1>6 DEF StoreWindow
<1>7. main.resim # "idle" => Resims
  BY DEF Base, HeaderInv
<1>8. CASE AppendWindow
  <2>1. Resim("creating", "append", "appending")
    BY <1>8 DEF AppendWindow
  <2>2. Resims
    BY <1>7, <2>1 DEF Resim
  <2> QED BY <1>5, <2>1, <2>2
<1>9. CASE RemoveWindow
  <2>1. Resim("appending", "delete", "removing") \/ Resim("creating", "delete", "removing")
    BY <1>9 DEF RemoveWindow
  <2>2. Resims
    BY <1>7, <2>1 DEF Resim
  <2> QED BY <1>5, <2>1, <2>2
<1> QED BY <1>3, <1>4, <1>6, <1>8, <1>9

\* What was handed over reaches the queue in order.
LEMMA DeliverKinds ==
  ASSUME Base, Deliver
  PROVE  Delivered
<1>1. toStorage # <<>> /\ toStorage' = Tail(toStorage) /\ UNCHANGED <<sim, main, db, toSim, answer, refused>>
      /\ worker' = IF worker.open THEN Received(worker, Head(toStorage)) ELSE worker
  BY DEF Deliver
<1>2. Worker(worker) /\ Head(toStorage) \in Entry
  BY <1>1 DEF Base, TypeOK, Worker, Entry
<1>3. worker.open => Takes(Head(toStorage))
  BY <1>1, <1>2, ReceivedFacts DEF Takes
<1> QED BY <1>1, <1>3 DEF Delivered

\* The end of a re-simulation concerns the main thread alone.
LEMMA RemovedKinds ==
  ASSUME Base, WindowRemoved
  PROVE  Quietly
<1>1. main \in MainState /\ main.resim = "removing" /\ main' = [main EXCEPT !.resim = "removed"]
      /\ UNCHANGED <<sim, toStorage, worker, db, toSim, answer, refused>>
  BY DEF Base, TypeOK, WindowRemoved, storageVars
<1>2. main' \in MainState /\ main'.header = main.header
  BY <1>1 DEF MainState
<1>3. Resims
  BY <1>1 DEF Base, HeaderInv
<1>4. Quiet(worker', worker)
  BY <1>1 DEF Base, TypeOK, Quiet, Worker
<1> QED BY <1>1, <1>2, <1>3, <1>4 DEF Quietly

\* A step of the storage worker changes its queues, or serves what is first in them.
LEMMA StorageKinds ==
  ASSUME Base, Storage
  PROVE  QueueSteps \/ ServingSteps
<1>1. TypeOK /\ main \in MainState /\ StorageNext /\ UNCHANGED <<sim, toStorage, main>>
  BY DEF Base, TypeOK, Storage
<1>2. CASE Served \/ Stop \/ ScheduleFlush \/ FlushTimer \/ QuotaTimer
  <2>1. worker.open \/ worker.at = "idle"
    BY <1>1 DEF Base, HeaderInv, TypeOK, WorkerState
  <2>2. Quiet(worker', worker) /\ UNCHANGED <<db, toSim, answer, refused>>
    BY <1>1, <1>2, <2>1, QuietSteps
  <2> QED BY <1>1, <2>2 DEF QueueSteps, Quietly
<1>3. CASE Measured
  BY <1>1, <1>3, MeasuredSteps DEF QueueSteps, Quietly, GivesBack
<1>4. CASE Hold
  BY <1>1, <1>4, HoldFacts DEF QueueSteps, HoldsOne
<1>5. CASE Commit
  BY <1>1, <1>5, CommitFacts DEF ServingSteps, CommitsSome
<1>6. CASE CreateRun
  BY <1>1, <1>6, CreateRunFacts DEF ServingSteps, Creates
<1>7. CASE DeleteRun
  BY <1>1, <1>7, DeleteRunFacts DEF ServingSteps, Deletes
<1>8. CASE ImportDb
  BY <1>1, <1>8, ImportFacts DEF ServingSteps, Deletes
<1>9. CASE ServeSlowly
  BY <1>1, <1>9, SlowFacts DEF ServingSteps, TakesTime
<1>10. CASE Close
  BY <1>1, <1>10, CloseFacts DEF ServingSteps, Closes, Rejecteds
<1> QED BY <1>1, <1>2, <1>3, <1>4, <1>5, <1>6, <1>7, <1>8, <1>9, <1>10 DEF StorageNext, Drain

\* Every step is of one of these kinds.
LEMMA StepKinds ==
  ASSUME Base, [Next]_vars
  PROVE  RunSteps \/ QueueSteps \/ ServingSteps
<1>1. CASE UNCHANGED vars
  <2>1. Quiet(worker', worker)
    BY <1>1 DEF vars, Base, TypeOK, Quiet, Worker
  <2> QED BY <1>1, <2>1 DEF QueueSteps, Quietly, vars, Base, TypeOK
<1>2. CASE Tick \/ Pause \/ Hear
  BY <1>2, RunStepKinds
<1>3. CASE StoreHeader \/ Other \/ StoreWindow \/ AppendWindow \/ RemoveWindow
  BY <1>3, AskKinds DEF QueueSteps
<1>4. CASE Deliver
  BY <1>4, DeliverKinds DEF QueueSteps
<1>5. CASE WindowRemoved
  BY <1>5, RemovedKinds DEF QueueSteps
<1>6. CASE Storage
  BY <1>6, StorageKinds
<1> QED BY <1>1, <1>2, <1>3, <1>4, <1>5, <1>6 DEF Next

\* What joins a queue at its end ...
LEMMA JoinsLast ==
  ASSUME NEW q \in Seq(Entry), NEW e \in Entry, NEW p, p = Append(q, e)
  PROVE  /\ HasCreate(p) => HasCreate(q) \/ IsCreate(e)
         /\ OneCreate(q) /\ (IsCreate(e) => ~HasCreate(q)) => OneCreate(p)
         /\ HasGiven(p) => HasGiven(q) \/ FromRecorder(e)
<1>1. Len(p) = Len(q) + 1 /\ Len(q) \in Nat /\ p[Len(q) + 1] = e /\ \A i \in 1..Len(q) : p[i] = q[i]
  BY AppendedOne
<1>2. \A i \in 1..Len(p) : (i \in 1..Len(q) /\ p[i] = q[i]) \/ (i = Len(q) + 1 /\ p[i] = e)
  BY <1>1
<1>3. HasCreate(p) => HasCreate(q) \/ IsCreate(e)
  BY <1>2 DEF HasCreate
<1>4. HasGiven(p) => HasGiven(q) \/ FromRecorder(e)
  BY <1>2 DEF HasGiven
<1>5. OneCreate(q) /\ (IsCreate(e) => ~HasCreate(q)) => OneCreate(p)
  BY <1>2 DEF HasCreate, OneCreate
<1> QED BY <1>3, <1>4, <1>5

\* ... what leaves it at its front ...
LEMMA GoneFirst ==
  ASSUME NEW a \in Seq(Entry), NEW q \in Seq(Entry), NEW p, p = a \o q
  PROVE  /\ HasCreate(q) => HasCreate(p)
         /\ OneCreate(p) => OneCreate(q)
         /\ HasGiven(q) => HasGiven(p)
         /\ a \in Seq(Handed) => /\ HasCreate(p) => HasCreate(q)
                                 /\ OneCreate(q) => OneCreate(p)
                                 /\ HasGiven(p) => HasGiven(q) \/ a # <<>>
         /\ OneCreate(p) /\ HasCreate(a) => ~HasCreate(q)
<1>1. /\ Len(p) = Len(a) + Len(q) /\ Len(a) \in Nat /\ Len(q) \in Nat
      /\ \A i \in 1..Len(a) : p[i] = a[i]
      /\ \A i \in 1..Len(q) : p[Len(a) + i] = q[i]
  OBVIOUS
<1>2. \A i \in 1..Len(q) : Len(a) + i \in 1..Len(p) /\ p[Len(a) + i] = q[i]
  BY <1>1
<1> DEFINE Comes(i) == \/ i \in 1..Len(a) /\ p[i] = a[i]
                       \/ i > Len(a) /\ i - Len(a) \in 1..Len(q) /\ p[i] = q[i - Len(a)]
<1>3. \A i \in 1..Len(p) : Comes(i)
  <2> SUFFICES ASSUME NEW i \in 1..Len(p) PROVE Comes(i)
    OBVIOUS
  <2>1. CASE i <= Len(a)
    BY <1>1, <2>1
  <2>2. CASE i > Len(a)
    <3>1. i - Len(a) \in 1..Len(q) /\ Len(a) + (i - Len(a)) = i
      BY <1>1, <2>2
    <3> QED BY <1>1, <2>2, <3>1
  <2> QED BY <1>1, <2>1, <2>2
<1>4. HasCreate(q) => HasCreate(p)
  BY <1>2 DEF HasCreate
<1>5. OneCreate(p) => OneCreate(q)
  <2> SUFFICES ASSUME OneCreate(p), NEW i \in 1..Len(q), NEW j \in 1..Len(q), IsCreate(q[i]), IsCreate(q[j]) PROVE i = j
    BY DEF OneCreate
  <2>1. Len(a) + i = Len(a) + j
    BY <1>2 DEF OneCreate
  <2> QED BY <1>1, <2>1
<1>6. HasGiven(q) => HasGiven(p)
  BY <1>2 DEF HasGiven
<1>7. ASSUME a \in Seq(Handed)
      PROVE /\ HasCreate(p) => HasCreate(q)
            /\ OneCreate(q) => OneCreate(p)
            /\ HasGiven(p) => HasGiven(q) \/ a # <<>>
  <2>1. \A i \in 1..Len(a) : ~IsCreate(a[i])
    <3> SUFFICES ASSUME NEW i \in 1..Len(a) PROVE ~IsCreate(a[i])
      OBVIOUS
    <3>1. a[i] \in Handed
      BY <1>7
    <3> QED BY <3>1 DEF Handed, Item, BatchEntry, IsCreate
  <2>2. \A i \in 1..Len(p) : IsCreate(p[i]) => i > Len(a) /\ i - Len(a) \in 1..Len(q) /\ IsCreate(q[i - Len(a)])
    BY <1>3, <2>1
  <2>3. HasCreate(p) => HasCreate(q)
    BY <2>2 DEF HasCreate
  <2>4. OneCreate(q) => OneCreate(p)
    <3> SUFFICES ASSUME OneCreate(q), NEW i \in 1..Len(p), NEW j \in 1..Len(p), IsCreate(p[i]), IsCreate(p[j]) PROVE i = j
      BY DEF OneCreate
    <3>1. i - Len(a) = j - Len(a)
      BY <2>2 DEF OneCreate
    <3> QED BY <1>1, <3>1
  <2>5. HasGiven(p) => HasGiven(q) \/ a # <<>>
    BY <1>3 DEF HasGiven
  <2> QED BY <2>3, <2>4, <2>5
<1>8. OneCreate(p) /\ HasCreate(a) => ~HasCreate(q)
  <2> SUFFICES ASSUME OneCreate(p), NEW i \in 1..Len(a), IsCreate(a[i]), NEW j \in 1..Len(q), IsCreate(q[j]) PROVE FALSE
    BY DEF HasCreate
  <2>1. i \in 1..Len(p) /\ IsCreate(p[i]) /\ Len(a) + j \in 1..Len(p) /\ IsCreate(p[Len(a) + j])
    BY <1>1, <1>2
  <2>2. i = Len(a) + j
    BY <2>1 DEF OneCreate
  <2> QED BY <1>1, <2>2
<1> QED BY <1>4, <1>5, <1>6, <1>7, <1>8

\* ... one by one, and what that means for the header in it.
LEMMA ServedFirst ==
  ASSUME NEW q \in Seq(Entry), q # <<>>
  PROVE  /\ HasCreate(Tail(q)) => HasCreate(q)
         /\ OneCreate(q) => OneCreate(Tail(q))
         /\ HasGiven(Tail(q)) => HasGiven(q)
         /\ OneCreate(q) /\ IsCreate(Head(q)) => ~HasCreate(Tail(q)) /\ HasCreate(q)
         /\ FromRecorder(Head(q)) => HasGiven(q)
<1> DEFINE a == <<Head(q)>>
<1>1. a \in Seq(Entry) /\ Tail(q) \in Seq(Entry) /\ q = a \o Tail(q) /\ Len(a) = 1 /\ a[1] = Head(q)
  OBVIOUS
<1>2. 1 \in 1..Len(q) /\ q[1] = Head(q) /\ 1 \in 1..Len(a)
  BY <1>1
<1> HIDE DEF a
<1>3. IsCreate(Head(q)) => HasCreate(a) /\ HasCreate(q)
  BY <1>1, <1>2 DEF HasCreate
<1>4. FromRecorder(Head(q)) => HasGiven(q)
  BY <1>2 DEF HasGiven
<1> QED BY <1>1, <1>3, <1>4, GoneFirst

\* A message heard is one less ...
LEMMA MessageFirst ==
  ASSUME NEW s \in Seq(Message), s # <<>>
  PROVE  /\ HeaderTold(Tail(s)) => HeaderTold(s)
         /\ HeadTold(Tail(s)) => HeadTold(s)
         /\ Head(s).type = "header" /\ Head(s).run = Live => HeaderTold(s)
         /\ Head(s).type = "persisted" => HeadTold(s)
<1>1. Len(Tail(s)) + 1 = Len(s) /\ Len(Tail(s)) \in Nat /\ \A i \in 1..Len(Tail(s)) : i + 1 \in 1..Len(s) /\ Tail(s)[i] = s[i + 1]
  OBVIOUS
<1>2. 1 \in 1..Len(s) /\ s[1] = Head(s)
  OBVIOUS
<1> QED BY <1>1, <1>2 DEF HeaderTold, HeadTold

\* ... one told is one more ...
LEMMA MessageLast ==
  ASSUME NEW s \in Seq(Message), NEW m \in Message, NEW t, t = Append(s, m)
  PROVE  /\ t \in Seq(Message)
         /\ HeaderTold(t) => HeaderTold(s) \/ (m.type = "header" /\ m.run = Live)
         /\ HeadTold(t) => HeadTold(s) \/ m.type = "persisted"
<1>1. /\ t \in Seq(Message) /\ Len(t) = Len(s) + 1 /\ Len(s) \in Nat /\ t[Len(s) + 1] = m
      /\ \A i \in 1..Len(s) : t[i] = s[i]
  BY AppendedOne
<1>2. \A i \in 1..Len(t) : (i \in 1..Len(s) /\ t[i] = s[i]) \/ (i = Len(s) + 1 /\ t[i] = m)
  BY <1>1
<1> QED BY <1>1, <1>2 DEF HeaderTold, HeadTold

\* ... or several.
LEMMA MessagesLast ==
  ASSUME NEW s \in Seq(Message), NEW a \in Seq(Message), NEW t, t = s \o a
  PROVE  /\ t \in Seq(Message)
         /\ HeaderTold(t) => HeaderTold(s) \/ HeaderTold(a)
         /\ HeadTold(t) => HeadTold(s) \/ HeadTold(a)
<1>1. /\ t \in Seq(Message) /\ Len(t) = Len(s) + Len(a) /\ Len(s) \in Nat /\ Len(a) \in Nat
      /\ \A i \in 1..Len(s) : t[i] = s[i]
      /\ \A i \in 1..Len(a) : t[Len(s) + i] = a[i]
  OBVIOUS
<1>2. \A i \in 1..Len(t) : (i \in 1..Len(s) /\ t[i] = s[i]) \/ \E j \in 1..Len(a) : t[i] = a[j]
  <2> SUFFICES ASSUME NEW i \in 1..Len(t), ~(i \in 1..Len(s)) PROVE \E j \in 1..Len(a) : t[i] = a[j]
    BY <1>1
  <2>1. i - Len(s) \in 1..Len(a) /\ Len(s) + (i - Len(s)) = i
    BY <1>1
  <2> QED BY <1>1, <2>1
<1> QED BY <1>1, <1>2 DEF HeaderTold, HeadTold

\* A refusal is neither a header nor a head.
LEMMA RejectedsSayLittle ==
  ASSUME NEW a \in Rejecteds
  PROVE  a \in Seq(Message) /\ ~HeaderTold(a) /\ ~HeadTold(a)
<1> DEFINE C == [type : {"rejected"}]
<1>1. \A i \in 1..Len(a) : a[i].type = "rejected"
  <2>1. a \in Seq(C) /\ \A m \in C : m.type = "rejected"
    BY DEF Rejecteds
  <2> HIDE DEF C
  <2> QED BY <2>1
<1> QED BY <1>1, RejectedsAreMessages DEF HeaderTold, HeadTold

\* The steps of the run keep the base invariant ...
LEMMA RunBase ==
  ASSUME Base, RunSteps
  PROVE  Base'
<1>1. TypeOK /\ SimOK(sim) /\ HeaderInv /\ toStorage \in Seq(Handed) /\ toSim \in Seq(Message)
  BY DEF Base, TypeOK
<1>2. UNCHANGED <<main, worker, db, refused>>
  BY DEF RunSteps, RunGoesOn, RunHands, RunAcks
<1>3. /\ SimOK(sim') /\ toStorage' \in Seq(Handed)
      /\ (sim'.recorder.header => sim.recorder.header \/ HeaderTold(toSim))
      /\ (toStorage' # <<>> => toStorage # <<>> \/ sim'.recorder.header)
      /\ (sim.recorder.header => sim'.recorder.header)
  <2>1. CASE RunGoesOn
    BY <1>1, <2>1, RestsOK DEF RunGoesOn, GoesOn, Rests, Alike
  <2>2. CASE RunHands
    <3>1. PICK out : Hands(sim, sim', out) /\ toStorage' = toStorage \o out
      BY <2>2 DEF RunHands, HandsOver
    <3>2. out \in Seq(Handed) /\ SimOK(sim') /\ sim'.recorder.header
      BY <3>1, HandsType DEF Hands
    <3>3. sim.recorder.header \/ HeaderTold(toSim)
      BY <1>1, <2>2, MessageFirst DEF RunHands, Hearing
    <3> QED BY <1>1, <3>1, <3>2, <3>3
  <2>3. CASE RunAcks
    BY <1>1, <2>3 DEF RunAcks, Acks
  <2> QED BY <2>1, <2>2, <2>3 DEF RunSteps
<1>4. toSim' = toSim \/ Hearing
  BY DEF RunSteps, RunGoesOn, RunHands, RunAcks
<1>5. toSim' \in Seq(Message) /\ (HeaderTold(toSim') => HeaderTold(toSim)) /\ (HeadTold(toSim') => HeadTold(toSim))
  <2>1. CASE Hearing
    <3>1. toSim # <<>> /\ toSim' = Tail(toSim) /\ Tail(toSim) \in Seq(Message)
      BY <1>1, <2>1 DEF Hearing
    <3>2. (HeaderTold(Tail(toSim)) => HeaderTold(toSim)) /\ (HeadTold(Tail(toSim)) => HeadTold(toSim))
      BY <1>1, <3>1, MessageFirst
    <3> QED BY <3>1, <3>2
  <2>2. CASE toSim' = toSim
    BY <1>1, <2>2
  <2> QED BY <1>4, <2>1, <2>2
<1>6. TypeOK'
  BY <1>1, <1>2, <1>3, <1>5 DEF TypeOK, SimOK
<1>7. HeaderInv'
  BY <1>1, <1>2, <1>3, <1>5 DEF HeaderInv
<1> QED BY <1>3, <1>6, <1>7 DEF Base

\* ... those of the queues ...
LEMMA QueueBase ==
  ASSUME Base, QueueSteps
  PROVE  Base'
<1>1. /\ TypeOK /\ SimOK(sim) /\ HeaderInv /\ toStorage \in Seq(Handed) /\ toSim \in Seq(Message)
      /\ worker.queue \in Seq(Entry) /\ worker.held \in Seq(Handed)
      /\ worker.at \in {"idle", "draining", "serving"}
  BY DEF Base, TypeOK, WorkerState
<1>2. ASSUME toSim' = toSim \/ \E m \in Message : m.type = "quota" /\ toSim' = Append(toSim, m)
      PROVE  toSim' \in Seq(Message) /\ (HeaderTold(toSim') => HeaderTold(toSim)) /\ (HeadTold(toSim') => HeadTold(toSim))
  BY <1>1, <1>2, MessageLast
<1>3. CASE Quietly
  <2>1. Worker(worker') /\ worker'.queue = worker.queue /\ worker'.held = worker.held /\ worker'.open = worker.open
        /\ (worker'.at \in {worker.at, "idle"} \/ worker'.open)
    BY <1>3 DEF Quietly, Quiet
  <2>2. /\ main' \in MainState /\ main'.header = main.header /\ (~Resims => main'.resim = main.resim)
        /\ UNCHANGED <<sim, toStorage, db, refused>>
    BY <1>3 DEF Quietly
  <2>3. toSim' \in Seq(Message) /\ (HeaderTold(toSim') => HeaderTold(toSim)) /\ (HeadTold(toSim') => HeadTold(toSim))
    BY <1>2, <1>3 DEF Quietly
  <2>4. TypeOK'
    BY <1>1, <2>1, <2>2, <2>3 DEF TypeOK, Worker
  <2>5. HeaderInv'
    BY <1>1, <2>1, <2>2, <2>3 DEF HeaderInv
  <2> QED BY <1>1, <2>2, <2>4, <2>5 DEF Base
<1>4. CASE Asked
  <2>1. PICK e \in Request :
       /\ Takes(e)
       /\ IsCreate(e) => ~main.header /\ main'.header
       /\ ~IsCreate(e) => main'.header = main.header
    BY <1>4 DEF Asked
  <2>2. main' \in MainState /\ (~Resims => main'.resim = main.resim) /\ UNCHANGED <<sim, toStorage, db, toSim, refused>>
    BY <1>4 DEF Asked
  <2>3. /\ Worker(worker') /\ worker'.queue = Append(worker.queue, e) /\ worker'.held = worker.held
        /\ worker'.open = worker.open /\ (worker'.at = worker.at \/ worker'.open)
    BY <2>1 DEF Takes
  <2>4. e \in Entry /\ ~FromRecorder(e)
    BY DEF Entry, Request, FromRecorder
  <2>5. /\ HasCreate(worker'.queue) => HasCreate(worker.queue) \/ IsCreate(e)
        /\ OneCreate(worker.queue) /\ (IsCreate(e) => ~HasCreate(worker.queue)) => OneCreate(worker'.queue)
        /\ HasGiven(worker'.queue) => HasGiven(worker.queue) \/ FromRecorder(e)
    BY <1>1, <2>3, <2>4, JoinsLast
  <2>6. TypeOK'
    BY <1>1, <2>2, <2>3 DEF TypeOK, Worker
  <2>7. HeaderInv'
    BY <1>1, <2>1, <2>2, <2>3, <2>4, <2>5 DEF HeaderInv
  <2> QED BY <1>1, <2>2, <2>6, <2>7 DEF Base
<1>5. CASE Delivered
  <2>1. /\ toStorage # <<>> /\ toStorage' = Tail(toStorage) /\ UNCHANGED <<sim, main, db, toSim, refused>>
        /\ toStorage' \in Seq(Handed)
    BY <1>1, <1>5 DEF Delivered
  <2>2. CASE ~worker.open
    <3>1. worker' = worker
      BY <1>5, <2>2 DEF Delivered
    <3>2. TypeOK'
      BY <1>1, <2>1, <3>1 DEF TypeOK
    <3>3. HeaderInv'
      BY <1>1, <2>1, <3>1 DEF HeaderInv
    <3> QED BY <1>1, <2>1, <3>2, <3>3 DEF Base
  <2>3. CASE worker.open
    <3> DEFINE e == Head(toStorage)
    <3>1. e \in Handed
      BY <1>1, <2>1
    <3>2. Takes(e)
      BY <1>5, <2>3 DEF Delivered
    <3> HIDE DEF e
    <3>3. /\ Worker(worker') /\ worker'.queue = Append(worker.queue, e) /\ worker'.held = worker.held
          /\ worker'.open = worker.open /\ (worker'.at = worker.at \/ worker'.open)
      BY <3>2 DEF Takes
    <3>4. e \in Entry /\ ~IsCreate(e)
      BY <3>1 DEF Entry, Handed, Item, BatchEntry, IsCreate
    <3>5. /\ HasCreate(worker'.queue) => HasCreate(worker.queue) \/ IsCreate(e)
          /\ OneCreate(worker.queue) /\ (IsCreate(e) => ~HasCreate(worker.queue)) => OneCreate(worker'.queue)
      BY <1>1, <3>3, <3>4, JoinsLast
    <3>6. TypeOK'
      BY <1>1, <2>1, <3>3 DEF TypeOK, Worker
    <3>7. HeaderInv'
      BY <1>1, <2>1, <2>3, <3>3, <3>4, <3>5 DEF HeaderInv
    <3> QED BY <1>1, <2>1, <3>6, <3>7 DEF Base
  <2> QED BY <2>2, <2>3
<1>6. CASE HoldsOne
  <2>1. /\ Worker(worker') /\ worker.queue # <<>> /\ FromRecorder(Head(worker.queue))
        /\ worker'.queue = Tail(worker.queue) /\ worker'.held = Append(worker.held, Head(worker.queue))
        /\ worker'.open = worker.open /\ worker'.at = worker.at
        /\ UNCHANGED <<sim, toStorage, main, db, toSim, refused>>
    BY <1>6 DEF HoldsOne
  <2>2. /\ HasCreate(worker'.queue) => HasCreate(worker.queue)
        /\ OneCreate(worker.queue) => OneCreate(worker'.queue)
        /\ HasGiven(worker.queue)
    BY <1>1, <2>1, ServedFirst
  <2>3. TypeOK'
    BY <1>1, <2>1 DEF TypeOK, Worker
  <2>4. HeaderInv'
    BY <1>1, <2>1, <2>2 DEF HeaderInv
  <2> QED BY <1>1, <2>1, <2>3, <2>4 DEF Base
<1>7. CASE GivesBack
  <2>1. /\ Worker(worker') /\ worker'.queue = worker.held \o worker.queue /\ worker'.held = <<>>
        /\ worker'.open = worker.open /\ (worker'.at = worker.at \/ worker'.open)
        /\ UNCHANGED <<sim, toStorage, main, db, refused>>
    BY <1>7 DEF GivesBack, Returns, HeldAgain
  <2>2. toSim' \in Seq(Message) /\ (HeaderTold(toSim') => HeaderTold(toSim)) /\ (HeadTold(toSim') => HeadTold(toSim))
    BY <1>2, <1>7 DEF GivesBack
  <2>3. worker.held \in Seq(Entry)
    BY <1>1, Wider DEF Entry
  <2>4. /\ HasCreate(worker'.queue) => HasCreate(worker.queue)
        /\ OneCreate(worker.queue) => OneCreate(worker'.queue)
        /\ HasGiven(worker'.queue) => HasGiven(worker.queue) \/ worker.held # <<>>
    BY <1>1, <2>1, <2>3, GoneFirst, ZenonT(30)
  <2>5. TypeOK'
    BY <1>1, <2>1, <2>2 DEF TypeOK, Worker
  <2>6. HeaderInv'
    BY <1>1, <2>1, <2>2, <2>4 DEF HeaderInv
  <2> QED BY <1>1, <2>1, <2>5, <2>6 DEF Base
<1> QED BY <1>3, <1>4, <1>5, <1>6, <1>7 DEF QueueSteps

\* What a transaction tells: nothing of a header, and of a head if a batch is saved.
LEMMA CommitTells ==
  ASSUME Base, NEW run, NEW rest, NEW fault, NEW results, Commits(run, rest, fault, results)
  PROVE  /\ toSim' \in Seq(Message) /\ (HeaderTold(toSim') => HeaderTold(toSim))
         /\ (HeadTold(toSim') => HeadTold(toSim) \/ SavedBatches(run, results) # {})
<1>0. toSim \in Seq(Message) /\ worker'.head \in HeadRecord
  BY DEF Base, TypeOK, Commits, Worker, WorkerState
<1> DEFINE m == IF SavedBatches(run, results) = {} THEN <<>> ELSE <<Persisted(worker'.head)>>
<1>1. PICK a, b \in Rejecteds : toSim' = toSim \o a \o m \o b
  BY DEF Commits
<1>2. m \in Seq(Message) /\ ~HeaderTold(m) /\ (HeadTold(m) => SavedBatches(run, results) # {})
  <2>1. CASE SavedBatches(run, results) = {}
    BY <2>1 DEF HeaderTold, HeadTold
  <2>2. CASE SavedBatches(run, results) # {}
    <3>1. Persisted(worker'.head) \in Message /\ Persisted(worker'.head).type # "header"
      BY <1>0 DEF Persisted, Message
    <3>2. m = <<Persisted(worker'.head)>>
      BY <2>2
    <3> QED BY <2>2, <3>1, <3>2 DEF HeaderTold
  <2> QED BY <2>1, <2>2
<1> HIDE DEF m
<1>3. a \in Seq(Message) /\ ~HeaderTold(a) /\ ~HeadTold(a) /\ b \in Seq(Message) /\ ~HeaderTold(b) /\ ~HeadTold(b)
  BY RejectedsSayLittle
<1> DEFINE s == toSim \o a
           t == s \o m
<1>4. s \in Seq(Message) /\ (HeaderTold(s) => HeaderTold(toSim)) /\ (HeadTold(s) => HeadTold(toSim))
  BY <1>0, <1>3, MessagesLast
<1> HIDE DEF s
<1>5. t \in Seq(Message) /\ (HeaderTold(t) => HeaderTold(s)) /\ (HeadTold(t) => HeadTold(s) \/ HeadTold(m))
  BY <1>2, <1>4, MessagesLast
<1>6. toSim' = t \o b
  BY <1>1 DEF s
<1> HIDE DEF t
<1>7. toSim' \in Seq(Message) /\ (HeaderTold(toSim') => HeaderTold(t)) /\ (HeadTold(toSim') => HeadTold(t))
  BY <1>3, <1>5, <1>6, MessagesLast
<1> QED BY <1>2, <1>4, <1>5, <1>7

\* ... the transactions ...
LEMMA CommitBase ==
  ASSUME Base, CommitsSome
  PROVE  Base'
<1>1. /\ TypeOK /\ SimOK(sim) /\ HeaderInv /\ toSim \in Seq(Message) /\ worker.queue \in Seq(Entry)
      /\ refused \subseteq Handed
  BY DEF Base, TypeOK, WorkerState
<1>2. PICK run, rest, fault, results : Commits(run, rest, fault, results)
  BY DEF CommitsSome
<1>3. /\ run \in Seq(Entry) /\ rest \in Seq(Entry) /\ run # <<>> /\ worker.queue = run \o rest
      /\ Worker(worker') /\ worker'.queue = rest /\ worker'.held = worker.held /\ worker'.head \in HeadRecord
      /\ worker'.open = worker.open /\ worker'.at = worker.at /\ db' \in DbState
      /\ refused' = refused \cup RefusedOf(run, results) /\ RefusedOf(run, results) \subseteq Handed
      /\ UNCHANGED <<sim, toStorage, main>>
  BY <1>2, SMTT(30) DEF Commits, CommitsSome, Worker, WorkerState
<1>4. /\ HasCreate(worker'.queue) => HasCreate(worker.queue)
      /\ OneCreate(worker.queue) => OneCreate(worker'.queue)
      /\ HasGiven(worker'.queue) => HasGiven(worker.queue)
  BY <1>3, GoneFirst, ZenonT(30)
<1>5. ASSUME NEW i \in 1..Len(run), FromRecorder(run[i]) PROVE HasGiven(worker.queue)
  <2>1. i \in 1..Len(worker.queue) /\ worker.queue[i] = run[i]
    BY <1>3
  <2> QED BY <1>5, <2>1 DEF HasGiven
<1>6. RefusedOf(run, results) # {} => HasGiven(worker.queue)
  <2>1. DOMAIN run = 1..Len(run)
    BY <1>3
  <2> QED BY <1>5, <2>1 DEF RefusedOf
<1>7. SavedBatches(run, results) # {} => HasGiven(worker.queue)
  <2>1. DOMAIN run = 1..Len(run)
    BY <1>3
  <2> QED BY <1>5, <2>1 DEF SavedBatches, IsBatch
<1>8. toSim' \in Seq(Message) /\ (HeaderTold(toSim') => HeaderTold(toSim))
      /\ (HeadTold(toSim') => HeadTold(toSim) \/ SavedBatches(run, results) # {})
  BY <1>2, CommitTells
<1>9. TypeOK'
  BY <1>1, <1>3, <1>8 DEF TypeOK, Worker
<1>10. HeaderInv'
  BY <1>1, <1>3, <1>4, <1>6, <1>7, <1>8 DEF HeaderInv
<1> QED BY <1>1, <1>3, <1>9, <1>10 DEF Base

\* ... the requests ...
LEMMA ServingBase ==
  ASSUME Base, Creates \/ Deletes \/ TakesTime
  PROVE  Base'
<1>1. /\ TypeOK /\ SimOK(sim) /\ HeaderInv /\ toSim \in Seq(Message) /\ worker.queue \in Seq(Entry)
  BY DEF Base, TypeOK, WorkerState
<1>2. PICK op : Serving(op)
  BY DEF Creates, Deletes, TakesTime
<1>3. /\ Worker(worker') /\ worker.queue # <<>> /\ Head(worker.queue).op = op
      /\ worker'.queue = Tail(worker.queue) /\ worker'.held = worker.held /\ worker'.open = worker.open
      /\ worker.at = "draining" /\ worker.open
  BY <1>1, <1>2 DEF Serving, HeaderInv
<1>4. /\ HasCreate(worker'.queue) => HasCreate(worker.queue)
      /\ OneCreate(worker.queue) => OneCreate(worker'.queue)
      /\ HasGiven(worker'.queue) => HasGiven(worker.queue)
      /\ OneCreate(worker.queue) /\ IsCreate(Head(worker.queue)) => ~HasCreate(worker'.queue) /\ HasCreate(worker.queue)
  BY <1>1, <1>3, ServedFirst
<1>5. UNCHANGED <<sim, toStorage, main, refused>> /\ db' \in DbState
  BY <1>1 DEF Creates, Deletes, TakesTime, TypeOK
<1>6. toSim' \in Seq(Message) /\ (HeadTold(toSim') => HeadTold(toSim))
      /\ (HeaderTold(toSim') => HeaderTold(toSim) \/ IsCreate(Head(worker.queue)))
  <2>1. CASE Creates
    <3> DEFINE m == [type |-> "header", run |-> Head(worker.queue).run]
    <3>1. m \in Message /\ toSim' = Append(toSim, m) /\ m.type = "header" /\ m.run = Head(worker.queue).run
          /\ Head(worker.queue).op = "create"
      BY <2>1 DEF Creates, Serving
    <3> HIDE DEF m
    <3> QED BY <1>1, <3>1, MessageLast DEF IsCreate
  <2>2. CASE Deletes \/ TakesTime
    BY <1>1, <2>2 DEF Deletes, TakesTime
  <2> QED BY <2>1, <2>2
<1>7. TypeOK'
  BY <1>1, <1>3, <1>5, <1>6 DEF TypeOK, Worker
<1>8. HeaderInv'
  BY <1>1, <1>3, <1>4, <1>5, <1>6 DEF HeaderInv
<1> QED BY <1>1, <1>5, <1>7, <1>8 DEF Base

\* ... the closing ...
LEMMA CloseBase ==
  ASSUME Base, Closes
  PROVE  Base'
<1>1. /\ TypeOK /\ SimOK(sim) /\ HeaderInv /\ toSim \in Seq(Message) /\ worker.queue \in Seq(Entry)
  BY DEF Base, TypeOK, WorkerState
<1>2. /\ Worker(worker') /\ worker'.queue = <<>> /\ worker'.held = worker.held /\ ~worker'.open /\ worker'.at = "idle"
      /\ refused' \subseteq Handed
      /\ \A e \in refused' : e \in refused \/ \E i \in DOMAIN worker.queue : worker.queue[i] = e /\ FromRecorder(e)
      /\ UNCHANGED <<sim, toStorage, main, db>>
  BY DEF Closes
<1>3. PICK told \in Rejecteds : toSim' = toSim \o told
  BY DEF Closes
<1>4. toSim' \in Seq(Message) /\ (HeaderTold(toSim') => HeaderTold(toSim)) /\ (HeadTold(toSim') => HeadTold(toSim))
  BY <1>1, <1>3, RejectedsSayLittle, MessagesLast
<1>5. refused' # {} => refused # {} \/ HasGiven(worker.queue)
  <2>1. DOMAIN worker.queue = 1..Len(worker.queue)
    BY <1>1
  <2> QED BY <1>2, <2>1 DEF HasGiven
<1>6. ~HasCreate(worker'.queue) /\ ~HasGiven(worker'.queue) /\ OneCreate(worker'.queue)
  BY <1>2 DEF HasCreate, HasGiven, OneCreate
<1>7. TypeOK'
  BY <1>1, <1>2, <1>4 DEF TypeOK, Worker
<1>8. HeaderInv'
  BY <1>1, <1>2, <1>4, <1>5, <1>6 DEF HeaderInv
<1> QED BY <1>1, <1>2, <1>7, <1>8 DEF Base

\* ... and so does every step.
LEMMA BaseSteps ==
  ASSUME Base, [Next]_vars
  PROVE  Base'
BY StepKinds, RunBase, QueueBase, CommitBase, ServingBase, CloseBase DEF ServingSteps

\* The recording starts with it.
LEMMA BaseStarts ==
  ASSUME Init
  PROVE  Base
<1>1. SimOK(sim) /\ ~sim.recorder.header
  BY InitialSimOK DEF Init
<1>2. TypeOK
  BY <1>1 DEF Init, StorageInit, InitialWorker, EmptyDb, TypeOK, SimOK, MainState, WorkerState, DbState, HeadRecord, Message
<1>3. HeaderInv
  BY <1>1 DEF Init, StorageInit, InitialWorker, HeaderInv, HasCreate, HasGiven, OneCreate, HeaderTold, HeadTold
<1> QED BY <1>1, <1>2, <1>3 DEF Base

\* What the variables of the two workers and of the channels between them hold, in
\* every run: whatever fails, whatever else is asked, with or without re-simulation.
THEOREM RecordingTypeOK == Spec => []TypeOK
<1>1. Init => Base
  BY BaseStarts
<1>2. Base /\ [Next]_vars => Base'
  BY BaseSteps
<1>3. Base => TypeOK
  BY DEF Base
<1> QED BY <1>1, <1>2, <1>3, PTL DEF Spec

(***************************************************************************)
(* Once a batch was refused, the head stays where it is. A transaction is  *)
(* taken to succeed as a whole: of an error that undoes it, with later     *)
(* batches accepted, the property says nothing good (see the run           *)
(* recording_faults).                                                      *)
(***************************************************************************)
BatchRefused(S) == \E e \in S : IsBatch(e)
NoRunLeft == BatchRefused(refused) => Live \notin db.runs \/ ~worker.open

HeadInv == Base /\ NoRunLeft

\* A transaction refuses a batch only of a run that is not there, and then no other moves the head.
LEMMA CommitRefuses ==
  ASSUME Base, "commit" \notin Faults, NEW run, NEW rest, NEW fault, NEW results, Commits(run, rest, fault, results)
  PROVE  /\ BatchRefused(refused') => BatchRefused(refused) \/ Live \notin db.runs
         /\ Live \notin db.runs => worker'.head = worker.head
         /\ db'.runs = db.runs /\ worker'.open = worker.open /\ worker.at = "draining"
<1>1. /\ fault # "commit" /\ run \in Seq(Entry) /\ db \in DbState /\ DOMAIN run = 1..Len(run)
      /\ Transaction(run, fault) = [db |-> db', results |-> results]
      /\ refused' = refused \cup RefusedOf(run, results)
  BY DEF Commits, Base, TypeOK
<1>2. \A i \in 1..Len(run) : IsBatch(run[i]) => (results[i] <=> Live \in db.runs)
  <2> DEFINE tx == [db |-> db', results |-> results]
  <2>1. tx.results = results /\ tx = Transaction(run, fault)
    BY <1>1
  <2> HIDE DEF tx
  <2> QED BY <1>1, <2>1, BatchResults
<1>3. ASSUME BatchRefused(refused') PROVE BatchRefused(refused) \/ Live \notin db.runs
  <2>1. PICK e \in refused' : IsBatch(e)
    BY <1>3 DEF BatchRefused
  <2>2. CASE e \in refused
    BY <2>1, <2>2 DEF BatchRefused
  <2>3. CASE e \in RefusedOf(run, results)
    <3>1. PICK i \in 1..Len(run) : e = run[i] /\ ~results[i]
      BY <1>1, <2>3 DEF RefusedOf
    <3> QED BY <1>2, <2>1, <3>1
  <2> QED BY <1>1, <2>1, <2>2, <2>3
<1>4. ASSUME Live \notin db.runs PROVE worker'.head = worker.head
  <2>1. SavedBatches(run, results) = {}
    <3> SUFFICES ASSUME NEW i \in SavedBatches(run, results) PROVE FALSE
      OBVIOUS
    <3>1. i \in 1..Len(run) /\ IsBatch(run[i]) /\ \A j \in 1..i : IsBatch(run[j]) => results[j]
      BY <1>1 DEF SavedBatches
    <3>2. i \in 1..i
      BY <3>1
    <3> QED BY <1>2, <1>4, <3>1, <3>2
  <2> QED BY <2>1 DEF Commits
<1> QED BY <1>3, <1>4 DEF Commits

\* Where the runs and the head of the storage worker may change.
LEMMA RunsStay ==
  ASSUME Base, [Next]_vars, "commit" \notin Faults
  PROVE  /\ NoRunLeft => NoRunLeft'
         /\ NoRunLeft /\ BatchRefused(refused) => worker'.head = worker.head
<1>1. CASE RunSteps
  BY <1>1 DEF RunSteps, RunGoesOn, RunHands, RunAcks, NoRunLeft
<1>2. CASE QueueSteps
  <2>1. worker'.head = worker.head /\ worker'.open = worker.open /\ UNCHANGED <<db, refused>>
    BY <1>2 DEF QueueSteps, Quietly, Quiet, Asked, Takes, Delivered, HoldsOne, GivesBack, Returns
  <2> QED BY <2>1 DEF NoRunLeft
<1>3. CASE CommitsSome
  <2>1. PICK run, rest, fault, results : Commits(run, rest, fault, results)
    BY <1>3 DEF CommitsSome
  <2>2. /\ BatchRefused(refused') => BatchRefused(refused) \/ Live \notin db.runs
        /\ Live \notin db.runs => worker'.head = worker.head
        /\ db'.runs = db.runs /\ worker'.open = worker.open /\ worker.at = "draining"
    BY <2>1, CommitRefuses
  <2>3. worker.open
    BY <2>2 DEF Base, HeaderInv
  <2> QED BY <2>2, <2>3 DEF NoRunLeft
<1>4. CASE Creates
  <2>1. /\ db'.runs = db.runs \cup {Head(worker.queue).run} /\ worker'.head = worker.head /\ worker'.open = worker.open
        /\ UNCHANGED refused /\ worker.queue # <<>> /\ Head(worker.queue).op = "create"
        /\ worker.queue \in Seq(Entry)
    BY <1>4 DEF Creates, Serving, Base, TypeOK, WorkerState
  <2>2. BatchRefused(refused) => ~IsCreate(Head(worker.queue))
    <3>1. IsCreate(Head(worker.queue)) => HasCreate(worker.queue)
      <4>1. 1 \in 1..Len(worker.queue) /\ worker.queue[1] = Head(worker.queue)
        BY <2>1
      <4> QED BY <4>1 DEF HasCreate
    <3>2. BatchRefused(refused) => sim.recorder.header
      BY DEF BatchRefused, Base, HeaderInv
    <3> QED BY <3>1, <3>2 DEF Base, HeaderInv
  <2>3. BatchRefused(refused) => (Live \in db'.runs => Live \in db.runs)
    BY <2>1, <2>2 DEF IsCreate
  <2> QED BY <2>1, <2>3 DEF NoRunLeft
<1>5. CASE Deletes \/ TakesTime
  BY <1>5 DEF Deletes, TakesTime, Serving, NoRunLeft
<1>6. CASE Closes
  BY <1>6 DEF Closes, NoRunLeft
<1> QED BY <1>1, <1>2, <1>3, <1>4, <1>5, <1>6, StepKinds DEF ServingSteps

\* Once a batch of the run was refused, the head that is announced never moves again: a
\* record that is missing from the run is never papered over by a later batch. Whatever
\* else is asked of the storage worker, and whatever is re-simulated: the run cannot come
\* back, since its header is stored once, before anything is handed over.
THEOREM RecordingStopsAtTheRefused == "commit" \notin Faults /\ Spec => RefusedBatchStopsTheHead
<1> SUFFICES ASSUME "commit" \notin Faults PROVE Spec => RefusedBatchStopsTheHead
  OBVIOUS
<1> DEFINE Stays == (\E e \in refused : IsBatch(e)) => worker'.head = worker.head
<1>1. Init => HeadInv
  BY BaseStarts DEF HeadInv, NoRunLeft, BatchRefused, Init, StorageInit
<1>2. HeadInv /\ [Next]_vars => HeadInv'
  BY BaseSteps, RunsStay DEF HeadInv
<1>3. HeadInv /\ [Next]_vars => [Stays]_vars
  BY RunsStay DEF HeadInv, BatchRefused
<1> HIDE DEF Stays
<1>4. Spec => [][Stays]_vars
  BY <1>1, <1>2, <1>3, PTL DEF Spec
<1> QED BY <1>4 DEF RefusedBatchStopsTheHead, Stays

(***************************************************************************)
(* What is on its way: held for the quota, in the queue, and not yet read  *)
(* by the storage worker.                                                  *)
(***************************************************************************)
Given(q) == Only(q, Handed)
Way      == worker.held \o Given(worker.queue) \o toStorage

\* What the recorder handed over, out of a queue, in order ...
LEMMA GivenType ==
  ASSUME NEW q \in Seq(Entry) PROVE Given(q) \in Seq(Handed)
BY OnlyType DEF Given

\* ... with an entry more ...
LEMMA GivenAppend ==
  ASSUME NEW q \in Seq(Entry), NEW e \in Entry
  PROVE  /\ FromRecorder(e) => Given(Append(q, e)) = Append(Given(q), e)
         /\ ~FromRecorder(e) => Given(Append(q, e)) = Given(q)
<1>1. FromRecorder(e) <=> e \in Handed
  BY EntryKinds
<1>2. ASSUME e \in Handed PROVE Given(Append(q, e)) = Append(Given(q), e)
  BY <1>2, OnlyAppend DEF Given
<1>3. ASSUME e \notin Handed PROVE Given(Append(q, e)) = Given(q)
  BY <1>3, OnlyAppend DEF Given
<1> QED BY <1>1, <1>2, <1>3

\* ... of two queues ...
LEMMA GivenBoth ==
  ASSUME NEW a \in Seq(Entry), NEW q \in Seq(Entry)
  PROVE  Given(a \o q) = Given(a) \o Given(q)
<1>1. \A D : a \in Seq(D) /\ q \in Seq(D) => \A K : Only(a \o q, K) = Only(a, K) \o Only(q, K)
  <2> TAKE D
  <2> HAVE a \in Seq(D) /\ q \in Seq(D)
  <2> QED BY OnlyConcat
<1>2. Only(a \o q, Handed) = Only(a, Handed) \o Only(q, Handed)
  BY <1>1, Zenon
<1> QED BY <1>2, Zenon DEF Given

\* ... with what was held in front ...
LEMMA GivenConcat ==
  ASSUME NEW a \in Seq(Handed), NEW q \in Seq(Entry)
  PROVE  Given(a \o q) = a \o Given(q)
<1>1. a \in Seq(Entry)
  BY Wider DEF Entry
<1>2. Given(a \o q) = Given(a) \o Given(q)
  BY <1>1, GivenBoth
<1>3. Given(a) = a
  BY OnlyAll DEF Given
<1> QED BY <1>2, <1>3

\* ... with the first entry taken.
LEMMA GivenFirst ==
  ASSUME NEW q \in Seq(Entry), q # <<>>
  PROVE  /\ FromRecorder(Head(q)) => Given(q) = <<Head(q)>> \o Given(Tail(q))
         /\ ~FromRecorder(Head(q)) => Given(q) = Given(Tail(q))
<1> DEFINE e == Head(q)
           a == <<e>>
           t == Tail(q)
<1>1. e \in Entry /\ a \in Seq(Entry) /\ t \in Seq(Entry) /\ q = a \o t
  OBVIOUS
<1>2. FromRecorder(e) <=> e \in Handed
  BY <1>1, EntryKinds
<1>3. ASSUME e \in Handed PROVE Given(q) = a \o Given(t)
  <2>1. a \in Seq(Handed)
    BY <1>3
  <2> HIDE DEF a, t
  <2> QED BY <1>1, <2>1, GivenConcat
<1>4. ASSUME e \notin Handed PROVE Given(q) = Given(t)
  <2>1. <<>> \in Seq(Entry) /\ a = Append(<<>>, e)
    OBVIOUS
  <2>2. Given(a) = <<>>
    <3> HIDE DEF a, e
    <3>1. Given(<<>>) = <<>> /\ ~FromRecorder(e)
      BY <1>2, <1>4, OnlyEmpty DEF Given
    <3> QED BY <1>1, <2>1, <3>1, GivenAppend
  <2> HIDE DEF a, t
  <2>3. Given(q) = Given(a) \o Given(t)
    <3>1. Given(a \o t) = Given(a) \o Given(t)
      BY <1>1, GivenBoth
    <3> QED BY <1>1, <3>1
  <2>4. Given(t) \in Seq(Handed)
    BY <1>1, GivenType
  <2> QED BY <2>2, <2>3, <2>4
<1> QED BY <1>2, <1>3, <1>4

\* With nothing re-simulated, deleted or imported: what waits behind or before the entries
\* of the recorder is not committed with them.
PlainEntry(e) == FromRecorder(e) \/ e.op \in {"create", "slow", "close"}
WorkerInv ==
  /\ \A i \in 1..Len(worker.queue) : PlainEntry(worker.queue[i])
  /\ ~worker.full => worker.held = <<>>
RunsInv == HeaderTold(toSim) \/ sim.recorder.header => Live \in db.runs

Undisturbed == ~Resims /\ "import" \notin Requests

\* Of two sequences in a row, every entry is one of either.
LEMMA ComesFromOne ==
  ASSUME NEW a \in Seq(Entry), NEW q \in Seq(Entry), NEW p, p = a \o q
  PROVE  \A i \in 1..Len(p) : \/ i \in 1..Len(a) /\ p[i] = a[i]
                              \/ \E j \in 1..Len(q) : p[i] = q[j]
<1>1. /\ Len(p) = Len(a) + Len(q) /\ Len(a) \in Nat /\ Len(q) \in Nat
      /\ \A i \in 1..Len(a) : p[i] = a[i]
      /\ \A i \in 1..Len(q) : p[Len(a) + i] = q[i]
  OBVIOUS
<1> SUFFICES ASSUME NEW i \in 1..Len(p), ~(i \in 1..Len(a)) PROVE \E j \in 1..Len(q) : p[i] = q[j]
  BY <1>1
<1>2. i - Len(a) \in 1..Len(q) /\ Len(a) + (i - Len(a)) = i
  BY <1>1
<1> QED BY <1>1, <1>2

\* It stays so.
LEMMA WorkerInvSteps ==
  ASSUME Undisturbed, Base, WorkerInv, [Next]_vars
  PROVE  WorkerInv'
<1>1. worker.queue \in Seq(Entry) /\ worker.held \in Seq(Handed)
  BY DEF Base, TypeOK, WorkerState
<1>2. CASE RunSteps
  BY <1>2 DEF RunSteps, RunGoesOn, RunHands, RunAcks, WorkerInv
<1>3. ASSUME NEW e \in Entry, PlainEntry(e), Takes(e) PROVE WorkerInv'
  <2>1. worker'.queue = Append(worker.queue, e) /\ worker'.held = worker.held /\ worker'.full = worker.full
    BY <1>3 DEF Takes
  <2>2. \A i \in 1..Len(worker'.queue) : (i \in 1..Len(worker.queue) /\ worker'.queue[i] = worker.queue[i]) \/ worker'.queue[i] = e
    BY <1>1, <1>3, <2>1
  <2> QED BY <1>3, <2>1, <2>2 DEF WorkerInv
<1>4. CASE Quietly
  BY <1>4 DEF Quietly, Quiet, WorkerInv
<1>5. CASE Asked
  <2>1. PICK e \in Request : Takes(e) /\ (IsCreate(e) \/ e.op \in Requests)
    BY <1>5 DEF Asked, Undisturbed
  <2>2. e \in Entry /\ PlainEntry(e)
    BY <2>1, RecordingAssumption DEF Entry, PlainEntry, IsCreate, Undisturbed
  <2> QED BY <1>3, <2>1, <2>2
<1>6. CASE Delivered
  <2>1. Head(toStorage) \in Handed /\ (worker.open => Takes(Head(toStorage))) /\ (~worker.open => worker' = worker)
    BY <1>6 DEF Delivered, Base, TypeOK
  <2>2. Head(toStorage) \in Entry /\ PlainEntry(Head(toStorage))
    BY <2>1 DEF Entry, PlainEntry, FromRecorder, Handed, Item, BatchEntry
  <2> QED BY <1>3, <2>1, <2>2 DEF WorkerInv
<1>7. CASE HoldsOne
  <2>1. worker'.queue = Tail(worker.queue) /\ worker.queue # <<>> /\ worker'.full
    BY <1>7 DEF HoldsOne
  <2>2. \A i \in 1..Len(worker'.queue) : i + 1 \in 1..Len(worker.queue) /\ worker'.queue[i] = worker.queue[i + 1]
    BY <1>1, <2>1
  <2> QED BY <2>1, <2>2 DEF WorkerInv
<1>8. CASE GivesBack
  <2>1. worker'.queue = worker.held \o worker.queue /\ worker'.held = <<>>
    BY <1>8 DEF GivesBack, Returns, HeldAgain
  <2>2. \A i \in 1..Len(worker.held) : PlainEntry(worker.held[i])
    <3> SUFFICES ASSUME NEW i \in 1..Len(worker.held) PROVE PlainEntry(worker.held[i])
      OBVIOUS
    <3>1. worker.held[i] \in Handed
      BY <1>1
    <3> QED BY <3>1 DEF PlainEntry, FromRecorder, Handed, Item, BatchEntry
  <2>3. \A i \in 1..Len(worker'.queue) : \/ i \in 1..Len(worker.held) /\ worker'.queue[i] = worker.held[i]
                                         \/ \E j \in 1..Len(worker.queue) : worker'.queue[i] = worker.queue[j]
    <3>1. worker.held \in Seq(Entry)
      BY <1>1, Wider DEF Entry
    <3> DEFINE p == worker'.queue
               a == worker.held
               q == worker.queue
    <3>2. p = a \o q /\ a \in Seq(Entry) /\ q \in Seq(Entry)
      BY <1>1, <2>1, <3>1
    <3> HIDE DEF p, a, q
    <3>3. \A i \in 1..Len(p) : \/ i \in 1..Len(a) /\ p[i] = a[i]
                               \/ \E j \in 1..Len(q) : p[i] = q[j]
      BY <3>2, ComesFromOne
    <3> QED BY <3>3 DEF p, a, q
  <2> QED BY <2>1, <2>2, <2>3 DEF WorkerInv
<1>9. CASE CommitsSome
  <2>1. PICK run, rest, fault, results : Commits(run, rest, fault, results)
    BY <1>9 DEF CommitsSome
  <2>2. /\ run \in Seq(Entry) /\ rest \in Seq(Entry) /\ worker.queue = run \o rest /\ worker'.queue = rest
        /\ worker'.held = worker.held /\ worker'.full = worker.full
    BY <2>1 DEF Commits
  <2>3. \A i \in 1..Len(rest) : Len(run) + i \in 1..Len(worker.queue) /\ worker.queue[Len(run) + i] = rest[i]
    BY <2>2
  <2> QED BY <2>2, <2>3 DEF WorkerInv
<1>10. CASE Creates \/ Deletes \/ TakesTime
  <2>1. worker'.queue = Tail(worker.queue) /\ worker.queue # <<>> /\ worker'.full = worker.full /\ worker'.held = worker.held
    BY <1>10 DEF Creates, Deletes, TakesTime, Serving
  <2>2. \A i \in 1..Len(worker'.queue) : i + 1 \in 1..Len(worker.queue) /\ worker'.queue[i] = worker.queue[i + 1]
    BY <1>1, <2>1
  <2> QED BY <2>1, <2>2 DEF WorkerInv
<1>11. CASE Closes
  <2>1. worker'.queue = <<>> /\ worker'.held = worker.held /\ worker'.full = worker.full
    BY <1>11 DEF Closes
  <2> QED BY <2>1 DEF WorkerInv
<1> QED BY <1>2, <1>4, <1>5, <1>6, <1>7, <1>8, <1>9, <1>10, <1>11, StepKinds DEF QueueSteps, ServingSteps

\* Nothing is deleted then.
LEMMA NoDeletes ==
  ASSUME Base, WorkerInv PROVE ~Deletes
<1> SUFFICES ASSUME Deletes PROVE FALSE
  OBVIOUS
<1>1. worker.queue \in Seq(Entry) /\ worker.queue # <<>> /\ Head(worker.queue).op \in {"delete", "import"}
  BY DEF Base, TypeOK, WorkerState, Deletes, Serving
<1>2. Head(worker.queue) \in Entry /\ PlainEntry(Head(worker.queue))
  <2>1. 1 \in 1..Len(worker.queue) /\ worker.queue[1] = Head(worker.queue) /\ Head(worker.queue) \in Entry
    BY <1>1
  <2> QED BY <2>1 DEF WorkerInv
<1> DEFINE e == Head(worker.queue)
<1>3. e \in Entry /\ PlainEntry(e) /\ e.op \in {"delete", "import"}
  BY <1>1, <1>2
<1> HIDE DEF e
<1> QED BY <1>3 DEF PlainEntry, FromRecorder, Entry, Handed, Item, BatchEntry, Request

\* The run stays where its header is stored.
LEMMA RunsInvSteps ==
  ASSUME Base, WorkerInv, RunsInv, [Next]_vars
  PROVE  RunsInv'
<1>1. toSim \in Seq(Message) /\ worker.queue \in Seq(Entry)
  BY DEF Base, TypeOK, WorkerState
<1>2. CASE RunSteps
  <2>1. sim'.recorder.header => sim.recorder.header \/ HeaderTold(toSim)
    BY <1>1, <1>2, MessageFirst DEF RunSteps, RunGoesOn, GoesOn, Rests, Alike, RunHands, Hearing, RunAcks, Acks
  <2>2. HeaderTold(toSim') => HeaderTold(toSim)
    <3>1. toSim' = toSim \/ (toSim # <<>> /\ toSim' = Tail(toSim))
      BY <1>2 DEF RunSteps, RunGoesOn, RunHands, RunAcks, Hearing
    <3> QED BY <1>1, <3>1, MessageFirst
  <2>3. db' = db
    BY <1>2 DEF RunSteps, RunGoesOn, RunHands, RunAcks
  <2> QED BY <2>1, <2>2, <2>3 DEF RunsInv
<1>3. CASE QueueSteps
  <2>1. UNCHANGED <<sim, db>>
    BY <1>3 DEF QueueSteps, Quietly, Asked, Delivered, HoldsOne, GivesBack
  <2>2. toSim' = toSim \/ \E m \in Message : m.type = "quota" /\ toSim' = Append(toSim, m)
    BY <1>3 DEF QueueSteps, Quietly, Asked, Delivered, HoldsOne, GivesBack
  <2>3. HeaderTold(toSim') => HeaderTold(toSim)
    BY <1>1, <2>2, MessageLast
  <2> QED BY <2>1, <2>3 DEF RunsInv
<1>4. CASE CommitsSome
  <2>1. PICK run, rest, fault, results : Commits(run, rest, fault, results)
    BY <1>4 DEF CommitsSome
  <2>2. db'.runs = db.runs /\ UNCHANGED sim
    BY <1>4, <2>1 DEF CommitsSome, Commits
  <2>3. HeaderTold(toSim') => HeaderTold(toSim)
    BY <1>1, <1>4, <2>1, CommitTells
  <2> QED BY <2>2, <2>3 DEF RunsInv
<1>5. CASE Creates
  <2> DEFINE m == [type |-> "header", run |-> Head(worker.queue).run]
  <2>1. m \in Message /\ toSim' = Append(toSim, m) /\ m.run = Head(worker.queue).run
        /\ db'.runs = db.runs \cup {Head(worker.queue).run} /\ UNCHANGED sim
    BY <1>5 DEF Creates
  <2> HIDE DEF m
  <2>2. HeaderTold(toSim') => HeaderTold(toSim) \/ m.run = Live
    BY <1>1, <2>1, MessageLast
  <2> QED BY <2>1, <2>2 DEF RunsInv
<1>6. CASE TakesTime
  BY <1>6 DEF TakesTime, RunsInv
<1>7. CASE Closes
  <2>1. PICK told \in Rejecteds : toSim' = toSim \o told
    BY <1>7 DEF Closes
  <2>2. HeaderTold(toSim') => HeaderTold(toSim)
    BY <1>1, <2>1, RejectedsSayLittle, MessagesLast
  <2> QED BY <1>7, <2>2 DEF Closes, RunsInv
<1> QED BY <1>2, <1>3, <1>4, <1>5, <1>6, <1>7, StepKinds, NoDeletes DEF ServingSteps

(***************************************************************************)
(* Batches at the indices of B, behind a head h, with the seqs t they go   *)
(* through and the records r they bring: they cover the records E of a     *)
(* run, up to `last`, without a gap or an overlap.                         *)
(***************************************************************************)
\* What the batch at i has to bring.
Brings(B, t, i, h, E) ==
  {e \in E : h < e.seq /\ e.seq <= t[i] /\ \A j \in B : j < i => t[j] < e.seq}

Ordered(B, t) == \A i, j \in B : i < j => t[i] <= t[j]
Numbers(B, t) == \A i \in B : i \in Nat /\ t[i] \in Int
Limits(h, E, last) == h \in Int /\ last \in Int /\ h <= last /\ \A e \in E : e.seq \in Int

Chain(B, t, r, h, E, last) ==
  /\ Numbers(B, t) /\ Limits(h, E, last) /\ Ordered(B, t)
  /\ \A i \in B : h <= t[i] /\ t[i] <= last /\ r[i] = Brings(B, t, i, h, E)

Complete(B, t, h, E) == \A e \in E : e.seq <= h \/ \E i \in B : e.seq <= t[i]

\* The run went on, up to top.
GoneOn(E, last, F, top) ==
  /\ top \in Int /\ last <= top /\ E \subseteq F
  /\ \A e \in F : e.seq \in Int /\ e.seq <= top /\ (e \in E \/ e.seq > last)

\* The batch at m is added behind the others.
Joined(B, t, r, m, C, u, s) ==
  /\ m \in Nat
  /\ \A i : i \in C <=> i \in B \/ i = m
  /\ \A i \in B : i < m /\ u[i] = t[i] /\ s[i] = r[i]

After(E, seq) == {e \in E : e.seq > seq}
UpToSeq(E, seq) == {e \in E : e.seq <= seq}

\* A batch of all that is new joins at the end.
LEMMA ChainGrows ==
  ASSUME NEW B, NEW t, NEW r, NEW h, NEW E, NEW last, Chain(B, t, r, h, E, last), Complete(B, t, h, E),
         NEW F, NEW top, GoneOn(E, last, F, top),
         NEW C, NEW u, NEW s, NEW m, Joined(B, t, r, m, C, u, s), u[m] = top, s[m] = After(F, last)
  PROVE  Chain(C, u, s, h, F, top) /\ Complete(C, u, h, F)
<1>1. /\ \A i \in B : i \in Nat /\ t[i] \in Int /\ h <= t[i] /\ t[i] <= last
      /\ h \in Int /\ last \in Int /\ h <= last
  BY DEF Chain, Numbers, Limits
<1>2. /\ top \in Int /\ last <= top /\ E \subseteq F
      /\ \A e \in F : e.seq \in Int /\ e.seq <= top /\ (e \in E \/ e.seq > last)
  BY DEF GoneOn
<1>3. m \in Nat /\ \A i \in B : i < m /\ u[i] = t[i] /\ s[i] = r[i]
  BY DEF Joined
<1>4. \A i \in C : i \in B \/ i = m
  BY DEF Joined
<1>5. m \in C /\ \A i \in B : i \in C
  BY DEF Joined
<1>6. \A j \in C : j < m => j \in B
  BY <1>3, <1>4
<1>7. Brings(C, u, m, h, F) = After(F, last)
  <2>1. ASSUME NEW e \in After(F, last) PROVE e \in Brings(C, u, m, h, F)
    <3>1. e \in F /\ e.seq > last /\ e.seq \in Int /\ e.seq <= u[m]
      BY <1>2 DEF After
    <3>2. ASSUME NEW j \in C, j < m PROVE u[j] < e.seq
      <4>1. j \in B
        BY <1>6, <3>2
      <4>2. u[j] = t[j] /\ t[j] \in Int /\ t[j] <= last
        BY <1>1, <1>3, <4>1
      <4> QED BY <1>1, <3>1, <4>2
    <3>3. h < e.seq
      BY <1>1, <3>1
    <3> QED BY <3>1, <3>2, <3>3 DEF Brings
  <2>2. ASSUME NEW e \in Brings(C, u, m, h, F) PROVE e \in After(F, last)
    <3>1. e \in F /\ h < e.seq /\ \A j \in C : j < m => u[j] < e.seq
      BY DEF Brings
    <3>2. CASE e \in E
      <4>1. e.seq \in Int
        BY <1>2, <3>1
      <4>2. PICK j \in B : e.seq <= t[j]
        BY <1>1, <3>1, <3>2, <4>1 DEF Complete
      <4>3. j \in C /\ j < m /\ u[j] = t[j] /\ t[j] \in Int
        BY <1>1, <1>3, <1>5
      <4> QED BY <3>1, <4>1, <4>2, <4>3
    <3> QED BY <1>2, <3>1, <3>2 DEF After
  <2> QED BY <2>1, <2>2
<1>8. ASSUME NEW i \in B PROVE Brings(C, u, i, h, F) = Brings(B, t, i, h, E)
  <2>1. t[i] <= last /\ u[i] = t[i] /\ i < m /\ i \in Nat /\ t[i] \in Int
    BY <1>1, <1>3
  <2>2. ASSUME NEW j \in C, j < i PROVE j \in B /\ u[j] = t[j]
    <3>1. j # m
      BY <1>3, <2>1, <2>2
    <3>2. j \in B
      BY <1>4, <3>1
    <3> QED BY <1>3, <3>2
  <2>3. \A j \in B : j \in C /\ u[j] = t[j]
    BY <1>3, <1>5
  <2>4. \A e \in F : e.seq <= t[i] => e \in E
    BY <1>1, <1>2, <2>1
  <2>5. ASSUME NEW e \in Brings(C, u, i, h, F) PROVE e \in Brings(B, t, i, h, E)
    BY <2>1, <2>3, <2>4 DEF Brings
  <2>6. ASSUME NEW e \in Brings(B, t, i, h, E) PROVE e \in Brings(C, u, i, h, F)
    BY <1>2, <2>1, <2>2 DEF Brings
  <2> QED BY <2>5, <2>6
<1>9. ASSUME NEW i \in C
      PROVE  /\ i \in Nat /\ u[i] \in Int
             /\ h <= u[i] /\ u[i] <= top /\ s[i] = Brings(C, u, i, h, F)
  <2>1. CASE i = m
    BY <1>1, <1>2, <1>3, <1>7, <2>1
  <2>2. CASE i \in B
    <3>1. r[i] = Brings(B, t, i, h, E)
      BY <2>2 DEF Chain
    <3>2. u[i] = t[i] /\ s[i] = r[i] /\ t[i] <= last /\ h <= t[i] /\ t[i] \in Int /\ i \in Nat
      BY <1>1, <1>3, <2>2
    <3> QED BY <1>1, <1>2, <1>8, <2>2, <3>1, <3>2
  <2> QED BY <1>4, <2>1, <2>2
<1>10. Ordered(C, u)
  <2> SUFFICES ASSUME NEW i \in C, NEW j \in C, i < j PROVE u[i] <= u[j]
    BY DEF Ordered
  <2>1. i \in B
    BY <1>1, <1>3, <1>4
  <2>2. u[i] = t[i] /\ t[i] <= last /\ t[i] \in Int
    BY <1>1, <1>3, <2>1
  <2>3. CASE j = m
    BY <1>1, <1>2, <2>2, <2>3
  <2>4. CASE j \in B
    <3>1. t[i] <= t[j] /\ u[j] = t[j]
      BY <1>3, <2>1, <2>4 DEF Chain, Ordered
    <3> QED BY <2>2, <3>1
  <2> QED BY <1>4, <2>3, <2>4
<1>11. Complete(C, u, h, F)
  BY <1>2, <1>5 DEF Complete
<1>12. Numbers(C, u) /\ Limits(h, F, top)
  BY <1>1, <1>2, <1>9 DEF Numbers, Limits
<1> QED BY <1>9, <1>10, <1>11, <1>12 DEF Chain

\* Nothing new.
LEMMA ChainStays ==
  ASSUME NEW B, NEW t, NEW r, NEW h, NEW E, NEW last, Chain(B, t, r, h, E, last),
         NEW top \in Int, last <= top
  PROVE  Chain(B, t, r, h, E, top)
<1>1. /\ \A i \in B : t[i] \in Int /\ h <= t[i] /\ t[i] <= last /\ r[i] = Brings(B, t, i, h, E)
      /\ h \in Int /\ last \in Int /\ h <= last /\ \A e \in E : e.seq \in Int
      /\ Numbers(B, t) /\ Ordered(B, t)
  BY DEF Chain, Numbers, Limits
<1> QED BY <1>1 DEF Chain, Limits

\* The batches up to n are saved: the head is now where the last of them ends.
HeadMoves(B, t, n, h, k) ==
  \/ (\A i \in B : i > n) /\ k = h
  \/ \E i \in B : i <= n /\ k = t[i] /\ \A j \in B : j <= n => j <= i

\* The batches up to an index are saved: what they bring ends where the head is now, and the rest carries on.
LEMMA ChainTaken ==
  ASSUME NEW B, NEW t, NEW r, NEW h, NEW E, NEW last, Chain(B, t, r, h, E, last), Complete(B, t, h, E),
         NEW n \in Nat, NEW k, HeadMoves(B, t, n, h, k),
         NEW D, \A i : i \in D <=> i \in B /\ i > n,
         NEW stored, \A e : e \in stored <=> e \in UpToSeq(E, h) \/ \E i \in B : i <= n /\ e \in r[i]
  PROVE  /\ Chain(D, t, r, k, E, last) /\ Complete(D, t, k, E)
         /\ stored = UpToSeq(E, k)
         /\ k \in Int /\ h <= k
<1>1. /\ \A i \in B : i \in Nat /\ t[i] \in Int /\ h <= t[i] /\ t[i] <= last
      /\ h \in Int /\ last \in Int /\ h <= last /\ \A e \in E : e.seq \in Int
  BY DEF Chain, Numbers, Limits
<1>2. CASE (\A i \in B : i > n) /\ k = h
  <2>1. D = B
    BY <1>2
  <2>2. stored = UpToSeq(E, h)
    BY <1>1, <1>2
  <2>3. h <= h
    BY <1>1
  <2> QED BY <1>1, <1>2, <2>1, <2>2, <2>3
<1>3. CASE \E i \in B : i <= n /\ k = t[i] /\ \A j \in B : j <= n => j <= i
  <2>1. PICK l \in B : l <= n /\ k = t[l] /\ \A j \in B : j <= n => j <= l
    BY <1>3
  <2>2. k \in Int /\ h <= k /\ k <= last /\ l \in Nat
    BY <1>1, <2>1
  <2>3. ASSUME NEW j \in B, j <= n PROVE t[j] <= k
    <3>1. j = l \/ j < l
      BY <1>1, <2>1, <2>3
    <3> QED BY <1>1, <2>1, <2>2, <3>1 DEF Chain, Ordered
  <2>4. ASSUME NEW j \in D PROVE j \in B /\ k <= t[j] /\ l < j
    <3>1. j \in B /\ j > n /\ j \in Nat /\ l < j
      BY <1>1, <2>1
    <3> QED BY <2>1, <3>1 DEF Chain, Ordered
  <2>5. ASSUME NEW i \in D PROVE Brings(D, t, i, k, E) = Brings(B, t, i, h, E)
    <3>1. i \in B /\ l < i /\ i \in Nat
      BY <1>1, <2>4
    <3>2. ASSUME NEW e \in Brings(D, t, i, k, E) PROVE e \in Brings(B, t, i, h, E)
      <4>1. e \in E /\ k < e.seq /\ e.seq <= t[i] /\ \A j \in D : j < i => t[j] < e.seq
        BY DEF Brings
      <4>2. ASSUME NEW j \in B, j < i PROVE t[j] < e.seq
        <5>1. CASE j <= n
          BY <1>1, <2>2, <2>3, <4>1, <5>1
        <5>2. CASE j > n
          BY <4>1, <4>2, <5>2
        <5> QED BY <1>1, <5>1, <5>2
      <4>3. h < e.seq
        BY <1>1, <2>2, <4>1
      <4> QED BY <4>1, <4>2, <4>3 DEF Brings
    <3>3. ASSUME NEW e \in Brings(B, t, i, h, E) PROVE e \in Brings(D, t, i, k, E)
      <4>1. e \in E /\ e.seq <= t[i] /\ \A j \in B : j < i => t[j] < e.seq
        BY DEF Brings
      <4>2. k < e.seq
        BY <2>1, <3>1, <4>1
      <4>3. \A j \in D : j < i => t[j] < e.seq
        BY <2>4, <4>1
      <4> QED BY <4>1, <4>2, <4>3 DEF Brings
    <3> QED BY <3>2, <3>3
  <2>6. Chain(D, t, r, k, E, last)
    <3>1. Ordered(D, t)
      BY <2>4 DEF Chain, Ordered
    <3>2. ASSUME NEW i \in D
          PROVE  k <= t[i] /\ t[i] <= last /\ r[i] = Brings(D, t, i, k, E) /\ i \in Nat /\ t[i] \in Int
      <4>1. i \in B /\ r[i] = Brings(B, t, i, h, E)
        BY <2>4 DEF Chain
      <4> QED BY <1>1, <2>4, <2>5, <4>1
    <3> QED BY <1>1, <2>2, <3>1, <3>2 DEF Chain, Numbers, Limits
  <2>7. Complete(D, t, k, E)
    <3> SUFFICES ASSUME NEW e \in E PROVE e.seq <= k \/ \E i \in D : e.seq <= t[i]
      BY DEF Complete
    <3>1. CASE e.seq <= h
      BY <1>1, <2>2, <3>1
    <3>2. CASE \E i \in B : e.seq <= t[i]
      <4>1. PICK i \in B : e.seq <= t[i]
        BY <3>2
      <4>2. CASE i <= n
        BY <1>1, <2>2, <2>3, <4>1, <4>2
      <4>3. CASE i > n
        BY <4>1, <4>3
      <4> QED BY <1>1, <4>2, <4>3
    <3> QED BY <3>1, <3>2 DEF Complete
  <2>8. ASSUME NEW e \in stored PROVE e \in UpToSeq(E, k)
    <3>1. CASE e \in UpToSeq(E, h)
      BY <1>1, <2>2, <3>1 DEF UpToSeq
    <3>2. CASE \E i \in B : i <= n /\ e \in r[i]
      <4>1. PICK i \in B : i <= n /\ e \in r[i]
        BY <3>2
      <4>2. e \in E /\ e.seq <= t[i]
        BY <4>1 DEF Chain, Brings
      <4> QED BY <1>1, <2>2, <2>3, <4>1, <4>2 DEF UpToSeq
    <3> QED BY <3>1, <3>2
  <2>9. ASSUME NEW e \in UpToSeq(E, k) PROVE e \in stored
    <3>0. e \in E /\ e.seq <= k /\ e.seq \in Int
      BY <1>1 DEF UpToSeq
    <3>1. CASE e.seq <= h
      BY <3>0, <3>1 DEF UpToSeq
    <3>2. CASE h < e.seq
      <4> DEFINE T == {i \in B : e.seq <= t[i]}
      <4>1. T \subseteq Nat /\ T # {}
        BY <1>1, <2>1, <3>0
      <4>2. PICK i \in T : \A j \in T : i <= j
        <5> HIDE DEF T
        <5> QED BY <4>1, LeastNumber
      <4>3. i \in B /\ e.seq <= t[i] /\ i \in Nat
        BY <1>1
      <4>4. i <= n
        <5>1. l \in T
          BY <2>1, <3>0
        <5>2. i <= l
          BY <4>2, <5>1
        <5> QED BY <2>1, <2>2, <4>3, <5>2
      <4>5. ASSUME NEW j \in B, j < i PROVE t[j] < e.seq
        <5>1. j \notin T
          <6>1. j \in Nat
            BY <1>1
          <6> HIDE DEF T
          <6> QED BY <4>2, <4>3, <4>5, <6>1
        <5> QED BY <1>1, <3>0, <5>1
      <4>6. e \in r[i]
        <5>1. e \in Brings(B, t, i, h, E)
          BY <3>0, <3>2, <4>3, <4>5 DEF Brings
        <5> QED BY <4>3, <5>1 DEF Chain
      <4> QED BY <4>3, <4>4, <4>6
    <3> QED BY <1>1, <3>0, <3>1, <3>2
  <2> QED BY <2>2, <2>6, <2>7, <2>8, <2>9
<1> QED BY <1>2, <1>3 DEF HeadMoves

\* The same batches at other indices.
Moved(B, t, r, n, C, u, s) ==
  /\ n \in Nat
  /\ \A i \in C : i \in Nat /\ n + i \in B /\ u[i] = t[n + i] /\ s[i] = r[n + i]
  /\ \A i \in B : \E j \in C : i = n + j

\* The chain is the same at other indices.
LEMMA ChainMoved ==
  ASSUME NEW B, NEW t, NEW r, NEW h, NEW E, NEW last, Chain(B, t, r, h, E, last), Complete(B, t, h, E),
         NEW n, NEW C, NEW u, NEW s, Moved(B, t, r, n, C, u, s)
  PROVE  Chain(C, u, s, h, E, last) /\ Complete(C, u, h, E)
<1>1. /\ \A i \in B : i \in Nat /\ t[i] \in Int /\ h <= t[i] /\ t[i] <= last
      /\ h \in Int /\ last \in Int /\ h <= last /\ \A e \in E : e.seq \in Int
  BY DEF Chain, Numbers, Limits
<1>2. /\ n \in Nat
      /\ \A i \in C : i \in Nat /\ n + i \in B /\ u[i] = t[n + i] /\ s[i] = r[n + i]
  BY DEF Moved
<1>3. \A i \in B : \E j \in C : i = n + j
  BY DEF Moved
<1>4. ASSUME NEW i \in C PROVE Brings(C, u, i, h, E) = Brings(B, t, n + i, h, E)
  <2>1. ASSUME NEW e \in Brings(C, u, i, h, E) PROVE e \in Brings(B, t, n + i, h, E)
    <3>1. e \in E /\ h < e.seq /\ e.seq <= u[i] /\ \A j \in C : j < i => u[j] < e.seq
      BY DEF Brings
    <3>2. ASSUME NEW j \in B, j < n + i PROVE t[j] < e.seq
      <4>1. PICK x \in C : j = n + x
        BY <1>3
      <4>2. x < i /\ u[x] = t[j]
        BY <1>2, <3>2, <4>1
      <4> QED BY <3>1, <4>2
    <3>3. u[i] = t[n + i]
      BY <1>2
    <3> QED BY <3>1, <3>2, <3>3 DEF Brings
  <2>2. ASSUME NEW e \in Brings(B, t, n + i, h, E) PROVE e \in Brings(C, u, i, h, E)
    <3>1. e \in E /\ h < e.seq /\ e.seq <= t[n + i] /\ \A j \in B : j < n + i => t[j] < e.seq
      BY DEF Brings
    <3>2. ASSUME NEW j \in C, j < i PROVE u[j] < e.seq
      <4>1. n + j \in B /\ u[j] = t[n + j] /\ n + j < n + i
        BY <1>2, <3>2
      <4> QED BY <3>1, <4>1
    <3>3. u[i] = t[n + i]
      BY <1>2
    <3> QED BY <3>1, <3>2, <3>3 DEF Brings
  <2> QED BY <2>1, <2>2
<1>5. Ordered(C, u)
  <2> SUFFICES ASSUME NEW i \in C, NEW j \in C, i < j PROVE u[i] <= u[j]
    BY DEF Ordered
  <2>1. n + i \in B /\ n + j \in B /\ n + i < n + j /\ u[i] = t[n + i] /\ u[j] = t[n + j]
    BY <1>2
  <2> DEFINE x == n + i
             y == n + j
  <2>2. x \in B /\ y \in B /\ x < y /\ u[i] = t[x] /\ u[j] = t[y]
    BY <2>1
  <2> HIDE DEF x, y
  <2> QED BY <2>2 DEF Chain, Ordered
<1>6. ASSUME NEW i \in C
      PROVE  h <= u[i] /\ u[i] <= last /\ s[i] = Brings(C, u, i, h, E) /\ i \in Nat /\ u[i] \in Int
  <2> DEFINE x == n + i
  <2>1. x \in B /\ u[i] = t[x] /\ s[i] = r[x] /\ i \in Nat /\ Brings(C, u, i, h, E) = Brings(B, t, x, h, E)
    BY <1>2, <1>4
  <2> HIDE DEF x
  <2>2. r[x] = Brings(B, t, x, h, E)
    BY <2>1 DEF Chain
  <2> QED BY <1>1, <2>1, <2>2
<1>7. Complete(C, u, h, E)
  <2>1. \A i \in B : \E j \in C : u[j] = t[i]
    BY <1>2, <1>3
  <2> QED BY <2>1 DEF Complete
<1> QED BY <1>1, <1>5, <1>6, <1>7 DEF Chain, Numbers, Limits

(***************************************************************************)
(* The batches of a sequence of entries                                    *)
(***************************************************************************)
Batches(w) == {i \in 1..Len(w) : IsBatch(w[i])}
Ends(w)    == [i \in Batches(w) |-> w[i].throughSeq]
Loads(w)   == [i \in Batches(w) |-> ToSet(w[i].records)]

\* The fields of a batch.
LEMMA BatchFields ==
  ASSUME NEW w \in Seq(Entry), NEW i \in Batches(w)
  PROVE  /\ i \in 1..Len(w) /\ w[i] \in BatchEntry
         /\ w[i].throughSeq \in Int /\ w[i].tick \in Int /\ w[i].records \in Seq(TraceRecord)
<1>1. i \in 1..Len(w) /\ IsBatch(w[i]) /\ w[i] \in Entry
  BY DEF Batches
<1>2. w[i] \in BatchEntry
  BY <1>1, EntryKinds
<1> QED BY <1>1, <1>2 DEF BatchEntry

\* Where the batches are when one sequence follows another.
Following(w, v, p) ==
  /\ p \in Seq(Entry) /\ Len(p) = Len(w) + Len(v) /\ Len(w) \in Nat /\ Len(v) \in Nat
  /\ \A i \in 1..Len(w) : i \in 1..Len(p) /\ p[i] = w[i]
  /\ \A i \in 1..Len(v) : Len(w) + i \in 1..Len(p) /\ p[Len(w) + i] = v[i]
  /\ \A i \in Batches(w) : i \in Batches(p)
  /\ \A i \in Batches(v) : Len(w) + i \in Batches(p)
  /\ \A i \in Batches(p) : i <= Len(w) => i \in Batches(w)
  /\ \A i \in Batches(p) : ~(i <= Len(w)) => \E j \in Batches(v) : i = Len(w) + j

\* One sequence behind another: the batches of both.
LEMMA Follows ==
  ASSUME NEW w \in Seq(Entry), NEW v \in Seq(Entry), NEW p, p = w \o v
  PROVE  Following(w, v, p)
<1>1. /\ p \in Seq(Entry) /\ Len(p) = Len(w) + Len(v) /\ Len(w) \in Nat /\ Len(v) \in Nat
      /\ \A i \in 1..Len(w) : i \in 1..Len(p) /\ p[i] = w[i]
      /\ \A i \in 1..Len(v) : Len(w) + i \in 1..Len(p) /\ p[Len(w) + i] = v[i]
  OBVIOUS
<1>2. \A i \in Batches(w) : i \in Batches(p)
  BY <1>1 DEF Batches
<1>3. \A i \in Batches(v) : Len(w) + i \in Batches(p)
  BY <1>1 DEF Batches
<1>4. ASSUME NEW i \in Batches(p), ~(i <= Len(w)) PROVE \E j \in Batches(v) : i = Len(w) + j
  <2> DEFINE k == i - Len(w)
  <2>1. i \in 1..Len(p) /\ IsBatch(p[i])
    BY DEF Batches
  <2>2. k \in 1..Len(v) /\ Len(w) + k = i
    BY <1>1, <1>4, <2>1
  <2> HIDE DEF k
  <2>3. v[k] = p[i]
    BY <1>1, <2>2
  <2>4. k \in Batches(v)
    BY <2>1, <2>2, <2>3 DEF Batches
  <2> QED BY <2>2, <2>4
<1>5. ASSUME NEW i \in Batches(p), i <= Len(w) PROVE i \in Batches(w)
  <2>1. i \in 1..Len(p) /\ IsBatch(p[i])
    BY DEF Batches
  <2>2. i \in 1..Len(w)
    BY <1>1, <1>5, <2>1
  <2> QED BY <1>1, <2>1, <2>2 DEF Batches
<1> QED BY <1>1, <1>2, <1>3, <1>4, <1>5 DEF Following

\* One batch, behind items.
OneBatch(w, batch) ==
  /\ w \in Seq(Entry)
  /\ \A i : i \in Batches(w) <=> i = Len(w)
  /\ w[Len(w)] = batch

\* Items, then a batch: it is the only one.
LEMMA ItemsThenBatch ==
  ASSUME NEW items \in Seq(Item), NEW batch \in BatchEntry, NEW out, out = Append(items, batch)
  PROVE  OneBatch(out, batch)
<1>1. items \in Seq(Handed) /\ batch \in Handed
  BY Wider DEF Handed
<1>2. /\ out \in Seq(Handed) /\ Len(out) = Len(items) + 1 /\ Len(items) \in Nat
      /\ out[Len(items) + 1] = batch
      /\ \A i \in 1..Len(items) : out[i] = items[i]
  BY <1>1, AppendedOne
<1>3. IsBatch(batch)
  BY DEF BatchEntry, IsBatch, FromRecorder
<1>4. \A i \in 1..Len(items) : ~IsBatch(out[i])
  <2> SUFFICES ASSUME NEW i \in 1..Len(items) PROVE ~IsBatch(out[i])
    OBVIOUS
  <2>1. items[i] \in Item
    OBVIOUS
  <2> QED BY <1>2, <2>1 DEF Item, IsBatch
<1>5. ASSUME NEW i PROVE i \in Batches(out) <=> i = Len(out)
  BY <1>2, <1>3, <1>4 DEF Batches
<1>6. out \in Seq(Entry)
  BY <1>2, Wider DEF Entry
<1> QED BY <1>2, <1>5, <1>6 DEF OneBatch

\* The one batch of what follows joins those before it.
LEMMA BatchJoins ==
  ASSUME NEW w \in Seq(Entry), NEW v, NEW batch, OneBatch(v, batch), NEW p, Following(w, v, p)
  PROVE  \E m : /\ Joined(Batches(w), Ends(w), Loads(w), m, Batches(p), Ends(p), Loads(p))
                /\ Ends(p)[m] = batch.throughSeq /\ Loads(p)[m] = ToSet(batch.records)
<1> DEFINE m == Len(p)
<1>0. v \in Seq(Entry) /\ v[Len(v)] = batch /\ \A i : i \in Batches(v) <=> i = Len(v)
  BY DEF OneBatch
<1>1. /\ p \in Seq(Entry) /\ m = Len(w) + Len(v) /\ Len(w) \in Nat /\ Len(v) \in Nat
      /\ \A i \in 1..Len(w) : i \in 1..Len(p) /\ p[i] = w[i]
  BY DEF Following
<1>2. Len(v) \in Batches(v) /\ Len(v) \in 1..Len(v)
  BY <1>0 DEF Batches
<1>3. m \in Nat /\ m > Len(w) /\ m \in Batches(p) /\ p[m] = v[Len(v)]
  BY <1>1, <1>2 DEF Following
<1> HIDE DEF m
<1>4. ASSUME NEW i \in Batches(p), i \notin Batches(w) PROVE i = m
  <2>1. PICK j \in Batches(v) : i = Len(w) + j
    BY <1>4 DEF Following
  <2> QED BY <1>0, <1>1, <2>1
<1>5. \A i \in Batches(w) : i \in Batches(p)
  BY DEF Following
<1>6. \A i \in Batches(w) : i \in 1..Len(w) /\ i < m /\ p[i] = w[i]
  BY <1>1, <1>3 DEF Batches
<1>7. \A i \in Batches(w) : Ends(p)[i] = Ends(w)[i] /\ Loads(p)[i] = Loads(w)[i]
  BY <1>5, <1>6 DEF Ends, Loads
<1>8. Ends(p)[m] = batch.throughSeq /\ Loads(p)[m] = ToSet(batch.records)
  BY <1>0, <1>3 DEF Ends, Loads
<1>9. \A i : i \in Batches(p) <=> i \in Batches(w) \/ i = m
  BY <1>3, <1>4, <1>5
<1> QED BY <1>3, <1>6, <1>7, <1>8, <1>9 DEF Joined

\* The entries of w are gone, those of v remain.
Remaining(p, n) == {i \in Batches(p) : i > n}

\* Of the two, the second remains.
LEMMA BatchesGo ==
  ASSUME NEW w \in Seq(Entry), NEW v \in Seq(Entry), NEW p, Following(w, v, p), NEW n, n = Len(w)
  PROVE  /\ Moved(Remaining(p, n), Ends(p), Loads(p), n, Batches(v), Ends(v), Loads(v))
         /\ \A i : i \in Batches(w) <=> i \in Batches(p) /\ i <= n
         /\ \A i \in Batches(w) : Ends(p)[i] = w[i].throughSeq /\ Loads(p)[i] = ToSet(w[i].records)
<1>1. /\ p \in Seq(Entry) /\ n \in Nat /\ Len(v) \in Nat
      /\ \A i \in 1..n : i \in 1..Len(p) /\ p[i] = w[i]
      /\ \A i \in 1..Len(v) : n + i \in 1..Len(p) /\ p[n + i] = v[i]
      /\ \A i \in Batches(w) : i \in Batches(p)
      /\ \A i \in Batches(v) : n + i \in Batches(p)
      /\ \A i \in Batches(p) : i <= n => i \in Batches(w)
      /\ \A i \in Batches(p) : ~(i <= n) => \E j \in Batches(v) : i = n + j
  BY DEF Following
<1>2. \A i \in Batches(w) : i \in 1..n /\ p[i] = w[i]
  BY <1>1 DEF Batches
<1>3. \A i \in Batches(w) : Ends(p)[i] = w[i].throughSeq /\ Loads(p)[i] = ToSet(w[i].records)
  BY <1>1, <1>2 DEF Ends, Loads
<1>4. ASSUME NEW i \in Batches(v)
      PROVE  /\ i \in Nat /\ n + i \in Remaining(p, n)
             /\ Ends(v)[i] = Ends(p)[n + i] /\ Loads(v)[i] = Loads(p)[n + i]
  <2> DEFINE x == n + i
  <2>1. i \in 1..Len(v) /\ x > n /\ x \in Batches(p) /\ p[x] = v[i]
    BY <1>1 DEF Batches
  <2> HIDE DEF x
  <2>2. x \in Remaining(p, n) /\ Ends(v)[i] = Ends(p)[x] /\ Loads(v)[i] = Loads(p)[x]
    BY <2>1 DEF Remaining, Ends, Loads
  <2> QED BY <2>1, <2>2 DEF x
<1>5. ASSUME NEW i \in Remaining(p, n) PROVE \E j \in Batches(v) : i = n + j
  <2>1. i \in Batches(p) /\ i > n /\ i \in 1..Len(p)
    BY DEF Remaining, Batches
  <2> QED BY <1>1, <2>1
<1>6. \A i : i \in Batches(w) <=> i \in Batches(p) /\ i <= n
  BY <1>1, <1>2
<1> QED BY <1>1, <1>3, <1>4, <1>5, <1>6 DEF Moved

(***************************************************************************)
(* What waits in order is handed on in order                               *)
(***************************************************************************)
LEMMA Regrouped ==
  ASSUME NEW a \in Seq(Handed), NEW b \in Seq(Handed), NEW c \in Seq(Handed)
  PROVE  (a \o b) \o c = a \o (b \o c)
<1> DEFINE p == (a \o b) \o c
           q == a \o (b \o c)
<1>1. a \o b \in Seq(Handed) /\ b \o c \in Seq(Handed)
  OBVIOUS
<1>2. p \in Seq(Handed) /\ q \in Seq(Handed) /\ Len(p) = Len(q)
  BY <1>1
<1>3. \A i \in 1..Len(p) : p[i] = q[i]
  BY <1>1
<1> HIDE DEF p, q
<1>4. p = q
  BY <1>2, <1>3, SMTT(30)
<1> QED BY <1>4 DEF p, q

\* An entry is passed from the front of one queue to the end of another.
LEMMA OneByOne ==
  ASSUME NEW a \in Seq(Handed), NEW e \in Handed, NEW b \in Seq(Handed)
  PROVE  Append(a, e) \o b = a \o (<<e>> \o b)
<1> DEFINE p == Append(a, e) \o b
           q == a \o (<<e>> \o b)
<1>1. Append(a, e) \in Seq(Handed) /\ <<e>> \in Seq(Handed) /\ <<e>> \o b \in Seq(Handed)
  OBVIOUS
<1>2. p \in Seq(Handed) /\ q \in Seq(Handed) /\ Len(p) = Len(q)
  BY <1>1
<1>3. \A i \in 1..Len(p) : p[i] = q[i]
  BY <1>1
<1> HIDE DEF p, q
<1>4. p = q
  BY <1>2, <1>3
<1> QED BY <1>4 DEF p, q

\* What is taken from the front, in front again.
LEMMA FirstAgain ==
  ASSUME NEW a \in Seq(Handed), a # <<>>
  PROVE  a = <<Head(a)>> \o Tail(a) /\ Head(a) \in Handed /\ Tail(a) \in Seq(Handed)
OBVIOUS

\* Nothing in front.
LEMMA NothingFirst ==
  ASSUME NEW a \in Seq(Handed) PROVE <<>> \o a = a /\ a \o <<>> = a
OBVIOUS

\* A queue with nothing of the recorder.
LEMMA NoneGiven ==
  ASSUME NEW q \in Seq(Entry), ~HasGiven(q) PROVE Given(q) = <<>>
<1>1. PICK H : Selects(H, q, Handed) /\ Only(q, Handed) = H[Len(q)]
  BY OnlySteps
<1> DEFINE g == Given(q)
<1>2. g \in Seq(Handed) /\ ToSet(g) = ToSet(q) \cap Handed
  BY <1>1, SelectedOnes DEF Given
<1>3. \A i \in 1..Len(q) : q[i] \notin Handed
  BY EntryKinds DEF HasGiven
<1>4. ToSet(g) = {}
  <2>1. \A x \in ToSet(q) : x \notin Handed
    BY <1>3 DEF ToSet
  <2> HIDE DEF g
  <2> QED BY <1>2, <2>1
<1> HIDE DEF g
<1>5. g = <<>>
  <2>1. ASSUME Len(g) # 0 PROVE FALSE
    <3>1. 1 \in DOMAIN g
      BY <1>2, <2>1
    <3>2. g[1] \in ToSet(g)
      BY <3>1 DEF ToSet
    <3> QED BY <1>4, <3>2
  <2> QED BY <1>2, <2>1
<1> QED BY <1>5 DEF g

\* What is on its way are the recorder's entries.
LEMMA WayType ==
  ASSUME TypeOK
  PROVE  /\ Given(worker.queue) \in Seq(Handed) /\ worker.held \in Seq(Handed) /\ toStorage \in Seq(Handed)
         /\ Way \in Seq(Handed) /\ Way \in Seq(Entry)
         /\ Way = worker.held \o (Given(worker.queue) \o toStorage)
<1> DEFINE a == worker.held
           b == Given(worker.queue)
           c == toStorage
<1>1. a \in Seq(Handed) /\ b \in Seq(Handed) /\ c \in Seq(Handed)
  BY GivenType DEF TypeOK, WorkerState
<1>2. Way = (a \o b) \o c
  BY DEF Way
<1> HIDE DEF a, b, c
<1>3. Way \in Seq(Handed) /\ Way = a \o (b \o c)
  BY <1>1, <1>2, Regrouped, SMTT(30)
<1>4. Way \in Seq(Entry)
  BY <1>3, Wider DEF Entry
<1> QED BY <1>1, <1>3, <1>4 DEF a, b, c

\* The recorder's entries keep their order while they are delivered, held and given back.
LEMMA WayKept ==
  ASSUME Base, Base', worker.open, QueueSteps
  PROVE  Way' = Way /\ worker'.open /\ worker'.head = worker.head /\ UNCHANGED <<sim, db>>
<1> DEFINE a == worker.held
           q == worker.queue
           b == Given(q)
           c == toStorage
           a2 == worker'.held
           q2 == worker'.queue
           b2 == Given(q2)
           c2 == toStorage'
<1>1. /\ a \in Seq(Handed) /\ b \in Seq(Handed) /\ c \in Seq(Handed) /\ q \in Seq(Entry)
      /\ a2 \in Seq(Handed) /\ b2 \in Seq(Handed) /\ c2 \in Seq(Handed)
      /\ Way = a \o (b \o c)
  BY WayType, GivenType DEF Base, TypeOK, WorkerState
<1>2. Way' = a2 \o (b2 \o c2)
  <2>1. Way' = (a2 \o b2) \o c2
    BY DEF Way
  <2> HIDE DEF a2, b2, c2
  <2> QED BY <1>1, <2>1, Regrouped, SMTT(30)
<1>3. worker'.open /\ worker'.head = worker.head /\ UNCHANGED <<sim, db>>
  BY DEF QueueSteps, Quietly, Quiet, Asked, Takes, Delivered, HoldsOne, GivesBack, Returns
<1> SUFFICES Way' = Way
  BY <1>3
<1>4. ASSUME q2 = q, a2 = a, c2 = c PROVE Way' = Way
  BY <1>1, <1>2, <1>4
<1>5. CASE Quietly
  BY <1>4, <1>5 DEF Quietly, Quiet
<1>6. CASE Asked
  <2>1. PICK e \in Request : Takes(e)
    BY <1>6 DEF Asked
  <2>2. e \in Entry /\ ~FromRecorder(e) /\ q2 = Append(q, e) /\ a2 = a /\ c2 = c
    BY <1>6, <2>1 DEF Asked, Takes, Entry, Request, FromRecorder
  <2> HIDE DEF q, q2
  <2>3. b2 = b
    BY <1>1, <2>2, GivenAppend
  <2> HIDE DEF a, a2, b, b2, c, c2
  <2> QED BY <1>1, <1>2, <2>2, <2>3
<1>7. CASE Delivered
  <2> DEFINE e == Head(c)
  <2>1. c # <<>> /\ c2 = Tail(c) /\ q2 = Append(q, e) /\ a2 = a
    BY <1>7 DEF Delivered, Takes
  <2>2. e \in Handed /\ e \in Entry /\ FromRecorder(e) /\ c = <<e>> \o c2
    <3>1. e \in Handed /\ c = <<e>> \o c2
      BY <1>1, <2>1, FirstAgain
    <3> HIDE DEF e
    <3>2. e \in Entry
      BY <3>1 DEF Entry
    <3> QED BY <3>1, <3>2, EntryKinds
  <2> HIDE DEF q, q2, c, c2, e
  <2>3. b2 = Append(b, e)
    BY <1>1, <2>1, <2>2, GivenAppend
  <2> HIDE DEF b, b2
  <2>4. b2 \o c2 = b \o c
    BY <1>1, <2>2, <2>3, OneByOne
  <2> HIDE DEF a, a2
  <2> QED BY <1>1, <1>2, <2>1, <2>4
<1>8. CASE HoldsOne
  <2> DEFINE e == Head(q)
             t == Tail(q)
  <2>1. q # <<>> /\ FromRecorder(e) /\ q2 = t /\ a2 = Append(a, e) /\ c2 = c
    BY <1>8 DEF HoldsOne
  <2>2. t \in Seq(Entry) /\ e \in Entry
    BY <1>1, <2>1
  <2>3. b = <<e>> \o Given(t)
    <3> HIDE DEF q
    <3> QED BY <1>1, <2>1, GivenFirst
  <2>4. e \in Handed
    <3> HIDE DEF e
    <3> QED BY <2>1, <2>2, EntryKinds
  <2> HIDE DEF e, t, q, q2, a, a2, c, c2
  <2>5. b2 = Given(t) /\ b = <<e>> \o b2
    BY <2>1, <2>3
  <2> HIDE DEF b, b2
  <2>6. <<e>> \in Seq(Handed) /\ b2 \o c \in Seq(Handed)
    BY <1>1, <2>4
  <2>7. b \o c = <<e>> \o (b2 \o c)
    BY <1>1, <2>5, <2>6, Regrouped, SMTT(30)
  <2>8. Append(a, e) \o (b2 \o c) = a \o (<<e>> \o (b2 \o c))
    BY <1>1, <2>4, <2>6, OneByOne
  <2>9. a2 \o (b2 \o c2) = a \o (b \o c)
    BY <2>1, <2>7, <2>8, Zenon
  <2> QED BY <1>1, <1>2, <2>9, Zenon
<1>9. CASE GivesBack
  <2>1. q2 = a \o q /\ a2 = <<>> /\ c2 = c
    BY <1>9 DEF GivesBack, Returns, HeldAgain
  <2> HIDE DEF q, q2, a, a2, c, c2
  <2>2. b2 = a \o b
    BY <1>1, <2>1, GivenConcat
  <2> HIDE DEF b, b2
  <2>3. b2 \o c2 \in Seq(Handed) /\ a2 \o (b2 \o c2) = b2 \o c2
    BY <1>1, <2>1, NothingFirst
  <2>4. b2 \o c2 = a \o (b \o c)
    <3>1. (a \o b) \o c = a \o (b \o c)
      <4>1. a \in Seq(Handed) /\ b \in Seq(Handed) /\ c \in Seq(Handed)
        BY <1>1
      <4> QED BY ONLY <4>1, Regrouped
    <3> QED BY <2>1, <2>2, <3>1, Zenon
  <2> QED BY <1>1, <1>2, <2>3, <2>4, Zenon
<1> QED BY <1>3, <1>5, <1>6, <1>7, <1>8, <1>9 DEF QueueSteps

\* A request of the main thread leaves them alone.
LEMMA WayPassed ==
  ASSUME Base, Base', worker.queue # <<>>, ~FromRecorder(Head(worker.queue)),
         worker'.queue = Tail(worker.queue), worker'.held = worker.held, toStorage' = toStorage
  PROVE  Way' = Way
<1>1. worker.queue \in Seq(Entry)
  BY DEF Base, TypeOK, WorkerState
<1>2. Given(worker'.queue) = Given(worker.queue)
  <2> DEFINE q == worker.queue
  <2>1. q \in Seq(Entry) /\ q # <<>> /\ ~FromRecorder(Head(q)) /\ worker'.queue = Tail(q)
    BY <1>1
  <2> HIDE DEF q
  <2>2. Given(q) = Given(Tail(q))
    BY <2>1, GivenFirst
  <2> QED BY <2>1, <2>2 DEF q
<1> QED BY <1>2 DEF Way

\* A transaction takes the first of them.
LEMMA WayTaken ==
  ASSUME Base, Base', WorkerInv, NEW run, NEW rest, NEW fault, NEW results, Commits(run, rest, fault, results),
         toStorage' = toStorage
  PROVE  run \in Seq(Handed) /\ Way = run \o Way' /\ worker.held = <<>> /\ Way' \in Seq(Handed) /\ sim.recorder.header
<1>1. /\ run \in Seq(Entry) /\ rest \in Seq(Entry) /\ run # <<>> /\ worker.queue = run \o rest
      /\ \A i \in 1..Len(run) : Coalescable(run[i])
      /\ FromRecorder(Head(worker.queue)) => ~worker.full
      /\ worker'.queue = rest /\ worker'.held = worker.held
  BY DEF Commits
<1>2. \A i \in 1..Len(run) : run[i] \in Handed /\ FromRecorder(run[i])
  <2> SUFFICES ASSUME NEW i \in 1..Len(run) PROVE run[i] \in Handed /\ FromRecorder(run[i])
    OBVIOUS
  <2>1. i \in 1..Len(worker.queue) /\ worker.queue[i] = run[i]
    BY <1>1
  <2>2. PlainEntry(run[i]) /\ Coalescable(run[i]) /\ run[i] \in Entry
    BY <1>1, <2>1 DEF WorkerInv
  <2>3. FromRecorder(run[i])
    BY <2>2 DEF PlainEntry, Coalescable
  <2> QED BY <2>2, <2>3, EntryKinds
<1>3. run \in Seq(Handed)
  BY <1>1, <1>2
<1>4. FromRecorder(Head(worker.queue))
  <2>1. Head(worker.queue) = run[1] /\ 1 \in 1..Len(run)
    BY <1>1
  <2> QED BY <1>2, <2>1
<1>5. worker.held = <<>>
  BY <1>1, <1>4 DEF WorkerInv
<1>6. sim.recorder.header
  <2>1. HasGiven(worker.queue)
    <3>1. \E i \in 1..Len(worker.queue) : FromRecorder(worker.queue[i])
      <4>1. 1 \in 1..Len(worker.queue) /\ worker.queue[1] = Head(worker.queue)
        BY <1>1
      <4> QED BY <1>4, <4>1
    <3> QED BY <3>1 DEF HasGiven
  <2> QED BY <2>1 DEF Base, HeaderInv
<1> DEFINE q == worker.queue
           c == toStorage
           g == Given(rest)
<1>7. q = run \o rest /\ c \in Seq(Handed) /\ g \in Seq(Handed)
  BY <1>1, GivenType DEF Base, TypeOK
<1>8. Way = <<>> \o (Given(q) \o c) /\ Way' = (<<>> \o g) \o c
  <2>1. Way = worker.held \o (Given(q) \o c)
    BY WayType DEF Base
  <2> QED BY <1>1, <1>5, <2>1 DEF Way
<1> HIDE DEF q, c
<1>9. Given(q) = run \o g
  BY <1>1, <1>3, <1>7, GivenConcat
<1> HIDE DEF g
<1>10. (run \o g) \o c = run \o (g \o c) /\ g \o c \in Seq(Handed) /\ run \o g \in Seq(Handed)
  BY <1>3, <1>7, Regrouped
<1>11. <<>> \o g = g
  BY <1>7, NothingFirst
<1>12. (run \o g) \o c \in Seq(Handed)
  BY <1>7, <1>10
<1>13. <<>> \o ((run \o g) \o c) = (run \o g) \o c
  BY <1>12, NothingFirst
<1>14. Way = run \o (g \o c) /\ Way' = g \o c
  BY <1>8, <1>9, <1>10, <1>11, <1>13
<1> QED BY <1>3, <1>5, <1>6, <1>10, <1>14

(***************************************************************************)
(* What a transaction saves                                                *)
(***************************************************************************)
\* Of the run being recorded, a transaction adds the records of its batches.
LEMMA BatchesAdd ==
  ASSUME db \in DbState, Live \in db.runs, NEW s \in Seq(Entry), NEW fault, NEW tx, tx = Transaction(s, fault)
  PROVE  \A x : x \in tx.db.records <=>
                  \/ x \in db.records
                  \/ \E j \in 1..Len(s) : IsBatch(s[j]) /\ x \in ToSet(s[j].records)
<1> DEFINE n == Len(s)
<1>1. PICK H : Steps(H, s, fault) /\ tx = H[n]
  BY TransactionSteps
<1> DEFINE Adds(i) == \A x : x \in H[i].db.records <=>
                               \/ x \in db.records
                               \/ \E j \in 1..i : IsBatch(s[j]) /\ x \in ToSet(s[j].records)
           P(i) == H[i].db.runs = db.runs /\ Adds(i)
           T == {i \in 0..n : P(i)}
<1>2. n \in Nat
  OBVIOUS
<1>3. P(0)
  <2>1. H[0].db = db
    BY <1>1 DEF Steps
  <2> QED BY <2>1
<1>4. ASSUME NEW i \in 0..n, P(i), i < n PROVE P(i + 1)
  <2> DEFINE k == i + 1
             e == s[k]
             tx1 == H[i]
             tx2 == H[k]
             ok == Accepts(tx1, e, fault)
  <2>1. k \in 1..n /\ k - 1 = i
    BY <1>2, <1>4
  <2>2. e \in Entry
    BY <2>1
  <2>3. tx2 = Stored(tx1, e, fault)
    <3> HIDE DEF k
    <3> QED BY <1>1, <2>1 DEF Steps
  <2>4. tx1 \in Tx /\ tx1.db.runs = db.runs
    BY <1>1, <1>4 DEF Steps
  <2>5. \A x : x \in tx1.db.records <=>
                 \/ x \in db.records
                 \/ \E j \in 1..i : IsBatch(s[j]) /\ x \in ToSet(s[j].records)
    BY <1>4
  <2>6. IsBatch(e) => ok
    BY <2>2, <2>4, EntryKinds DEF Accepts, RunOf, IsBatch
  <2> HIDE DEF tx1, tx2, ok, e
  <2>7. /\ tx2.db.runs = db.runs
        /\ ok => StoredAs(tx2.db, tx1.db, e)
        /\ ~ok => tx2.db = tx1.db
    BY <2>2, <2>3, <2>4, StoredFacts DEF ok
  <2>8. /\ IsBatch(e) => tx2.db.records = tx1.db.records \cup ToSet(e.records)
        /\ ~IsBatch(e) => tx2.db.records = tx1.db.records
    BY <2>6, <2>7 DEF StoredAs
  <2>9. ASSUME NEW x
        PROVE  x \in tx2.db.records <=> \/ x \in tx1.db.records
                                        \/ IsBatch(e) /\ x \in ToSet(e.records)
    BY <2>8
  <2>10. \A j : j \in 1..k <=> j \in 1..i \/ j = k
    BY <1>4
  <2> HIDE DEF k
  <2>11. ASSUME NEW x
         PROVE (\E j \in 1..k : IsBatch(s[j]) /\ x \in ToSet(s[j].records)) <=>
                 \/ \E j \in 1..i : IsBatch(s[j]) /\ x \in ToSet(s[j].records)
                 \/ IsBatch(e) /\ x \in ToSet(e.records)
    BY <2>10 DEF e
  <2>12. Adds(k)
    BY <2>5, <2>9, <2>11 DEF tx2
  <2> QED BY <2>7, <2>12 DEF tx2, k
<1> HIDE DEF P
<1>5. 0..n \subseteq T
  <2>1. 0 \in T /\ \A i \in 0..n : i \in T /\ i < n => i + 1 \in T
    BY <1>2, <1>3, <1>4
  <2> HIDE DEF T, n
  <2> QED BY <1>2, <2>1, AllIndices
<1>6. P(n)
  BY <1>2, <1>5
<1> QED BY <1>1, <1>6 DEF P

\* Every batch of the run being recorded is saved, and the head is where the last of them
\* ends.
LEMMA AllBatchesSaved ==
  ASSUME Base, Live \in db.runs, "commit" \notin Faults,
         NEW run, NEW rest, NEW fault, NEW results, Commits(run, rest, fault, results)
  PROVE  /\ HeadMoves(Batches(run), Ends(run), Len(run), worker.head.throughSeq, worker'.head.throughSeq)
         /\ \A x : x \in db'.records <=> x \in db.records \/ \E i \in Batches(run) : x \in Loads(run)[i]
<1>1. /\ fault # "commit" /\ run \in Seq(Entry) /\ db \in DbState /\ DOMAIN run = 1..Len(run)
      /\ Transaction(run, fault) = [db |-> db', results |-> results]
  BY DEF Commits, Base, TypeOK
<1> DEFINE tx == [db |-> db', results |-> results]
<1>2. tx.results = results /\ tx.db = db' /\ tx = Transaction(run, fault)
  BY <1>1
<1> HIDE DEF tx
<1>3. \A i \in 1..Len(run) : IsBatch(run[i]) => results[i]
  BY <1>1, <1>2, BatchResults
<1>4. SavedBatches(run, results) = Batches(run)
  <2>1. ASSUME NEW i \in Batches(run) PROVE i \in SavedBatches(run, results)
    <3>1. i \in 1..Len(run) /\ IsBatch(run[i]) /\ \A j \in 1..i : j \in 1..Len(run)
      BY <1>1 DEF Batches
    <3> QED BY <1>1, <1>3, <3>1 DEF SavedBatches
  <2>2. ASSUME NEW i \in SavedBatches(run, results) PROVE i \in Batches(run)
    BY <1>1 DEF SavedBatches, Batches
  <2> QED BY <2>1, <2>2
<1>5. \A i \in Batches(run) : i \in 1..Len(run) /\ i \in Nat /\ i <= Len(run) /\ Ends(run)[i] = run[i].throughSeq
  BY <1>1 DEF Batches, Ends
<1>6. \A x : x \in db'.records <=> x \in db.records \/ \E i \in Batches(run) : x \in Loads(run)[i]
  <2>1. \A x : x \in db'.records <=>
                 \/ x \in db.records
                 \/ \E j \in 1..Len(run) : IsBatch(run[j]) /\ x \in ToSet(run[j].records)
    BY <1>1, <1>2, BatchesAdd
  <2> QED BY <2>1 DEF Batches, Loads
<1>7. CASE Batches(run) = {}
  <2>1. worker'.head = worker.head
    BY <1>4, <1>7 DEF Commits
  <2> QED BY <1>6, <1>7, <2>1 DEF HeadMoves
<1>8. CASE Batches(run) # {}
  <2>1. PICK i \in Batches(run) : /\ \A j \in Batches(run) : j <= i
                                  /\ worker'.head = [throughSeq |-> run[i].throughSeq, tick |-> run[i].tick]
    BY <1>4, <1>8 DEF Commits
  <2>2. worker'.head.throughSeq = Ends(run)[i]
    BY <1>5, <2>1
  <2> QED BY <1>5, <1>6, <2>1, <2>2 DEF HeadMoves
<1> QED BY <1>6, <1>7, <1>8

(***************************************************************************)
(* What is saved is always the whole of the beginning of the run. What is  *)
(* on its way to the database carries on from there, without a gap, as     *)
(* long as the database is open.                                           *)
(***************************************************************************)
WayChain(w, h, E, last) ==
  /\ Chain(Batches(w), Ends(w), Loads(w), h, E, last)
  /\ Complete(Batches(w), Ends(w), h, E)

LastSeq == sim.recorder.lastThroughSeq
Saved   == worker.head.throughSeq

SavedInv ==
  /\ db.records = UpToSeq(emitted, Saved)
  /\ Saved <= LastSeq
  /\ ~sim.recorder.header => Saved = -1
  /\ sim.recorder.header /\ worker.open => WayChain(Way, Saved, emitted, LastSeq)

PrefixInv == Base /\ WorkerInv /\ RunsInv /\ SavedInv

\* What is known of heads and seqs.
LEMMA SavedTypes ==
  ASSUME Base
  PROVE  /\ Saved \in Int /\ LastSeq \in Int /\ LastSeq = sim.buffer.seq - 1 /\ sim.buffer.seq \in Nat
         /\ emitted \subseteq TraceRecord /\ db.records \subseteq TraceRecord
         /\ \A e \in emitted : e.seq \in Nat /\ e.seq <= LastSeq /\ e.seq < sim.buffer.seq
<1>1. /\ sim \in SimState /\ worker.head \in HeadRecord /\ db \in DbState
      /\ BufferOK(sim.buffer) /\ UpTo(sim.recorder, sim.buffer)
  BY DEF Base, TypeOK, WorkerState, SimOK
<1>2. sim.buffer.seq \in Nat /\ LastSeq = sim.buffer.seq - 1 /\ emitted \subseteq TraceRecord
  BY <1>1 DEF BufferOK, Buffer, UpTo, emitted, LastSeq
<1>3. \A e \in emitted : e.seq \in Nat /\ e.seq < sim.buffer.seq
  BY <1>1, <1>2 DEF BufferOK, KeepsEmitted, TraceRecord, emitted
<1> QED BY <1>1, <1>2, <1>3 DEF HeadRecord, DbState, Saved

\* A batch of what is new follows what is on its way.
LEMMA BatchFollows ==
  ASSUME NEW w \in Seq(Entry), NEW h, NEW E, NEW last, WayChain(w, h, E, last),
         NEW F, NEW top, GoneOn(E, last, F, top), NEW v, NEW batch, OneBatch(v, batch),
         ToSet(batch.records) = After(F, last), batch.throughSeq = top,
         NEW p, p = w \o v
  PROVE  WayChain(p, h, F, top)
<1>1. Following(w, v, p)
  BY Follows DEF OneBatch
<1>2. PICK m : /\ Joined(Batches(w), Ends(w), Loads(w), m, Batches(p), Ends(p), Loads(p))
               /\ Ends(p)[m] = batch.throughSeq /\ Loads(p)[m] = ToSet(batch.records)
  BY <1>1, BatchJoins
<1>3. Ends(p)[m] = top /\ Loads(p)[m] = After(F, last)
  BY <1>2
<1> QED BY <1>2, <1>3, ChainGrows DEF WayChain

\* Of nothing at all, nothing is on its way.
LEMMA NoWay ==
  WayChain(<<>>, -1, {}, -1)
<1>1. Batches(<<>>) = {}
  BY DEF Batches
<1> QED BY <1>1 DEF WayChain, Chain, Complete, Numbers, Limits, Ordered

\* What a transaction takes from the way, it saves.
LEMMA TakenIsSaved ==
  ASSUME Base, Base', WorkerInv, RunsInv, SavedInv, worker.open, "commit" \notin Faults,
         NEW run, NEW rest, NEW fault, NEW results, Commits(run, rest, fault, results),
         UNCHANGED <<sim, toStorage>>
  PROVE  /\ db'.records = UpToSeq(emitted, Saved')
         /\ Saved' \in Int /\ Saved <= Saved'
         /\ WayChain(Way', Saved', emitted, LastSeq)
<1> DEFINE p == Way
           v == Way'
           n == Len(run)
           h == Saved
           k == Saved'
           D == Remaining(p, n)
<1>1. run \in Seq(Handed) /\ p = run \o v /\ v \in Seq(Handed) /\ sim.recorder.header
  BY WayTaken
<1>2. Live \in db.runs
  BY <1>1 DEF RunsInv
<1> HIDE DEF p, v
<1>3. run \in Seq(Entry) /\ v \in Seq(Entry)
  BY <1>1, Wider DEF Entry
<1>4. Following(run, v, p)
  BY <1>1, <1>3, Follows
<1>5. n \in Nat
  BY <1>1
<1>6. /\ Moved(D, Ends(p), Loads(p), n, Batches(v), Ends(v), Loads(v))
      /\ \A i : i \in Batches(run) <=> i \in Batches(p) /\ i <= n
      /\ \A i \in Batches(run) : Ends(p)[i] = Ends(run)[i] /\ Loads(p)[i] = Loads(run)[i]
  <2> HIDE DEF n
  <2>1. /\ Moved(D, Ends(p), Loads(p), n, Batches(v), Ends(v), Loads(v))
        /\ \A i : i \in Batches(run) <=> i \in Batches(p) /\ i <= n
        /\ \A i \in Batches(run) : Ends(p)[i] = run[i].throughSeq /\ Loads(p)[i] = ToSet(run[i].records)
    BY <1>3, <1>4, BatchesGo DEF n
  <2>2. \A i \in Batches(run) : Ends(run)[i] = run[i].throughSeq /\ Loads(run)[i] = ToSet(run[i].records)
    BY DEF Ends, Loads
  <2> QED BY <2>1, <2>2
<1>7. /\ HeadMoves(Batches(run), Ends(run), n, h, k)
      /\ \A x : x \in db'.records <=> x \in db.records \/ \E i \in Batches(run) : x \in Loads(run)[i]
  BY <1>2, AllBatchesSaved DEF Saved
<1>8. WayChain(p, h, emitted, LastSeq) /\ db.records = UpToSeq(emitted, h)
  BY <1>1 DEF SavedInv, p
<1> HIDE DEF h, k, n, D
<1>9. HeadMoves(Batches(p), Ends(p), n, h, k)
  <2>1. HeadMoves(Batches(run), Ends(run), n, h, k)
    BY <1>7
  <2>2. CASE (\A i \in Batches(run) : i > n) /\ k = h
    <3>1. \A i \in Batches(p) : i > n
      <4> SUFFICES ASSUME NEW i \in Batches(p), ~(i > n) PROVE FALSE
        OBVIOUS
      <4>1. i <= n
        BY <1>5 DEF Batches
      <4>2. i \in Batches(run)
        BY <1>6, <4>1
      <4> QED BY <1>5, <2>2, <4>1, <4>2 DEF Batches
    <3> QED BY <2>2, <3>1 DEF HeadMoves
  <2>3. CASE \E i \in Batches(run) : i <= n /\ k = Ends(run)[i] /\ \A j \in Batches(run) : j <= n => j <= i
    <3>1. PICK i \in Batches(run) : i <= n /\ k = Ends(run)[i] /\ \A j \in Batches(run) : j <= n => j <= i
      BY <2>3
    <3>2. i \in Batches(p) /\ k = Ends(p)[i] /\ \A j \in Batches(p) : j <= n => j <= i
      BY <1>6, <3>1
    <3> QED BY <3>1, <3>2 DEF HeadMoves
  <2> QED BY <2>1, <2>2, <2>3 DEF HeadMoves
<1>10. \A e : e \in db'.records <=> e \in UpToSeq(emitted, h) \/ \E i \in Batches(p) : i <= n /\ e \in Loads(p)[i]
  BY <1>6, <1>7, <1>8
<1>11. \A i : i \in D <=> i \in Batches(p) /\ i > n
  BY DEF Remaining, D
<1>12. /\ Chain(D, Ends(p), Loads(p), k, emitted, LastSeq) /\ Complete(D, Ends(p), k, emitted)
       /\ db'.records = UpToSeq(emitted, k) /\ k \in Int /\ h <= k
  BY <1>5, <1>9, <1>8, <1>10, <1>11, ChainTaken, SMTT(30) DEF WayChain
<1>13. WayChain(v, k, emitted, LastSeq)
  BY <1>6, <1>12, ChainMoved DEF WayChain
<1> QED BY <1>12, <1>13 DEF h, k, v

\* The run goes on.
LEMMA EmittedGoesOn ==
  ASSUME Base, RunHands
  PROVE  GoneOn(emitted, LastSeq, emitted', LastSeq')
<1>1. PICK out : Hands(sim, sim', out)
  BY DEF RunHands, HandsOver
<1>2. Grown(sim.buffer, sim'.buffer) /\ SimOK(sim')
  BY <1>1 DEF Hands
<1>3. /\ emitted \subseteq emitted' /\ sim'.buffer.seq >= sim.buffer.seq
      /\ \A e \in emitted' : e \in emitted \/ e.seq >= sim.buffer.seq
  BY <1>2 DEF Grown, emitted
<1>4. /\ BufferOK(sim'.buffer) /\ UpTo(sim'.recorder, sim'.buffer) /\ sim'.buffer \in Buffer
  BY <1>2 DEF SimOK, BufferOK
<1>5. sim'.buffer.seq \in Nat /\ LastSeq' = sim'.buffer.seq - 1
  BY <1>4 DEF Buffer, UpTo, LastSeq
<1>6. \A e \in emitted' : e.seq \in Nat /\ e.seq < sim'.buffer.seq
  BY <1>4, <1>5 DEF BufferOK, Buffer, KeepsEmitted, TraceRecord, emitted
<1>7. LastSeq = sim.buffer.seq - 1 /\ sim.buffer.seq \in Nat
  BY SavedTypes
<1> DEFINE F == emitted'
           E == emitted
           q == LastSeq'
           x == sim.buffer.seq
           y == sim'.buffer.seq
<1> HIDE DEF F, E, q, x, y
<1> QED BY <1>3, <1>5, <1>6, <1>7 DEF GoneOn, F, E, q, x, y

\* What the recorder hands over carries on from what is on its way.
LEMMA HandedFollows ==
  ASSUME Base, Base', SavedInv, worker.open, RunHands
  PROVE  WayChain(Way', Saved, emitted', LastSeq')
<1>1. PICK out : Hands(sim, sim', out) /\ toStorage' = toStorage \o out
  BY DEF RunHands, HandsOver
<1> DEFINE E == emitted
           F == emitted'
           last == LastSeq
           top == LastSeq'
           h == Saved
           new == NewerThan(sim'.buffer, From(sim))
<1>2. /\ Grown(sim.buffer, sim'.buffer)
      /\ \E items \in Seq(Item) : Sends(sim.recorder, sim'.recorder, new, items, out)
  BY <1>1 DEF Hands
<1>3. /\ h \in Int /\ last \in Int /\ last = sim.buffer.seq - 1 /\ sim.buffer.seq \in Nat
      /\ E \subseteq TraceRecord
      /\ \A e \in E : e.seq \in Nat /\ e.seq <= last
  BY SavedTypes
<1>4. /\ top \in Int /\ top = sim'.buffer.seq - 1 /\ sim'.buffer.seq \in Nat
      /\ \A e \in F : e.seq \in Nat /\ e.seq <= top
  <2>1. SimOK(sim')
    BY DEF Base
  <2>2. /\ BufferOK(sim'.buffer) /\ UpTo(sim'.recorder, sim'.buffer) /\ sim'.buffer \in Buffer
    BY <2>1 DEF SimOK, BufferOK
  <2>3. sim'.buffer.seq \in Nat /\ top = sim'.buffer.seq - 1
    BY <2>2 DEF Buffer, UpTo, LastSeq
  <2>4. \A e \in F : e.seq \in Nat /\ e.seq < sim'.buffer.seq
    BY <2>2, <2>3 DEF BufferOK, Buffer, KeepsEmitted, TraceRecord, emitted
  <2> QED BY <2>3, <2>4
<1>5. GoneOn(E, last, F, top)
  BY EmittedGoesOn
<1>6. \E E0, last0 : WayChain(Way, h, E0, last0) /\ GoneOn(E0, last0, F, top) /\ new = After(F, last0)
  <2>1. CASE sim.recorder.header
    <3>1. WayChain(Way, h, E, last)
      BY <2>1 DEF SavedInv
    <3>2. \A e \in F : e.seq >= From(sim) <=> e.seq > last
      <4>1. From(sim) = last + 1
        BY <1>3, <2>1 DEF From
      <4> HIDE DEF F, last
      <4> QED BY <1>3, <1>4, <4>1
    <3>3. new = After(F, last)
      BY <3>2 DEF NewerThan, After, emitted
    <3> QED BY <1>5, <3>1, <3>3
  <2>2. CASE ~sim.recorder.header
    <3>1. toStorage = <<>> /\ worker.held = <<>> /\ ~HasGiven(worker.queue) /\ h = -1
      BY <2>2 DEF Base, HeaderInv, SavedInv
    <3>2. Given(worker.queue) = <<>>
      BY <3>1, NoneGiven DEF Base, TypeOK, WorkerState
    <3>3. Way = <<>>
      BY <3>1, <3>2 DEF Way
    <3>4. GoneOn({}, -1, F, top)
      <4> HIDE DEF F, top
      <4> QED BY <1>4 DEF GoneOn
    <3>5. new = After(F, -1)
      <4>1. From(sim) = 0
        BY <2>2 DEF From
      <4>2. \A e \in F : e.seq >= 0 /\ e.seq > -1
        <5> HIDE DEF F
        <5> QED BY <1>4
      <4> QED BY <4>1, <4>2 DEF NewerThan, After, emitted
    <3> QED BY <3>1, <3>3, <3>4, <3>5, NoWay
  <2> QED BY <2>1, <2>2
<1>7. PICK E0, last0 : WayChain(Way, h, E0, last0) /\ GoneOn(E0, last0, F, top) /\ new = After(F, last0)
  BY <1>6
<1>8. Way' = Way \o out /\ Way \in Seq(Handed) /\ Way \in Seq(Entry) /\ out \in Seq(Handed)
  <2> DEFINE a == worker.held \o Given(worker.queue)
             b == toStorage
  <2>1. Way = a \o b /\ Way' = a \o (b \o out)
    BY <1>1 DEF RunHands, Way
  <2>2. a \in Seq(Handed) /\ b \in Seq(Handed) /\ out \in Seq(Handed)
    <3>1. worker.held \in Seq(Handed) /\ Given(worker.queue) \in Seq(Handed) /\ b \in Seq(Handed)
      BY WayType DEF Base
    <3>2. out \in Seq(Handed)
      BY <1>1, HandsType
    <3> QED BY <3>1, <3>2
  <2> HIDE DEF a, b
  <2>3. (a \o b) \o out = a \o (b \o out)
    BY <2>2, Regrouped
  <2> QED BY <2>1, <2>2, <2>3, WayType DEF Base
<1> HIDE DEF F, top, h, new
<1>9. PICK items \in Seq(Item) : Sends(sim.recorder, sim'.recorder, new, items, out)
  BY <1>2
<1>10. CASE new = {} /\ out = <<>>
  <2>1. Way' = Way
    BY <1>8, <1>10
  <2>2. F = E0 /\ last0 <= top /\ top \in Int
    BY <1>4, <1>7, <1>10 DEF GoneOn, After
  <2>3. WayChain(Way, h, F, top)
    BY <1>7, <2>2, ChainStays DEF WayChain
  <2> QED BY <2>1, <2>3 DEF h, F, top
<1>11. ASSUME NEW batch \in BatchEntry, out = Append(items, batch), ToSet(batch.records) = new,
              batch.throughSeq = sim'.recorder.lastThroughSeq
       PROVE  WayChain(Way', h, F, top)
  <2>1. OneBatch(out, batch)
    BY <1>11, ItemsThenBatch
  <2>2. batch.throughSeq = top /\ ToSet(batch.records) = After(F, last0)
    BY <1>7, <1>11 DEF top, LastSeq
  <2> QED BY <1>7, <1>8, <2>1, <2>2, BatchFollows
<1>12. \/ new = {} /\ out = <<>>
       \/ \E batch \in BatchEntry : /\ out = Append(items, batch) /\ ToSet(batch.records) = new
                                /\ batch.throughSeq = sim'.recorder.lastThroughSeq
  BY <1>9 DEF Sends
<1> QED BY <1>10, <1>11, <1>12 DEF h, F, top

\* What is handed over keeps the invariant ...
LEMMA HandsSaved ==
  ASSUME Base, Base', SavedInv, RunHands
  PROVE  SavedInv'
<1>1. UNCHANGED <<worker, db>> /\ sim'.recorder.header
  BY DEF RunHands, HandsOver, Hands
<1>2. Saved' = Saved /\ db'.records = db.records /\ worker'.open = worker.open
  BY <1>1 DEF Saved
<1>3. GoneOn(emitted, LastSeq, emitted', LastSeq')
  BY EmittedGoesOn
<1>4. /\ emitted \subseteq emitted' /\ LastSeq' \in Int /\ LastSeq <= LastSeq'
      /\ \A e \in emitted' : e.seq \in Int /\ (e \in emitted \/ e.seq > LastSeq)
  BY <1>3 DEF GoneOn
<1>5. Saved \in Int /\ LastSeq \in Int /\ Saved <= LastSeq
  BY SavedTypes DEF SavedInv
<1>6. UpToSeq(emitted', Saved) = UpToSeq(emitted, Saved)
  <2> DEFINE F == emitted'
             E == emitted
  <2> HIDE DEF F, E
  <2>1. /\ E \subseteq F
        /\ \A e \in F : e.seq \in Int /\ (e \in E \/ e.seq > LastSeq)
    BY <1>4 DEF F, E
  <2>2. UpToSeq(F, Saved) = UpToSeq(E, Saved)
    BY <1>5, <2>1 DEF UpToSeq
  <2> QED BY <2>2 DEF F, E
<1>7. Saved' <= LastSeq'
  <2> HIDE DEF Saved, LastSeq
  <2>1. Saved <= LastSeq'
    BY <1>4, <1>5
  <2> QED BY <1>2, <2>1
<1>8. worker.open => WayChain(Way', Saved', emitted', LastSeq')
  BY <1>2, HandedFollows
<1>9. db'.records = UpToSeq(emitted', Saved')
  BY <1>2, <1>6 DEF SavedInv
<1> QED BY <1>1, <1>2, <1>7, <1>8, <1>9 DEF SavedInv

\* ... and every other step does; the head never goes back.
LEMMA SavedSteps ==
  ASSUME Undisturbed, "commit" \notin Faults, Base, Base', WorkerInv, RunsInv, SavedInv, [Next]_vars
  PROVE  SavedInv' /\ Saved <= Saved'
<1>1. Saved \in Int /\ LastSeq \in Int /\ Saved <= Saved
  BY SavedTypes
<1>2. ASSUME worker'.head = worker.head, sim'.recorder.header = sim.recorder.header,
             LastSeq' = LastSeq, emitted' = emitted, db'.records = db.records,
             worker'.open => worker.open /\ Way' = Way
      PROVE  SavedInv' /\ Saved <= Saved'
  BY <1>1, <1>2 DEF SavedInv, Saved
<1>3. CASE RunGoesOn
  BY <1>2, <1>3 DEF RunGoesOn, GoesOn, Rests, Alike, Way, LastSeq, emitted
<1>4. CASE RunAcks
  <2>1. /\ SimOK(sim) /\ SimOK(sim') /\ sim'.buffer.seq = sim.buffer.seq /\ emitted' = emitted
        /\ sim'.recorder.header = sim.recorder.header
    BY <1>4 DEF RunAcks, Acks, Base, emitted
  <2>2. LastSeq' = LastSeq
    BY <2>1 DEF SimOK, UpTo, LastSeq
  <2> QED BY <1>2, <1>4, <2>1, <2>2 DEF RunAcks, Way
<1>5. CASE RunHands
  <2>1. SavedInv'
    BY <1>5, HandsSaved
  <2> QED BY <1>1, <1>5, <2>1 DEF RunHands, Saved
<1>6. CASE QueueSteps
  <2>1. worker'.head = worker.head /\ worker'.open = worker.open /\ UNCHANGED <<sim, db>>
    BY <1>6 DEF QueueSteps, Quietly, Quiet, Asked, Takes, Delivered, HoldsOne, GivesBack, Returns
  <2>2. worker.open => Way' = Way
    BY <1>6, WayKept
  <2> QED BY <1>2, <2>1, <2>2 DEF LastSeq, emitted
<1>7. CASE CommitsSome
  <2>1. PICK run, rest, fault, results : Commits(run, rest, fault, results)
    BY <1>7 DEF CommitsSome
  <2>2. UNCHANGED <<sim, toStorage>>
    BY <1>7 DEF CommitsSome
  <2>3. worker.open /\ worker'.open = worker.open
    BY <2>1 DEF Commits, Base, HeaderInv
  <2>4. /\ db'.records = UpToSeq(emitted, Saved')
        /\ Saved' \in Int /\ Saved <= Saved'
        /\ WayChain(Way', Saved', emitted, LastSeq)
    BY <2>1, <2>2, <2>3, TakenIsSaved
  <2>5. Saved' <= LastSeq
    BY <2>4 DEF WayChain, Chain, Limits
  <2>6. sim.recorder.header
    BY <2>1, <2>2, WayTaken
  <2> QED BY <2>2, <2>4, <2>5, <2>6 DEF SavedInv, LastSeq, emitted
<1>8. CASE Creates \/ TakesTime
  <2>1. /\ worker'.head = worker.head /\ worker'.open = worker.open /\ db'.records = db.records
        /\ UNCHANGED <<sim, toStorage>>
        /\ worker.queue # <<>> /\ Head(worker.queue).op \in {"create", "slow"}
        /\ worker'.queue = Tail(worker.queue) /\ worker'.held = worker.held
        /\ worker.queue \in Seq(Entry)
    BY <1>8 DEF Creates, TakesTime, Serving, Base, TypeOK, WorkerState
  <2>2. ~FromRecorder(Head(worker.queue))
    <3> DEFINE e == Head(worker.queue)
    <3>1. e \in Entry /\ e.op \in {"create", "slow"}
      BY <2>1
    <3> HIDE DEF e
    <3>2. ~FromRecorder(e)
      BY <3>1 DEF Entry, Handed, Item, BatchEntry, Request, FromRecorder
    <3> QED BY <3>2 DEF e
  <2>3. Way' = Way
    BY <2>1, <2>2, WayPassed
  <2> QED BY <1>2, <2>1, <2>3 DEF LastSeq, emitted
<1>9. CASE Deletes
  BY <1>9, NoDeletes
<1>10. CASE Closes
  BY <1>2, <1>10 DEF Closes, LastSeq, emitted
<1> QED BY <1>3, <1>4, <1>5, <1>6, <1>7, <1>8, <1>9, <1>10, StepKinds DEF RunSteps, ServingSteps

\* At the start nothing is saved.
LEMMA SavedStarts ==
  ASSUME Init
  PROVE  WorkerInv /\ RunsInv /\ SavedInv
<1>1. Base
  BY BaseStarts
<1>2. /\ worker.queue = <<>> /\ worker.held = <<>> /\ worker.head = [throughSeq |-> -1, tick |-> -1]
      /\ db.records = {} /\ toSim = <<>> /\ ~sim.recorder.header
  BY InitialSimOK DEF Init, StorageInit, InitialWorker, EmptyDb
<1>3. WorkerInv /\ RunsInv
  BY <1>2 DEF WorkerInv, RunsInv, HeaderTold
<1>4. Saved = -1
  BY <1>2 DEF Saved
<1>5. /\ LastSeq = sim.buffer.seq - 1 /\ sim.buffer.seq \in Nat
      /\ \A e \in emitted : e.seq \in Nat
  BY <1>1, SavedTypes
<1>6. UpToSeq(emitted, -1) = {}
  BY <1>5 DEF UpToSeq
<1>7. -1 <= LastSeq
  BY <1>5
<1> QED BY <1>2, <1>3, <1>4, <1>6, <1>7 DEF SavedInv

\* A step of the recording is a step of the run, a save, or neither.
LEMMA StepSaves ==
  ASSUME Undisturbed, "commit" \notin Faults, PrefixInv, PrefixInv', [Next]_vars
  PROVE  SavedPrefix!Emit \/ SavedPrefix!Save \/ UNCHANGED <<emitted, db.records, Saved>>
<1>1. /\ Saved \in Int /\ LastSeq \in Int /\ db.records = UpToSeq(emitted, Saved) /\ Saved <= LastSeq
      /\ \A e \in emitted : e.seq \in Nat /\ e.seq <= LastSeq
  BY SavedTypes DEF PrefixInv, SavedInv
<1>2. db'.records = UpToSeq(emitted', Saved') /\ emitted' \subseteq TraceRecord
  <2>1. Base' /\ SavedInv'
    BY DEF PrefixInv
  <2>2. BufferOK(sim'.buffer)
    BY <2>1 DEF Base, SimOK
  <2> QED BY <2>1, <2>2 DEF SavedInv, BufferOK, Buffer, emitted
<1>3. CASE RunHands
  <2>1. GoneOn(emitted, LastSeq, emitted', LastSeq') /\ UNCHANGED <<db, worker>>
    BY <1>3, EmittedGoesOn DEF PrefixInv, RunHands
  <2>2. ASSUME NEW r \in emitted' \ emitted
        PROVE  r.seq > Saved /\ \A e \in emitted : e.seq < r.seq
    <3>1. r.seq \in Int /\ r.seq > LastSeq
      BY <2>1 DEF GoneOn
    <3> HIDE DEF emitted, LastSeq, Saved
    <3> QED BY <1>1, <3>1
  <2>3. emitted \subseteq emitted' /\ UNCHANGED <<db.records, Saved>>
    BY <2>1 DEF GoneOn, Saved
  <2> QED BY <1>2, <2>2, <2>3 DEF SavedPrefix!Emit, Saved
<1>4. CASE ~RunHands
  <2>1. emitted' = emitted
    BY <1>4, StepKinds DEF PrefixInv, RunSteps, RunGoesOn, GoesOn, Rests, RunAcks, Acks, emitted,
       QueueSteps, Quietly, Asked, Delivered, HoldsOne, GivesBack, ServingSteps, CommitsSome, Creates, Deletes,
       TakesTime, Closes
  <2>2. Saved' >= Saved
    <3>1. Saved <= Saved' /\ Saved' \in Int
      BY SavedSteps, SavedTypes DEF PrefixInv, Base, TypeOK, WorkerState, HeadRecord, Saved
    <3> QED BY <1>1, <3>1
  <2> QED BY <1>2, <2>1, <2>2 DEF SavedPrefix!Save, Saved, UpToSeq
<1> QED BY <1>3, <1>4

\* What is saved of the run is always the whole of its beginning, and the head that is
\* announced says exactly how far, and only moves on: through the quota's pause, what is held
\* and given back, items that fail and the closing of the database. Nothing is re-simulated
\* meanwhile (see the run recording_held), a transaction is not undone as a whole (see
\* recording_faults), and the database is not replaced.
THEOREM RecordingSavesAPrefix == Undisturbed /\ "commit" \notin Faults /\ Spec => SavedIsAPrefix
<1> SUFFICES ASSUME Undisturbed, "commit" \notin Faults PROVE Spec => SavedIsAPrefix
  OBVIOUS
<1>1. Init => PrefixInv /\ SavedPrefix!Init
  <2> SUFFICES ASSUME Init PROVE PrefixInv /\ SavedPrefix!Init
    OBVIOUS
  <2>1. PrefixInv
    BY BaseStarts, SavedStarts DEF PrefixInv
  <2>2. emitted \subseteq TraceRecord
    BY <2>1, SavedTypes DEF PrefixInv
  <2>3. db.records = {} /\ worker.head.throughSeq = -1
    BY DEF Init, StorageInit, EmptyDb, InitialWorker
  <2> QED BY <2>1, <2>2, <2>3 DEF SavedPrefix!Init
<1>2. PrefixInv /\ [Next]_vars => PrefixInv'
  BY BaseSteps, WorkerInvSteps, RunsInvSteps, SavedSteps DEF PrefixInv
<1>3. PrefixInv /\ PrefixInv' /\ [Next]_vars => [SavedPrefix!Next]_(SavedPrefix!vars)
  BY StepSaves DEF SavedPrefix!Next, SavedPrefix!vars, Saved
<1> QED BY <1>1, <1>2, <1>3, PTL DEF Spec, SavedIsAPrefix

(***************************************************************************)
(* What is in flight, for the recorder: batches behind the head it was     *)
(* told last, which cover what was gathered since, without a gap           *)
(***************************************************************************)
Acked   == sim.recorder.persistedAt.throughSeq
Seqs(f) == [i \in 1..Len(f) |-> f[i].throughSeq]

FlightChain(f, loads, p, E, last) ==
  /\ Chain(1..Len(f), Seqs(f), loads, p, E, last) /\ Complete(1..Len(f), Seqs(f), p, E)
  /\ \A i \in 1..Len(f) : IsFiniteSet(loads[i]) /\ f[i].records = Cardinality(loads[i])
FlightOK(r, E, last) == \E loads : FlightChain(r.inFlight, loads, r.persistedAt.throughSeq, E, last)

\* A batch more is in flight, of all that is new.
LEMMA FlightGrows ==
  ASSUME NEW r \in RecorderState, NEW q, NEW E, NEW last, FlightOK(r, E, last),
         NEW F, NEW top, GoneOn(E, last, F, top),
         NEW u \in Unsaved, q.inFlight = Append(r.inFlight, u), q.persistedAt = r.persistedAt,
         u.throughSeq = top, u.records = Cardinality(After(F, last)), IsFiniteSet(After(F, last))
  PROVE  FlightOK(q, F, top)
<1> DEFINE f == r.inFlight
           g == q.inFlight
           p == r.persistedAt.throughSeq
           m == Len(g)
           new == After(F, last)
<1>1. PICK loads : FlightChain(f, loads, p, E, last)
  BY DEF FlightOK
<1> DEFINE more == [i \in 1..m |-> IF i = m THEN new ELSE loads[i]]
<1>2. /\ m = Len(f) + 1 /\ Len(f) \in Nat /\ g[m] = u
      /\ \A i \in 1..Len(f) : g[i] = f[i]
  BY AppendedOne DEF RecorderState
<1> HIDE DEF f, g, m, new
<1>3. /\ m \in Nat
      /\ \A i : i \in 1..m <=> i \in 1..Len(f) \/ i = m
      /\ \A i \in 1..Len(f) : i < m /\ i \in 1..m
  BY <1>2
<1>4. \A i \in 1..Len(f) : Seqs(g)[i] = Seqs(f)[i] /\ more[i] = loads[i]
  BY <1>2, <1>3 DEF Seqs, m
<1>5. Seqs(g)[m] = top /\ more[m] = new /\ m \in 1..m
  BY <1>2, <1>3 DEF Seqs, m
<1>6. Joined(1..Len(f), Seqs(f), loads, m, 1..m, Seqs(g), more)
  BY <1>3, <1>4 DEF Joined
<1> HIDE DEF more
<1>7. Chain(1..m, Seqs(g), more, p, F, top) /\ Complete(1..m, Seqs(g), p, F)
  BY <1>1, <1>5, <1>6, ChainGrows DEF FlightChain, new
<1>8. \A i \in 1..m : IsFiniteSet(more[i]) /\ g[i].records = Cardinality(more[i])
  BY <1>1, <1>2, <1>3, <1>4, <1>5 DEF FlightChain, new
<1>9. FlightChain(g, more, p, F, top)
  BY <1>7, <1>8 DEF FlightChain, m
<1>10. FlightChain(q.inFlight, more, q.persistedAt.throughSeq, F, top)
  BY <1>9 DEF g, p
<1> QED BY <1>10 DEF FlightOK

\* Nothing is in flight, and nothing is new.
LEMMA FlightRests ==
  ASSUME NEW r, NEW q, NEW E, NEW last, FlightOK(r, E, last), NEW F, NEW top, GoneOn(E, last, F, top), After(F, last) = {},
         q.inFlight = r.inFlight, q.persistedAt.throughSeq = r.persistedAt.throughSeq
  PROVE  FlightOK(q, F, top)
<1>1. PICK loads : FlightChain(r.inFlight, loads, r.persistedAt.throughSeq, E, last)
  BY DEF FlightOK
<1>2. F = E /\ last <= top /\ top \in Int
  BY DEF GoneOn, After
<1>3. FlightChain(q.inFlight, loads, q.persistedAt.throughSeq, F, top)
  BY <1>1, <1>2, ChainStays DEF FlightChain
<1> QED BY <1>3 DEF FlightOK

\* The same, of the batches that are left.
LeftBehind(D, B, n) == \A i : i \in D <=> i \in B /\ i > n
\* What is left when a chain is taken up to n is a chain behind the head reached.
LEMMA ChainLeft ==
  ASSUME NEW B, NEW t, NEW r, NEW h, NEW E, NEW last, Chain(B, t, r, h, E, last), Complete(B, t, h, E),
         NEW n \in Nat, NEW k, HeadMoves(B, t, n, h, k), NEW D, LeftBehind(D, B, n)
  PROVE  Chain(D, t, r, k, E, last) /\ Complete(D, t, k, E)
<1> DEFINE stored == UpToSeq(E, h) \cup UNION {r[i] : i \in {j \in B : j <= n}}
<1>1. \A e : e \in stored <=> e \in UpToSeq(E, h) \/ \E i \in B : i <= n /\ e \in r[i]
  OBVIOUS
<1>2. \A i : i \in D <=> i \in B /\ i > n
  BY DEF LeftBehind
<1> HIDE DEF stored
<1>3. /\ Chain(D, t, r, k, E, last) /\ Complete(D, t, k, E)
      /\ stored = UpToSeq(E, k) /\ k \in Int /\ h <= k
  BY <1>1, <1>2, ChainTaken, SMTT(60)
<1> QED BY <1>3

\* The seqs the recorder may be told as a head.
Known(r) == {r.persistedAt.throughSeq} \cup {r.inFlight[i].throughSeq : i \in 1..Len(r.inFlight)}

\* The recorder takes head: what it covers leaves the front of what is in flight.
Covered(q, r, head) ==
  /\ q.persistedAt = head
  /\ \E n \in 0..Len(r.inFlight) :
       /\ q.inFlight = SubSeq(r.inFlight, n + 1, Len(r.inFlight))
       /\ \A i \in 1..n : r.inFlight[i].throughSeq <= head.throughSeq
       /\ n < Len(r.inFlight) => r.inFlight[n + 1].throughSeq > head.throughSeq

\* Then what is still in flight carries on from the head, and what it may be told next
\* is all that was behind it.
LEMMA FlightTaken ==
  ASSUME NEW r \in RecorderState, NEW q, NEW E, NEW last, FlightOK(r, E, last),
         NEW head, Covered(q, r, head), head.throughSeq \in Known(r), r.persistedAt.throughSeq <= head.throughSeq
  PROVE  /\ FlightOK(q, E, last)
         /\ \A x \in Known(r) : x >= head.throughSeq => x \in Known(q)
<1> DEFINE f == r.inFlight
           g == q.inFlight
           p == r.persistedAt.throughSeq
           k == head.throughSeq
           B == 1..Len(f)
           t == Seqs(f)
<1>1. PICK loads : FlightChain(f, loads, p, E, last)
  BY DEF FlightOK
<1>2. PICK n \in 0..Len(f) : /\ g = SubSeq(f, n + 1, Len(f))
                             /\ \A i \in 1..n : f[i].throughSeq <= k
                             /\ n < Len(f) => f[n + 1].throughSeq > k
  BY DEF Covered
<1>3. f \in Seq(Unsaved) /\ Len(f) \in Nat /\ n \in Nat /\ n <= Len(f) /\ p \in Int
  BY DEF RecorderState, HeadRecord
<1>4. Len(g) = Len(f) - n /\ \A i \in 1..(Len(f) - n) : g[i] = f[n + i]
  <2> HIDE DEF f, g
  <2> QED BY <1>2, <1>3, AfterFirst
<1>5. \A i \in B : t[i] = f[i].throughSeq /\ t[i] \in Int
  <2>1. \A i \in B : f[i] \in Unsaved
    BY <1>3
  <2> QED BY <2>1 DEF Seqs, Unsaved
<1>6. /\ \A i \in B : p <= t[i]
      /\ \A i, j \in B : i < j => t[i] <= t[j]
  BY <1>1 DEF FlightChain, Chain, Ordered
<1>7. k = p \/ \E j \in B : k = t[j]
  BY <1>5 DEF Known
<1>8. k \in Int /\ p <= k
  BY <1>3, <1>5, <1>7
<1>9. \A j \in B : j > n => t[j] > k
  <2> SUFFICES ASSUME NEW j \in B, j > n PROVE t[j] > k
    OBVIOUS
  <2> DEFINE m == n + 1
  <2>1. m \in B /\ n < Len(f) /\ (m = j \/ m < j)
    BY <1>3
  <2>2. t[m] > k
    BY <1>2, <1>5, <2>1
  <2>3. t[m] <= t[j]
    <3> HIDE DEF m
    <3>1. t[m] = t[j] \/ t[m] <= t[j]
      BY <1>6, <2>1
    <3> QED BY <1>5, <2>1, <3>1
  <2> HIDE DEF m, t
  <2> QED BY <1>5, <1>8, <2>1, <2>2, <2>3
<1>10. \A j \in B : j <= n => t[j] <= k
  <2> SUFFICES ASSUME NEW j \in B, j <= n PROVE t[j] <= k
    OBVIOUS
  <2>1. j \in 1..n
    BY <1>3
  <2> QED BY <1>2, <1>5, <2>1
<1> HIDE DEF t, f, g, p, k, B
<1>11. HeadMoves(B, t, n, p, k)
  <2>1. CASE n = 0
    <3>1. \A i \in B : i > n
      BY <2>1 DEF B
    <3>2. k = p
      BY <1>5, <1>7, <1>8, <1>9, <3>1
    <3> QED BY <3>1, <3>2 DEF HeadMoves
  <2>2. CASE n # 0
    <3>1. n \in B /\ n <= n
      BY <1>3, <2>2 DEF B
    <3>2. t[n] <= k /\ p <= t[n] /\ t[n] \in Int
      BY <1>5, <1>6, <1>10, <3>1
    <3>3. k = t[n]
      <4>1. CASE k = p
        BY <1>3, <3>2, <4>1
      <4>2. CASE k # p
        <5>1. PICK j \in B : k = t[j]
          BY <1>7, <4>2
        <5>2. j \in Int
          BY DEF B
        <5>3. j <= n
          BY <1>3, <1>8, <1>9, <5>1, <5>2
        <5>4. j = n \/ t[j] <= t[n]
          BY <1>3, <1>6, <3>1, <5>2, <5>3
        <5> QED BY <1>8, <3>2, <5>1, <5>4
      <4> QED BY <4>1, <4>2
    <3> QED BY <3>1, <3>3 DEF HeadMoves
  <2> QED BY <2>1, <2>2
<1> DEFINE D == {i \in B : i > n}
<1>13. \A i : i \in D <=> i \in B /\ i > n
  OBVIOUS
<1> HIDE DEF D
<1>14. Chain(B, t, loads, p, E, last) /\ Complete(B, t, p, E) /\ LeftBehind(D, B, n)
  BY <1>1, <1>13 DEF FlightChain, B, t, LeftBehind
<1>15. Chain(D, t, loads, k, E, last) /\ Complete(D, t, k, E)
  BY <1>3, <1>11, <1>14, ChainLeft
<1> DEFINE C == 1..Len(g)
           u == Seqs(g)
           s == [i \in C |-> loads[n + i]]
<1>16. \A i \in C : i \in Nat /\ n + i \in D /\ u[i] = t[n + i] /\ s[i] = loads[n + i]
                    /\ n + i \in B /\ g[i] = f[n + i]
  <2> SUFFICES ASSUME NEW i \in C
               PROVE  i \in Nat /\ n + i \in D /\ u[i] = t[n + i] /\ s[i] = loads[n + i]
                      /\ n + i \in B /\ g[i] = f[n + i]
    OBVIOUS
  <2>1. i \in 1..(Len(f) - n) /\ i \in Nat
    BY <1>3, <1>4
  <2>2. n + i \in 1..Len(f) /\ n + i > n
    BY <1>3, <2>1
  <2>3. g[i] = f[n + i]
    BY <1>4, <2>1
  <2> QED BY <1>13, <2>1, <2>2, <2>3 DEF B, t, Seqs
<1>17. \A i \in D : \E j \in C : i = n + j
  <2> SUFFICES ASSUME NEW i \in D PROVE \E j \in C : i = n + j
    OBVIOUS
  <2>1. i \in 1..Len(f) /\ i > n
    BY <1>13 DEF B
  <2>2. i - n \in C /\ i = n + (i - n)
    BY <1>3, <1>4, <2>1
  <2> QED BY <2>2
<1> HIDE DEF C, u, s
<1>18. Moved(D, t, loads, n, C, u, s)
  BY <1>3, <1>16, <1>17 DEF Moved
<1>19. Chain(C, u, s, k, E, last) /\ Complete(C, u, k, E)
  BY <1>15, <1>18, ChainMoved
<1>20. \A i \in C : IsFiniteSet(s[i]) /\ g[i].records = Cardinality(s[i])
  BY <1>1, <1>16 DEF FlightChain, B
<1>21. FlightChain(g, s, k, E, last)
  BY <1>19, <1>20 DEF FlightChain, C, u
<1>22. q.inFlight = g /\ q.persistedAt.throughSeq = k
  BY DEF Covered, g, k
<1>23. ASSUME NEW x \in Known(r), x >= k PROVE x \in Known(q)
  <2>1. CASE x = k
    BY <1>22, <2>1 DEF Known
  <2>2. CASE x # k
    <3>1. PICK j \in B : x = t[j]
      <4>1. x # p
        BY <1>3, <1>8, <1>23, <2>2
      <4> QED BY <1>5, <4>1 DEF Known, f, B, p
    <3>2. j \in D
      <4>1. j > n
        <5>1. j \in Int /\ t[j] \in Int
          BY <1>5 DEF B
        <5> QED BY <1>3, <1>8, <1>10, <1>23, <2>2, <3>1, <5>1
      <4> QED BY <1>13, <4>1
    <3>3. PICK i \in C : j = n + i
      BY <1>17, <3>2
    <3>4. x = g[i].throughSeq /\ i \in 1..Len(g)
      BY <1>5, <1>16, <3>1, <3>3 DEF C
    <3> QED BY <1>22, <3>4 DEF Known
  <2> QED BY <2>1, <2>2
<1> QED BY <1>21, <1>22, <1>23 DEF FlightOK, k

\* A sequence has finitely many members.
LEMMA MembersFinite ==
  ASSUME NEW D, NEW s \in Seq(D) PROVE IsFiniteSet(ToSet(s))
<1> DEFINE n == Len(s)
           T == ToSet(s)
           f == [i \in 1..n |-> s[i]]
<1>1. n \in Nat /\ DOMAIN s = 1..n
  OBVIOUS
<1>2. T = {s[i] : i \in 1..n}
  BY <1>1 DEF ToSet
<1>3. IsFiniteSet(1..n)
  BY <1>1, FS_Interval
<1>4. f \in [1..n -> T] /\ \A x \in T : \E i \in 1..n : f[i] = x
  BY <1>2
<1>5. f \in Surjection(1..n, T)
  BY <1>4 DEF Surjection
<1> HIDE DEF n, T, f
<1>6. IsFiniteSet(T)
  BY <1>3, <1>5, FS_Surjection
<1> QED BY <1>6 DEF T

(***************************************************************************)
(* The heads the recorder has not heard of yet                             *)
(***************************************************************************)
Heads(s) == {i \in 1..Len(s) : s[i].type = "persisted"}

\* Each of them is the end of a batch in flight, or the head the recorder knows; they only
\* move forward, up to what is saved.
HeadsOK(s, r, saved) ==
  /\ \A i \in Heads(s) : /\ s[i].head.throughSeq \in Known(r)
                         /\ r.persistedAt.throughSeq <= s[i].head.throughSeq /\ s[i].head.throughSeq <= saved
  /\ \A i, j \in Heads(s) : i < j => s[i].head.throughSeq <= s[j].head.throughSeq

\* The heads in t are in s, further back.
HeadsOf(t, s) == \E k \in Nat : \A i \in Heads(t) : i \in Int /\ k + i \in Heads(s) /\ t[i] = s[k + i]

\* Behind the heads of s there is one more, h, in t.
HeadsAnd(t, s, h) ==
  \E m \in Int : \A i \in Heads(t) : \/ i \in Heads(s) /\ i \in Int /\ i < m /\ t[i] = s[i]
                                     \/ i = m /\ t[i].head = h

\* What is known are numbers.
LEMMA KnownType ==
  ASSUME NEW r \in RecorderState PROVE Known(r) \subseteq Int /\ r.persistedAt.throughSeq \in Known(r)
<1>1. \A i \in 1..Len(r.inFlight) : r.inFlight[i] \in Unsaved
  BY DEF RecorderState
<1>2. r.persistedAt.throughSeq \in Int
  BY DEF RecorderState, HeadRecord
<1> QED BY <1>1, <1>2 DEF Known, Unsaved

\* Heads are as sound as before when fewer wait, more is known, and more is saved.
LEMMA HeadsStay ==
  ASSUME NEW s, NEW t, HeadsOf(t, s), NEW r, NEW saved \in Int, HeadsOK(s, r, saved), Known(r) \subseteq Int,
         NEW q, Known(r) \subseteq Known(q), q.persistedAt.throughSeq = r.persistedAt.throughSeq,
         NEW top \in Int, saved <= top
  PROVE  HeadsOK(t, q, top)
<1>1. PICK k \in Nat : \A i \in Heads(t) : i \in Int /\ k + i \in Heads(s) /\ t[i] = s[k + i]
  BY DEF HeadsOf
<1>2. ASSUME NEW i \in Heads(t)
      PROVE  /\ t[i].head.throughSeq \in Known(q)
             /\ q.persistedAt.throughSeq <= t[i].head.throughSeq /\ t[i].head.throughSeq <= top
  <2> DEFINE x == t[i].head.throughSeq
             y == r.persistedAt.throughSeq
  <2>1. x \in Known(r) /\ y <= x /\ x <= saved
    BY <1>1 DEF HeadsOK
  <2> HIDE DEF x, y
  <2>2. x \in Known(q) /\ y <= x /\ x <= top
    BY <2>1
  <2> QED BY <2>2 DEF x, y
<1>3. ASSUME NEW i \in Heads(t), NEW j \in Heads(t), i < j
      PROVE  t[i].head.throughSeq <= t[j].head.throughSeq
  <2>1. k + i < k + j /\ k + i \in Heads(s) /\ k + j \in Heads(s) /\ t[i] = s[k + i] /\ t[j] = s[k + j]
    BY <1>1, <1>3
  <2> QED BY <2>1 DEF HeadsOK
<1> QED BY <1>2, <1>3 DEF HeadsOK

\* A head that is saved later joins them.
LEMMA HeadsGrow ==
  ASSUME NEW s, NEW t, NEW h, HeadsAnd(t, s, h), NEW r, NEW saved \in Int, HeadsOK(s, r, saved), Known(r) \subseteq Int,
         r.persistedAt.throughSeq \in Known(r),
         h.throughSeq \in Known(r), r.persistedAt.throughSeq <= h.throughSeq, saved <= h.throughSeq
  PROVE  HeadsOK(t, r, h.throughSeq)
<1> DEFINE top == h.throughSeq
           low == r.persistedAt.throughSeq
<1>1. PICK m \in Int : \A i \in Heads(t) : \/ i \in Heads(s) /\ i \in Int /\ i < m /\ t[i] = s[i]
                                           \/ i = m /\ t[i].head = h
  BY DEF HeadsAnd
<1>2. top \in Int /\ low \in Int /\ low <= top /\ saved <= top
  OBVIOUS
<1> HIDE DEF top, low
<1>3. ASSUME NEW i \in Heads(t)
      PROVE  t[i].head.throughSeq \in Known(r) /\ low <= t[i].head.throughSeq /\ t[i].head.throughSeq <= top
  <2> DEFINE x == t[i].head.throughSeq
  <2>1. CASE i \in Heads(s) /\ t[i] = s[i]
    <3>1. x \in Known(r) /\ low <= x /\ x <= saved
      BY <2>1 DEF HeadsOK, low
    <3> HIDE DEF x
    <3>2. x \in Known(r) /\ low <= x /\ x <= top
      BY <1>2, <3>1
    <3> QED BY <3>2 DEF x
  <2>2. CASE t[i].head = h
    BY <1>2, <2>2 DEF top
  <2> QED BY <1>1, <2>1, <2>2
<1>4. ASSUME NEW i \in Heads(t), NEW j \in Heads(t), i < j
      PROVE  t[i].head.throughSeq <= t[j].head.throughSeq
  <2>1. CASE i = m
    <3>1. j = m \/ (j \in Int /\ j < m)
      BY <1>1
    <3> QED BY <1>4, <2>1, <3>1
  <2>2. CASE i \in Heads(s) /\ t[i] = s[i]
    <3>1. CASE j \in Heads(s) /\ t[j] = s[j]
      BY <1>4, <2>2, <3>1 DEF HeadsOK
    <3>2. CASE t[j].head = h
      BY <1>3, <3>2 DEF top
    <3> QED BY <1>1, <3>1, <3>2
  <2> QED BY <1>1, <2>1, <2>2
<1> QED BY <1>3, <1>4 DEF HeadsOK, top, low

\* The heads of p are those of s, then those of a.
HeadsOfTwo(p, s, a) ==
  /\ \A i \in Heads(p) : /\ i \in Int
                         /\ \/ i \in Heads(s) /\ i <= Len(s) /\ p[i] = s[i]
                            \/ \E j \in Heads(a) : i = Len(s) + j /\ p[i] = a[j]
  /\ Len(p) = Len(s) + Len(a) /\ Len(s) \in Nat /\ Len(a) \in Nat /\ p \in Seq(Message)

\* The heads of two sequences, one after the other.
LEMMA HeadsOfBoth ==
  ASSUME NEW s \in Seq(Message), NEW a \in Seq(Message), NEW p, p = s \o a
  PROVE  HeadsOfTwo(p, s, a)
<1>1. /\ Len(p) = Len(s) + Len(a) /\ Len(s) \in Nat /\ Len(a) \in Nat /\ p \in Seq(Message)
      /\ \A i \in 1..Len(s) : p[i] = s[i]
      /\ \A i \in 1..Len(a) : p[Len(s) + i] = a[i]
  OBVIOUS
<1>2. ASSUME NEW i \in Heads(p)
      PROVE  /\ i \in Int
             /\ \/ i \in Heads(s) /\ i <= Len(s) /\ p[i] = s[i]
                \/ \E j \in Heads(a) : i = Len(s) + j /\ p[i] = a[j]
  <2>1. i \in 1..Len(p) /\ p[i].type = "persisted" /\ i \in Int
    BY DEF Heads
  <2>2. CASE i <= Len(s)
    <3>1. i \in 1..Len(s)
      BY <2>1, <2>2, <1>1
    <3> QED BY <1>1, <2>1, <2>2, <3>1 DEF Heads
  <2>3. CASE ~(i <= Len(s))
    <3> DEFINE j == i - Len(s)
    <3>1. j \in 1..Len(a) /\ i = Len(s) + j
      BY <1>1, <2>1, <2>3
    <3> HIDE DEF j
    <3>2. p[i] = a[j]
      BY <1>1, <3>1
    <3> QED BY <2>1, <3>1, <3>2 DEF Heads
  <2> QED BY <2>2, <2>3
<1> QED BY <1>1, <1>2 DEF HeadsOfTwo

\* Nothing heard, a message heard, a message or refusals told: no head is new.
LEMMA SameHeads ==
  ASSUME NEW s PROVE HeadsOf(s, s)
<1>1. \A i \in Heads(s) : i \in Int /\ 0 + i \in Heads(s) /\ s[i] = s[0 + i]
  BY DEF Heads
<1> QED BY <1>1 DEF HeadsOf

\* The first message is taken.
LEMMA HeadHeard ==
  ASSUME NEW s \in Seq(Message), s # <<>>
  PROVE  /\ HeadsOf(Tail(s), s)
         /\ Head(s) = s[1] /\ (s[1].type = "persisted" => 1 \in Heads(s))
         /\ \A i \in Heads(Tail(s)) : i \in Int /\ 1 + i \in Heads(s) /\ 1 < 1 + i /\ Tail(s)[i] = s[1 + i]
<1>1. Len(s) \in Nat /\ Len(s) >= 1 /\ Len(Tail(s)) = Len(s) - 1 /\ Head(s) = s[1]
      /\ \A i \in 1..(Len(s) - 1) : Tail(s)[i] = s[i + 1]
  OBVIOUS
<1>2. ASSUME NEW i \in Heads(Tail(s))
      PROVE  i \in Int /\ 1 + i \in Heads(s) /\ 1 < 1 + i /\ Tail(s)[i] = s[1 + i]
  <2>1. i \in 1..(Len(s) - 1) /\ Tail(s)[i].type = "persisted"
    BY <1>1 DEF Heads
  <2>2. i \in Int /\ 1 + i \in 1..Len(s) /\ 1 < 1 + i /\ 1 + i = i + 1
    BY <1>1, <2>1
  <2> QED BY <1>1, <2>1, <2>2 DEF Heads
<1>3. s[1].type = "persisted" => 1 \in Heads(s)
  BY <1>1 DEF Heads
<1> QED BY <1>1, <1>2, <1>3 DEF HeadsOf

\* Messages that announce no head are told.
LEMMA OthersTold ==
  ASSUME NEW s \in Seq(Message), NEW a \in Seq(Message), ~HeadTold(a), NEW p, p = s \o a
  PROVE  HeadsOf(p, s)
<1>1. Heads(a) = {}
  BY DEF Heads, HeadTold
<1>2. HeadsOfTwo(p, s, a)
  BY HeadsOfBoth
<1>3. ASSUME NEW i \in Heads(p) PROVE i \in Int /\ 0 + i \in Heads(s) /\ p[i] = s[0 + i]
  <2>1. i \in Int /\ i \in Heads(s) /\ p[i] = s[i]
    BY <1>1, <1>2, Zenon DEF HeadsOfTwo
  <2>2. 0 + i = i
    BY <2>1
  <2> QED BY <2>1, <2>2, Zenon
<1>4. \E k \in Nat : \A i \in Heads(p) : i \in Int /\ k + i \in Heads(s) /\ p[i] = s[k + i]
  BY <1>3
<1> QED BY <1>4 DEF HeadsOf

\* A message that announces no head is told.
LEMMA OtherTold ==
  ASSUME NEW s \in Seq(Message), NEW m \in Message, m.type # "persisted"
  PROVE  HeadsOf(Append(s, m), s)
<1> DEFINE a == <<m>>
<1>1. a \in Seq(Message) /\ Len(a) = 1 /\ a[1] = m /\ Append(s, m) = s \o a
  OBVIOUS
<1>2. ~HeadTold(a)
  BY <1>1 DEF HeadTold
<1> HIDE DEF a
<1> QED BY <1>1, <1>2, OthersTold

\* A transaction tells of a head if it saves a batch.
LEMMA CommitHeads ==
  ASSUME Base, NEW run, NEW rest, NEW fault, NEW results, Commits(run, rest, fault, results)
  PROVE  \/ SavedBatches(run, results) = {} /\ HeadsOf(toSim', toSim)
         \/ SavedBatches(run, results) # {} /\ HeadsAnd(toSim', toSim, worker'.head)
<1>0. toSim \in Seq(Message) /\ worker'.head \in HeadRecord
  BY DEF Base, TypeOK, Commits, Worker, WorkerState
<1> DEFINE h == worker'.head
           m == IF SavedBatches(run, results) = {} THEN <<>> ELSE <<Persisted(h)>>
<1>1. PICK a, b \in Rejecteds : toSim' = toSim \o a \o m \o b
  BY DEF Commits
<1>2. /\ a \in Seq(Message) /\ b \in Seq(Message) /\ Heads(a) = {} /\ Heads(b) = {}
  BY RejectedsSayLittle DEF HeadTold, Heads
<1>3. m \in Seq(Message) /\ (SavedBatches(run, results) = {} => Heads(m) = {})
      /\ \A i \in Heads(m) : i = 1 /\ m[i].head = h
  <2>1. CASE SavedBatches(run, results) = {}
    BY <2>1 DEF Heads
  <2>2. CASE SavedBatches(run, results) # {}
    <3>1. Persisted(h) \in Message /\ Persisted(h).head = h
      BY <1>0 DEF Persisted, Message
    <3>2. m = <<Persisted(h)>>
      BY <2>2
    <3> HIDE DEF m, h
    <3>3. m \in Seq(Message) /\ Len(m) = 1 /\ m[1] = Persisted(h)
      BY <3>1, <3>2
    <3> QED BY <2>2, <3>1, <3>3 DEF Heads
  <2> QED BY <2>1, <2>2
<1> HIDE DEF m, h
<1> DEFINE s == toSim \o a
           t == s \o m
           n == Len(s)
<1>4. /\ s \in Seq(Message) /\ n \in Nat
      /\ \A i \in Heads(s) : i \in Int /\ i \in Heads(toSim) /\ s[i] = toSim[i] /\ i <= n
  <2>1. HeadsOfTwo(s, toSim, a)
    BY <1>0, <1>2, HeadsOfBoth
  <2> HIDE DEF s
  <2> QED BY <1>2, <2>1 DEF HeadsOfTwo
<1> HIDE DEF s
<1>5. HeadsOfTwo(t, s, m)
  BY <1>3, <1>4, HeadsOfBoth
<1>6. toSim' = t \o b
  BY <1>1 DEF s
<1> HIDE DEF t
<1>7. \A i \in Heads(toSim') : i \in Int /\ i \in Heads(t) /\ toSim'[i] = t[i]
  <2>1. t \in Seq(Message)
    BY <1>5 DEF HeadsOfTwo
  <2>2. HeadsOfTwo(toSim', t, b)
    BY <1>2, <1>6, <2>1, HeadsOfBoth
  <2> QED BY <1>2, <2>2 DEF HeadsOfTwo
<1>8. \A i \in Heads(toSim') : i \in Int /\ \/ i \in Heads(toSim) /\ i <= n /\ toSim'[i] = toSim[i]
                                            \/ \E j \in Heads(m) : i = n + j /\ toSim'[i] = m[j]
  BY <1>4, <1>5, <1>7 DEF HeadsOfTwo
<1> HIDE DEF n
<1>9. CASE SavedBatches(run, results) = {}
  <2>1. \A i \in Heads(toSim') : i \in Int /\ 0 + i \in Heads(toSim) /\ toSim'[i] = toSim[0 + i]
    BY <1>3, <1>8, <1>9
  <2> QED BY <1>9, <2>1 DEF HeadsOf
<1>10. CASE SavedBatches(run, results) # {}
  <2>1. \A i \in Heads(toSim') : \/ i \in Heads(toSim) /\ i \in Int /\ i < n + 1 /\ toSim'[i] = toSim[i]
                                 \/ i = n + 1 /\ toSim'[i].head = h
    <3> SUFFICES ASSUME NEW i \in Heads(toSim')
                 PROVE  \/ i \in Heads(toSim) /\ i \in Int /\ i < n + 1 /\ toSim'[i] = toSim[i]
                        \/ i = n + 1 /\ toSim'[i].head = h
      OBVIOUS
    <3>1. CASE i \in Heads(toSim) /\ i <= n /\ toSim'[i] = toSim[i]
      BY <1>4, <1>8, <3>1
    <3>2. CASE \E j \in Heads(m) : i = n + j /\ toSim'[i] = m[j]
      BY <1>3, <3>2
    <3> QED BY <1>8, <3>1, <3>2
  <2>2. n + 1 \in Int
    BY <1>4
  <2> QED BY <1>10, <2>1, <2>2 DEF HeadsAnd, h
<1> QED BY <1>9, <1>10

\* What waits to be stored ends where something in flight does.
EndsKnown(w, r) == \A i \in Batches(w) : w[i].throughSeq \in Known(r)

FlightInv ==
  /\ Acked <= Saved /\ sim.buffer.persistedSeq <= Saved
  /\ sim.recorder.header => FlightOK(sim.recorder, emitted, LastSeq)
  /\ HeadsOK(toSim, sim.recorder, Saved)
  /\ worker.open => EndsKnown(Way, sim.recorder)

\* Nothing of the recorder that FlightInv speaks of changes.
SameFlight(q, r) == q.inFlight = r.inFlight /\ q.persistedAt = r.persistedAt /\ q.header = r.header

\* What a step may do to what is announced and to what is on its way, with the recorder as it is.
LEMMA FlightKept ==
  ASSUME Base, Base', SavedInv, FlightInv, SameFlight(sim'.recorder, sim.recorder),
         sim'.buffer.persistedSeq = sim.buffer.persistedSeq, emitted' = emitted, LastSeq' = LastSeq,
         Saved' = Saved, HeadsOf(toSim', toSim), worker'.open => worker.open /\ Way' = Way
  PROVE  FlightInv'
<1> DEFINE r == sim.recorder
           q == sim'.recorder
<1>1. r \in RecorderState /\ Known(r) \subseteq Int /\ Saved \in Int
  BY KnownType, SavedTypes DEF Base, SimOK, Settled
<1>2. Known(q) = Known(r) /\ q.persistedAt.throughSeq = r.persistedAt.throughSeq
  BY DEF SameFlight, Known
<1>3. HeadsOK(toSim', q, Saved')
  <2> DEFINE t == toSim'
  <2>1. HeadsOf(t, toSim) /\ HeadsOK(toSim, r, Saved) /\ Saved <= Saved /\ Known(r) \subseteq Known(q)
    BY <1>1, <1>2 DEF FlightInv
  <2> HIDE DEF t, q, r
  <2>2. HeadsOK(t, q, Saved)
    BY <1>1, <1>2, <2>1, HeadsStay
  <2> QED BY <2>2 DEF t
<1>4. worker'.open => EndsKnown(Way', q)
  BY <1>2 DEF FlightInv, EndsKnown
<1>5. q.header => FlightOK(q, emitted', LastSeq')
  BY DEF FlightInv, SameFlight, FlightOK
<1>6. Acked' = Acked /\ Acked' <= Saved' /\ sim'.buffer.persistedSeq <= Saved'
  BY <1>2 DEF FlightInv, Acked
<1> QED BY <1>3, <1>4, <1>5, <1>6 DEF FlightInv

\* What is new joins what is in flight as one batch, or there is nothing at all.
LEMMA HandedInFlight ==
  ASSUME Base, Base', FlightInv, NEW out, Hands(sim, sim', out), RunHands
  PROVE  /\ FlightOK(sim'.recorder, emitted', LastSeq')
         /\ Known(sim.recorder) \subseteq Known(sim'.recorder)
         /\ Acked' = Acked
         /\ \/ out = <<>>
            \/ \E batch \in BatchEntry : OneBatch(out, batch) /\ batch.throughSeq \in Known(sim'.recorder)
<1> DEFINE r == sim.recorder
           q == sim'.recorder
           F == emitted'
           top == LastSeq'
           new == NewerThan(sim'.buffer, From(sim))
<1>1. PICK items \in Seq(Item) : Sends(r, q, new, items, out)
  BY DEF Hands
<1>2. r \in RecorderState /\ q \in RecorderState
  BY DEF Base, SimOK, Settled
<1>3. /\ LastSeq \in Int /\ LastSeq = sim.buffer.seq - 1 /\ sim.buffer.seq \in Nat
      /\ \A e \in emitted : e.seq \in Nat /\ e.seq <= LastSeq
  BY SavedTypes
<1>4. /\ top \in Int /\ top >= -1
      /\ \A e \in F : e.seq \in Nat /\ e.seq <= top
  <2>1. SimOK(sim')
    BY DEF Base
  <2>2. /\ BufferOK(sim'.buffer) /\ UpTo(sim'.recorder, sim'.buffer) /\ sim'.buffer \in Buffer
    BY <2>1 DEF SimOK, BufferOK
  <2>3. sim'.buffer.seq \in Nat /\ top = sim'.buffer.seq - 1
    BY <2>2 DEF Buffer, UpTo, LastSeq
  <2>4. \A e \in F : e.seq \in Nat /\ e.seq < sim'.buffer.seq
    BY <2>2, <2>3 DEF BufferOK, Buffer, KeepsEmitted, TraceRecord, emitted
  <2> QED BY <2>3, <2>4
<1>5. \E E0, last0 : FlightOK(r, E0, last0) /\ GoneOn(E0, last0, F, top) /\ new = After(F, last0)
  <2>1. CASE r.header
    <3>1. FlightOK(r, emitted, LastSeq)
      BY <2>1 DEF FlightInv
    <3>2. \A e \in F : e.seq >= From(sim) <=> e.seq > LastSeq
      <4>1. From(sim) = LastSeq + 1
        BY <1>3, <2>1 DEF From
      <4> HIDE DEF F, LastSeq
      <4> QED BY <1>3, <1>4, <4>1
    <3>3. new = After(F, LastSeq)
      BY <3>2 DEF NewerThan, After, emitted
    <3>4. GoneOn(emitted, LastSeq, F, top)
      BY EmittedGoesOn
    <3> QED BY <3>1, <3>3, <3>4
  <2>2. CASE ~r.header
    <3>1. r.inFlight = <<>> /\ r.persistedAt.throughSeq = -1
      BY <2>2 DEF Base, SimOK, BeforeHeader, NoHead
    <3>2. FlightOK(r, {}, -1)
      <4>1. FlightChain(<<>>, <<>>, -1, {}, -1)
        BY DEF FlightChain, Chain, Complete, Numbers, Limits, Ordered
      <4> QED BY <3>1, <4>1 DEF FlightOK
    <3>4. GoneOn({}, -1, F, top)
      <4> HIDE DEF F, top
      <4> QED BY <1>4 DEF GoneOn
    <3>5. new = After(F, -1)
      <4>1. From(sim) = 0
        BY <2>2 DEF From
      <4>2. \A e \in F : e.seq >= 0 /\ e.seq > -1
        <5> HIDE DEF F
        <5> QED BY <1>4
      <4> QED BY <4>1, <4>2 DEF NewerThan, After, emitted
    <3> QED BY <3>2, <3>4, <3>5
  <2> QED BY <2>1, <2>2
<1>6. PICK E0, last0 : FlightOK(r, E0, last0) /\ GoneOn(E0, last0, F, top) /\ new = After(F, last0)
  BY <1>5
<1>7. q.lastThroughSeq = top
  BY DEF LastSeq
<1> HIDE DEF F, top, new, r, q
<1>8. CASE new = {} /\ out = <<>> /\ r.inFlight = <<>> /\ q.inFlight = <<>>
           /\ q.persistedAt.throughSeq = r.persistedAt.throughSeq
  <2>1. FlightOK(q, F, top)
    BY <1>6, <1>8, FlightRests
  <2>2. Known(q) = Known(r)
    BY <1>8 DEF Known
  <2> QED BY <1>8, <2>1, <2>2 DEF Acked, F, top, r, q
<1>9. ASSUME NEW batch \in BatchEntry, NEW u \in Unsaved, out = Append(items, batch), ToSet(batch.records) = new,
             batch.throughSeq = q.lastThroughSeq, q.inFlight = Append(r.inFlight, u),
             u.throughSeq = q.lastThroughSeq, u.records = Cardinality(new), q.persistedAt = r.persistedAt
      PROVE  /\ FlightOK(q, F, top) /\ Known(r) \subseteq Known(q)
             /\ OneBatch(out, batch) /\ batch.throughSeq \in Known(q)
  <2>1. batch.records \in Seq(TraceRecord)
    BY <1>9 DEF BatchEntry
  <2>2. IsFiniteSet(After(F, last0))
    BY <1>6, <1>9, <2>1, MembersFinite
  <2>3. FlightOK(q, F, top)
    BY <1>2, <1>6, <1>7, <1>9, <2>2, FlightGrows
  <2> DEFINE f == r.inFlight
             g == q.inFlight
  <2>4. /\ Len(g) = Len(f) + 1 /\ Len(f) \in Nat /\ g[Len(f) + 1] = u
        /\ \A i \in 1..Len(f) : g[i] = f[i]
    <3>1. f \in Seq(Unsaved) /\ g = Append(f, u)
      BY <1>2, <1>9 DEF RecorderState
    <3> HIDE DEF f, g
    <3> QED BY <3>1, AppendedOne
  <2> HIDE DEF f, g
  <2>5. /\ \A i \in 1..Len(f) : i \in 1..Len(g) /\ g[i] = f[i]
        /\ \E i \in 1..Len(g) : g[i] = u
    BY <2>4
  <2>6. Known(r) \subseteq Known(q) /\ u.throughSeq \in Known(q)
    BY <1>9, <2>5 DEF Known, f, g
  <2>7. OneBatch(out, batch)
    BY <1>9, ItemsThenBatch
  <2> QED BY <1>9, <2>3, <2>6, <2>7
<1>10. CASE \E batch \in BatchEntry, u \in Unsaved :
              /\ out = Append(items, batch) /\ ToSet(batch.records) = new
              /\ batch.throughSeq = q.lastThroughSeq /\ q.inFlight = Append(r.inFlight, u)
              /\ u.throughSeq = q.lastThroughSeq /\ u.records = Cardinality(new) /\ q.persistedAt = r.persistedAt
  <2>1. PICK batch \in BatchEntry, u \in Unsaved :
              /\ out = Append(items, batch) /\ ToSet(batch.records) = new
              /\ batch.throughSeq = q.lastThroughSeq /\ q.inFlight = Append(r.inFlight, u)
              /\ u.throughSeq = q.lastThroughSeq /\ u.records = Cardinality(new) /\ q.persistedAt = r.persistedAt
    BY <1>10
  <2>2. /\ FlightOK(q, F, top) /\ Known(r) \subseteq Known(q)
        /\ OneBatch(out, batch) /\ batch.throughSeq \in Known(q)
    BY <1>9, <2>1
  <2> QED BY <2>1, <2>2 DEF Acked, F, top, r, q
<1>11. \/ new = {} /\ out = <<>> /\ r.inFlight = <<>> /\ q.inFlight = <<>>
          /\ q.persistedAt.throughSeq = r.persistedAt.throughSeq
       \/ \E batch \in BatchEntry, u \in Unsaved :
              /\ out = Append(items, batch) /\ ToSet(batch.records) = new
              /\ batch.throughSeq = q.lastThroughSeq /\ q.inFlight = Append(r.inFlight, u)
              /\ u.throughSeq = q.lastThroughSeq /\ u.records = Cardinality(new) /\ q.persistedAt = r.persistedAt
  BY <1>1 DEF Sends
<1> QED BY <1>8, <1>10, <1>11

\* What is handed over comes last on the way.
LEMMA HandedLast ==
  ASSUME Base, NEW out, Hands(sim, sim', out), toStorage' = toStorage \o out, UNCHANGED worker
  PROVE  /\ Way \in Seq(Handed) /\ Way \in Seq(Entry) /\ out \in Seq(Handed) /\ out \in Seq(Entry)
         /\ Way' = Way \o out /\ Following(Way, out, Way')
<1> DEFINE a == worker.held \o Given(worker.queue)
           b == toStorage
<1>1. Way = a \o b /\ Way' = a \o (b \o out)
  BY DEF Way
<1>2. a \in Seq(Handed) /\ b \in Seq(Handed) /\ out \in Seq(Handed)
  <2>1. worker.held \in Seq(Handed) /\ Given(worker.queue) \in Seq(Handed) /\ b \in Seq(Handed)
    BY WayType DEF Base
  <2>2. out \in Seq(Handed)
    BY HandsType
  <2> QED BY <2>1, <2>2
<1> HIDE DEF a, b
<1>3. (a \o b) \o out = a \o (b \o out)
  BY <1>2, Regrouped
<1>4. Way \in Seq(Handed) /\ Way \in Seq(Entry)
  BY WayType DEF Base
<1>5. out \in Seq(Entry)
  <2>1. Handed \subseteq Entry
    BY DEF Entry
  <2> QED BY <1>2, <2>1, Wider
<1>6. Way' = Way \o out
  BY <1>1, <1>3
<1> HIDE DEF Way
<1> QED BY <1>2, <1>4, <1>5, <1>6, Follows

\* What is handed over keeps the invariant ...
LEMMA FlightHands ==
  ASSUME Base, Base', SavedInv, FlightInv, RunHands
  PROVE  FlightInv'
<1>1. PICK out : Hands(sim, sim', out) /\ toStorage' = toStorage \o out
  BY DEF RunHands, HandsOver
<1>2. UNCHANGED worker /\ Saved' = Saved /\ sim'.recorder.header
  BY <1>1 DEF RunHands, Saved, Hands
<1> DEFINE r == sim.recorder
           q == sim'.recorder
<1>3. /\ FlightOK(q, emitted', LastSeq') /\ Known(r) \subseteq Known(q) /\ Acked' = Acked
      /\ \/ out = <<>>
         \/ \E batch \in BatchEntry : OneBatch(out, batch) /\ batch.throughSeq \in Known(q)
  BY <1>1, HandedInFlight
<1>4. sim'.buffer.persistedSeq = sim.buffer.persistedSeq
  BY <1>1 DEF Hands, Grown
<1>5. toSim' = toSim \/ (toSim # <<>> /\ toSim' = Tail(toSim))
  BY DEF RunHands, Hearing
<1>6. HeadsOf(toSim', toSim)
  BY <1>5, SameHeads, HeadHeard DEF Base, TypeOK
<1>7. r \in RecorderState /\ Known(r) \subseteq Int /\ Saved \in Int /\ Saved <= Saved
  <2>1. r \in RecorderState /\ Known(r) \subseteq Int /\ Saved \in Int
    BY KnownType, SavedTypes DEF Base, SimOK, Settled
  <2> QED BY <2>1
<1>8. HeadsOK(toSim', q, Saved')
  <2> DEFINE t == toSim'
  <2>1. HeadsOf(t, toSim) /\ HeadsOK(toSim, r, Saved) /\ q.persistedAt.throughSeq = r.persistedAt.throughSeq
    BY <1>3, <1>6 DEF FlightInv, Acked
  <2> HIDE DEF t, q, r
  <2>2. HeadsOK(t, q, Saved)
    BY <1>3, <1>7, <2>1, HeadsStay
  <2> QED BY <1>2, <2>2 DEF t
<1>9. ASSUME worker'.open PROVE EndsKnown(Way', q)
  <2>1. worker.open /\ EndsKnown(Way, r)
    BY <1>2, <1>9 DEF FlightInv
  <2>2. Following(Way, out, Way')
    BY <1>1, <1>2, HandedLast
  <2> DEFINE w == Way
             v == Way'
  <2> HIDE DEF w, v, r, q
  <2>3. ASSUME NEW i \in Batches(v) PROVE v[i].throughSeq \in Known(q)
    <3>1. CASE i <= Len(w)
      <4>1. i \in Batches(w) /\ v[i] = w[i]
        BY <2>2, <3>1 DEF Following, Batches, w, v
      <4> QED BY <1>3, <2>1, <4>1 DEF EndsKnown, w
    <3>2. CASE ~(i <= Len(w))
      <4>1. PICK j \in Batches(out) : i = Len(w) + j
        BY <2>2, <2>3, <3>2 DEF Following, w, v
      <4>2. v[i] = out[j] /\ out # <<>>
        BY <2>2, <4>1 DEF Following, Batches, w, v
      <4>3. PICK batch \in BatchEntry : OneBatch(out, batch) /\ batch.throughSeq \in Known(q)
        BY <1>3, <4>2
      <4>4. out[j] = batch
        BY <4>1, <4>3 DEF OneBatch
      <4> QED BY <4>2, <4>3, <4>4
    <3> QED BY <3>1, <3>2
  <2> QED BY <2>3 DEF EndsKnown, v
<1>10. Acked' <= Saved' /\ sim'.buffer.persistedSeq <= Saved'
  BY <1>2, <1>3, <1>4 DEF FlightInv
<1> QED BY <1>3, <1>8, <1>9, <1>10 DEF FlightInv

\* ... a head that is taken does ...
LEMMA FlightAcks ==
  ASSUME Base, Base', SavedInv, FlightInv, RunAcks
  PROVE  FlightInv'
<1> DEFINE head == Head(toSim).head
           r == sim.recorder
           q == sim'.recorder
           t == toSim'
<1>1. /\ toSim \in Seq(Message) /\ toSim # <<>> /\ toSim' = Tail(toSim) /\ Head(toSim).type = "persisted"
      /\ r.header /\ Acks(sim, sim', head) /\ head \in HeadRecord /\ UNCHANGED <<toStorage, worker>>
  BY DEF RunAcks, Hearing, Base, TypeOK
<1>2. /\ Head(toSim) = toSim[1] /\ 1 \in Heads(toSim)
      /\ \A i \in Heads(t) : i \in Int /\ 1 + i \in Heads(toSim) /\ 1 < 1 + i /\ t[i] = toSim[1 + i]
  <2>1. /\ Head(toSim) = toSim[1] /\ (toSim[1].type = "persisted" => 1 \in Heads(toSim))
        /\ \A i \in Heads(Tail(toSim)) : i \in Int /\ 1 + i \in Heads(toSim) /\ 1 < 1 + i /\ Tail(toSim)[i] = toSim[1 + i]
    BY <1>1, HeadHeard
  <2> QED BY <1>1, <2>1
<1>3. /\ head.throughSeq \in Known(r) /\ r.persistedAt.throughSeq <= head.throughSeq /\ head.throughSeq <= Saved
  BY <1>2 DEF FlightInv, HeadsOK
<1>4. Covered(q, r, head)
  BY <1>1 DEF Acks, Covered
<1>5. r \in RecorderState /\ q \in RecorderState /\ Known(r) \subseteq Int /\ Saved \in Int
  BY KnownType, SavedTypes DEF Base, SimOK, Settled
<1>6. FlightOK(r, emitted, LastSeq)
  BY <1>1 DEF FlightInv
<1> HIDE DEF head, r, q, t
<1>7. /\ FlightOK(q, emitted, LastSeq)
      /\ \A x \in Known(r) : x >= head.throughSeq => x \in Known(q)
  BY <1>3, <1>4, <1>5, <1>6, FlightTaken
<1>8. /\ emitted' = emitted /\ LastSeq' = LastSeq /\ Saved' = Saved /\ q.persistedAt = head
  <2>1. /\ SimOK(sim) /\ SimOK(sim') /\ sim'.buffer.seq = sim.buffer.seq /\ emitted' = emitted
    BY <1>1 DEF Acks, Base, emitted
  <2>2. LastSeq' = LastSeq
    BY <2>1 DEF SimOK, UpTo, LastSeq
  <2> QED BY <1>1, <2>1, <2>2 DEF Saved, Acks, q
<1>9. Acked' <= Saved'
  BY <1>3, <1>8 DEF Acked, q
<1>10. sim'.buffer.persistedSeq <= Saved'
  <2>1. sim'.buffer.persistedSeq = sim.buffer.persistedSeq \/ sim'.buffer.persistedSeq <= head.throughSeq
    BY <1>1 DEF Acks
  <2>2. sim'.buffer.persistedSeq \in Int /\ head.throughSeq \in Int
    BY <1>3, <1>5 DEF Base, SimOK, BufferOK, Buffer
  <2>3. CASE sim'.buffer.persistedSeq = sim.buffer.persistedSeq
    BY <1>8, <2>3 DEF FlightInv
  <2>4. CASE sim'.buffer.persistedSeq <= head.throughSeq
    <3> DEFINE x == sim'.buffer.persistedSeq
               y == head.throughSeq
    <3> HIDE DEF x, y
    <3>1. x <= y /\ y <= Saved /\ x \in Int /\ y \in Int
      BY <1>3, <2>2, <2>4 DEF x, y
    <3>2. x <= Saved
      BY <1>5, <3>1
    <3> QED BY <1>8, <3>2 DEF x
  <2> QED BY <2>1, <2>3, <2>4
<1>11. HeadsOK(t, q, Saved)
  <2>1. ASSUME NEW i \in Heads(t)
        PROVE  /\ t[i].head.throughSeq \in Known(q)
               /\ q.persistedAt.throughSeq <= t[i].head.throughSeq /\ t[i].head.throughSeq <= Saved
    <3> DEFINE x == t[i].head.throughSeq
    <3>1. 1 + i \in Heads(toSim) /\ 1 < 1 + i /\ t[i] = toSim[1 + i] /\ 1 \in Heads(toSim) /\ head = toSim[1].head
      BY <1>2 DEF head
    <3>2. x \in Known(r) /\ x <= Saved /\ head.throughSeq <= x
      BY <3>1 DEF FlightInv, HeadsOK, r
    <3>3. x >= head.throughSeq
      <4> DEFINE y == head.throughSeq
      <4> HIDE DEF x, y
      <4>1. x \in Int /\ y \in Int /\ y <= x
        BY <1>3, <1>5, <3>2 DEF y
      <4>2. x >= y
        BY <4>1
      <4> QED BY <4>2 DEF y
    <3> HIDE DEF x
    <3>4. x \in Known(q)
      BY <1>7, <3>2, <3>3
    <3> QED BY <1>8, <3>2, <3>4 DEF x
  <2>2. ASSUME NEW i \in Heads(t), NEW j \in Heads(t), i < j
        PROVE  t[i].head.throughSeq <= t[j].head.throughSeq
    <3>1. 1 + i < 1 + j /\ 1 + i \in Heads(toSim) /\ 1 + j \in Heads(toSim)
          /\ t[i] = toSim[1 + i] /\ t[j] = toSim[1 + j]
      BY <1>2, <2>2
    <3> QED BY <3>1 DEF FlightInv, HeadsOK
  <2> QED BY <2>1, <2>2 DEF HeadsOK
<1>12. ASSUME worker'.open PROVE EndsKnown(Way', q)
  <2>1. Way' = Way /\ worker.open
    BY <1>1, <1>12 DEF Way
  <2>2. WayChain(Way, Saved, emitted, LastSeq)
    BY <1>1, <2>1 DEF SavedInv, r
  <2>3. ASSUME NEW i \in Batches(Way) PROVE Way[i].throughSeq \in Known(q)
    <3> DEFINE x == Way[i].throughSeq
    <3>1. Ends(Way)[i] = x
      BY DEF Ends
    <3>2. Saved <= x
      BY <2>2, <3>1 DEF WayChain, Chain
    <3>3. x \in Known(r)
      BY <2>1 DEF FlightInv, EndsKnown, r
    <3> DEFINE y == head.throughSeq
    <3>4. y \in Int /\ y <= Saved
      BY <1>3, <1>5
    <3> HIDE DEF x, y
    <3>5. x >= y
      BY <1>5, <3>2, <3>3, <3>4
    <3> QED BY <1>7, <3>3, <3>5 DEF x, y
  <2> QED BY <2>1, <2>3 DEF EndsKnown
<1> QED BY <1>7, <1>8, <1>9, <1>10, <1>11, <1>12 DEF FlightInv, q, t

\* ... a transaction does: where its last batch ends is known to the recorder ...
LEMMA FlightCommits ==
  ASSUME Undisturbed, "commit" \notin Faults, Base, Base', WorkerInv, RunsInv, SavedInv, FlightInv, CommitsSome
  PROVE  FlightInv'
<1>1. PICK run, rest, fault, results : Commits(run, rest, fault, results)
  BY DEF CommitsSome
<1>2. UNCHANGED <<sim, toStorage>>
  BY DEF CommitsSome
<1>3. worker.open /\ worker'.open = worker.open
  BY <1>1 DEF Commits, Base, HeaderInv
<1>4. Saved' \in Int /\ Saved <= Saved' /\ WayChain(Way', Saved', emitted, LastSeq)
  BY <1>1, <1>2, <1>3, TakenIsSaved
<1>5. run \in Seq(Handed) /\ Way = run \o Way' /\ Way' \in Seq(Handed)
  BY <1>1, <1>2, WayTaken
<1> DEFINE r == sim.recorder
           v == Way'
           k == Saved'
<1>6. r \in RecorderState /\ Known(r) \subseteq Int /\ r.persistedAt.throughSeq \in Known(r) /\ Saved \in Int
  BY KnownType, SavedTypes DEF Base, SimOK, Settled
<1>7. /\ Acked \in Int /\ Acked <= Saved /\ EndsKnown(Way, r) /\ HeadsOK(toSim, r, Saved)
      /\ sim.buffer.persistedSeq <= Saved /\ sim.buffer.persistedSeq \in Int
  BY <1>3, <1>6 DEF FlightInv, Acked, Base, SimOK, BufferOK, Buffer
<1>8. Following(run, v, Way)
  <2>1. Handed \subseteq Entry
    BY DEF Entry
  <2>2. run \in Seq(Entry) /\ v \in Seq(Entry)
    BY <1>5, <2>1, Wider
  <2> HIDE DEF v, Way
  <2> QED BY <1>5, <2>2, Follows DEF v
<1> HIDE DEF v, k
<1>9. EndsKnown(v, r)
  <2>1. \A i \in Batches(v) : Len(run) + i \in Batches(Way) /\ Way[Len(run) + i] = v[i]
    BY <1>8 DEF Following, Batches
  <2> QED BY <1>7, <2>1 DEF EndsKnown
<1>10. SavedBatches(run, results) # {} => k \in Known(r)
  <2> SUFFICES ASSUME SavedBatches(run, results) # {} PROVE k \in Known(r)
    OBVIOUS
  <2>1. PICK i \in SavedBatches(run, results) :
          i \in 1..Len(run) /\ worker'.head = [throughSeq |-> run[i].throughSeq, tick |-> run[i].tick]
    BY <1>1 DEF Commits
  <2>2. i \in Batches(run)
    BY <2>1 DEF SavedBatches, Batches
  <2>3. i \in Batches(Way) /\ Way[i] = run[i]
    BY <1>8, <2>1, <2>2 DEF Following
  <2>4. k = run[i].throughSeq
    BY <2>1 DEF k, Saved
  <2> QED BY <1>7, <2>3, <2>4 DEF EndsKnown
<1>11. HeadsOK(toSim', r, k)
  <2> DEFINE t == toSim'
             h == worker'.head
  <2>1. \/ SavedBatches(run, results) = {} /\ HeadsOf(t, toSim)
        \/ SavedBatches(run, results) # {} /\ HeadsAnd(t, toSim, h)
    BY <1>1, CommitHeads
  <2>2. h.throughSeq = k
    BY DEF k, Saved
  <2> HIDE DEF t, h
  <2>3. Acked = r.persistedAt.throughSeq /\ k \in Int /\ Saved <= k
    BY <1>4 DEF Acked, k
  <2> HIDE DEF r
  <2>4. CASE HeadsOf(t, toSim)
    <3>1. HeadsOK(t, r, k)
      BY <1>6, <1>7, <2>3, <2>4, HeadsStay
    <3> QED BY <3>1 DEF t
  <2>5. CASE SavedBatches(run, results) # {} /\ HeadsAnd(t, toSim, h)
    <3>1. h.throughSeq \in Known(r) /\ Saved <= h.throughSeq
      BY <1>10, <2>2, <2>3, <2>5
    <3>2. Acked <= h.throughSeq
      <4> DEFINE x == h.throughSeq
      <4> HIDE DEF x
      <4>1. x \in Int /\ Saved <= x
        BY <1>6, <3>1 DEF x
      <4>2. Acked <= x
        BY <1>6, <1>7, <4>1
      <4> QED BY <4>2 DEF x
    <3>3. HeadsOK(t, r, h.throughSeq)
      BY <1>6, <1>7, <2>3, <2>5, <3>1, <3>2, HeadsGrow
    <3> QED BY <2>2, <3>3 DEF t
  <2> QED BY <2>1, <2>4, <2>5
<1>12. Acked <= k /\ sim.buffer.persistedSeq <= k
  <2> DEFINE x == sim.buffer.persistedSeq
  <2> HIDE DEF x
  <2>1. Acked <= k /\ x <= k
    BY <1>4, <1>6, <1>7 DEF k, x
  <2> QED BY <2>1 DEF x
<1>13. Acked' = Acked /\ emitted' = emitted /\ LastSeq' = LastSeq /\ sim' = sim
  BY <1>2 DEF Acked, emitted, LastSeq
<1> QED BY <1>9, <1>11, <1>12, <1>13 DEF FlightInv, k, v

\* ... and so does every other step.
LEMMA FlightSteps ==
  ASSUME Undisturbed, "commit" \notin Faults, Base, Base', WorkerInv, RunsInv, SavedInv, FlightInv, [Next]_vars
  PROVE  FlightInv'
<1>1. toSim \in Seq(Message)
  BY DEF Base, TypeOK
<1>2. ASSUME worker'.head = worker.head, sim' = sim, HeadsOf(toSim', toSim), worker'.open => worker.open /\ Way' = Way
      PROVE  FlightInv'
  BY <1>2, FlightKept DEF SameFlight, Saved, LastSeq, emitted
<1>3. CASE RunGoesOn
  <2>1. HeadsOf(toSim', toSim)
    BY <1>1, <1>3, SameHeads, HeadHeard DEF RunGoesOn, Hearing
  <2>2. SameFlight(sim'.recorder, sim.recorder) /\ sim'.buffer = sim.buffer /\ LastSeq' = LastSeq /\ emitted' = emitted
    BY <1>3 DEF RunGoesOn, GoesOn, Rests, Alike, SameFlight, LastSeq, emitted
  <2>3. UNCHANGED <<worker, toStorage>> /\ Saved' = Saved /\ Way' = Way
    BY <1>3 DEF RunGoesOn, GoesOn, Saved, Way
  <2> QED BY <2>1, <2>2, <2>3, FlightKept
<1>4. CASE QueueSteps
  <2>1. worker'.head = worker.head /\ worker'.open = worker.open /\ UNCHANGED sim
    BY <1>4 DEF QueueSteps, Quietly, Quiet, Asked, Takes, Delivered, HoldsOne, GivesBack, Returns
  <2>2. worker.open => Way' = Way
    BY <1>4, WayKept
  <2>3. toSim' = toSim \/ \E m \in Message : m.type = "quota" /\ toSim' = Append(toSim, m)
    BY <1>4 DEF QueueSteps, Quietly, Asked, Delivered, HoldsOne, GivesBack
  <2>4. HeadsOf(toSim', toSim)
    <3>1. CASE toSim' = toSim
      BY <3>1, SameHeads
    <3>2. CASE \E m \in Message : m.type = "quota" /\ toSim' = Append(toSim, m)
      BY <1>1, <3>2, OtherTold
    <3> QED BY <2>3, <3>1, <3>2
  <2> QED BY <1>2, <2>1, <2>2, <2>4
<1>5. CASE Creates \/ TakesTime
  <2>1. /\ worker'.head = worker.head /\ worker'.open = worker.open
        /\ UNCHANGED <<sim, toStorage>>
        /\ worker.queue # <<>> /\ Head(worker.queue).op \in {"create", "slow"}
        /\ worker'.queue = Tail(worker.queue) /\ worker'.held = worker.held
        /\ worker.queue \in Seq(Entry)
    BY <1>5 DEF Creates, TakesTime, Serving, Base, TypeOK, WorkerState
  <2>2. ~FromRecorder(Head(worker.queue))
    <3> DEFINE e == Head(worker.queue)
    <3>1. e \in Entry /\ e.op \in {"create", "slow"}
      BY <2>1
    <3> HIDE DEF e
    <3>2. ~FromRecorder(e)
      BY <3>1 DEF Entry, Handed, Item, BatchEntry, Request, FromRecorder
    <3> QED BY <3>2 DEF e
  <2>3. Way' = Way
    BY <2>1, <2>2, WayPassed
  <2>4. HeadsOf(toSim', toSim)
    <3>1. CASE toSim' = toSim
      BY <3>1, SameHeads
    <3>2. CASE \E m \in Message : m.type = "header" /\ toSim' = Append(toSim, m)
      <4>1. PICK m \in Message : m.type = "header" /\ toSim' = Append(toSim, m)
        BY <3>2
      <4>2. m.type # "persisted"
        BY <4>1
      <4> QED BY <1>1, <4>1, <4>2, OtherTold
    <3> QED BY <1>5, <3>1, <3>2 DEF Creates, TakesTime
  <2> QED BY <1>2, <2>1, <2>3, <2>4
<1>6. CASE Deletes
  BY <1>6, NoDeletes
<1>7. CASE Closes
  <2>1. PICK told \in Rejecteds : toSim' = toSim \o told
    BY <1>7 DEF Closes
  <2>2. HeadsOf(toSim', toSim)
    <3>1. told \in Seq(Message) /\ ~HeadTold(told)
      BY RejectedsSayLittle
    <3> QED BY <1>1, <2>1, <3>1, OthersTold
  <2> QED BY <1>2, <1>7, <2>2 DEF Closes
<1> QED BY <1>3, <1>4, <1>5, <1>6, <1>7, FlightAcks, FlightHands, FlightCommits, StepKinds DEF RunSteps, ServingSteps

\* At the start nothing is in flight.
LEMMA FlightStarts ==
  ASSUME Init
  PROVE  FlightInv
<1>1. Base
  BY BaseStarts
<1>2. ~sim.recorder.header /\ toSim = <<>> /\ worker.queue = <<>> /\ worker.held = <<>> /\ toStorage = <<>>
      /\ worker.head.throughSeq = -1
  BY InitialSimOK DEF Init, StorageInit, InitialWorker
<1>3. Acked = -1 /\ Saved = -1
  BY <1>1, <1>2 DEF Base, SimOK, BeforeHeader, NoHead, Acked, Saved
<1>4. sim.buffer.persistedSeq = -1
  BY InitialSimOK DEF Init
<1>5. Heads(toSim) = {}
  BY <1>2 DEF Heads
<1>6. Given(worker.queue) = <<>>
  BY <1>1, <1>2, NoneGiven DEF HasGiven, Base, TypeOK, WorkerState
<1>7. Way = <<>>
  BY <1>2, <1>6 DEF Way
<1>8. Batches(Way) = {}
  BY <1>7 DEF Batches
<1>9. -1 <= -1
  OBVIOUS
<1> QED BY <1>2, <1>3, <1>4, <1>5, <1>8, <1>9 DEF FlightInv, HeadsOK, EndsKnown

(***************************************************************************)
(* The backlog counts what was gathered and is not reported saved          *)
(***************************************************************************)
\* The numbers of records in flight, added one by one.
Sums(H, v0, f) ==
  /\ H[0] = v0
  /\ \A i \in 0..Len(f) : H[i] \in Nat
  /\ \A i \in 1..Len(f) : H[i] = H[i - 1] + f[i].records

\* The backlog is such a sum, upon what is held back.
LEMMA BacklogSums ==
  ASSUME NEW r \in RecorderState
  PROVE  \E H : Sums(H, Len(r.held), r.inFlight) /\ Backlog(r).records = H[Len(r.inFlight)]
<1> DEFINE s == r.inFlight
           n == Len(s)
           V == Nat
           v0 == Len(r.held)
           F == [i \in 1..n |-> [v \in V |-> v + s[i].records]]
           Rec(it) == it = [t \in SUBSET DOMAIN s |->
                              IF t = {} THEN v0 ELSE it[t \ {Max(t)}] + s[Max(t)].records]
           g == CHOOSE it : Rec(it)
<1>0. s \in Seq(Unsaved) /\ v0 \in Nat
  BY DEF RecorderState
<1>1. n \in Nat /\ DOMAIN s = 1..n
  BY <1>0
<1>2. v0 \in V
  BY <1>0
<1>3. \A v \in V, i \in 1..n : v + s[i].records \in V
  <2> SUFFICES ASSUME NEW v \in V, NEW i \in 1..n PROVE v + s[i].records \in V
    OBVIOUS
  <2>1. s[i] \in Unsaved
    BY <1>0
  <2>2. s[i].records \in Nat
    BY <2>1 DEF Unsaved
  <2> QED BY <2>2
<1> HIDE DEF V, v0, n, s
<1>4. F \in [1..n -> [V -> V]] /\ \A i \in 1..n, v \in V : F[i][v] = v + s[i].records
  BY <1>3
<1> HIDE DEF F
<1>5. ASSUME NEW t \in SUBSET (1..n), t # {}
      PROVE  Max(t) \in 1..n /\ t \ {Max(t)} \in SUBSET (1..n)
  BY <1>1, <1>5, GreatestIndex
<1>6. PICK it \in [SUBSET (1..n) -> V] : SolvesFold(it, n, V, v0, F)
  BY <1>1, <1>2, <1>4, FoldExists
<1>7. Rec(it)
  <2>1. ASSUME NEW t \in SUBSET (1..n), t # {}
        PROVE  it[t] = it[t \ {Max(t)}] + s[Max(t)].records
    <3>1. Max(t) \in 1..n /\ it[t \ {Max(t)}] \in V
      BY <1>5, <1>6, <2>1
    <3>2. it[t] = F[Max(t)][it[t \ {Max(t)}]]
      BY <1>6, <2>1, <3>1 DEF SolvesFold
    <3> QED BY <1>4, <3>1, <3>2
  <2>2. it[{}] = v0
    BY <1>6 DEF SolvesFold
  <2> QED BY <1>1, <2>1, <2>2
<1>8. Rec(g)
  BY <1>7
<1>9. SolvesFold(g, n, V, v0, F)
  <2> HIDE DEF g
  <2>1. ASSUME NEW t \in SUBSET (1..n), t # {}, g[t \ {Max(t)}] \in V
        PROVE  g[t] = F[Max(t)][g[t \ {Max(t)}]]
    <3>1. Max(t) \in 1..n
      BY <1>5, <2>1
    <3>2. g[t] = g[t \ {Max(t)}] + s[Max(t)].records
      BY <1>1, <1>8, <2>1
    <3> QED BY <1>4, <2>1, <3>1, <3>2
  <2>2. g[{}] = v0
    BY <1>1, <1>8
  <2> QED BY <2>1, <2>2 DEF SolvesFold
<1>10. Backlog(r).records = FoldValue(g, n)
  BY <1>1 DEF FoldValue, Backlog, FoldLeft, MapThenFoldSet, v0, s
<1> HIDE DEF g
<1>11. PICK H : StepsOf(H, n, V, v0, F) /\ H[n] = FoldValue(g, n)
  BY <1>1, <1>2, <1>4, <1>9, FoldSteps
<1>12. \A i \in 0..n : H[i] \in V
  BY <1>11 DEF StepsOf
<1>13. \A i \in 1..n : H[i] = H[i - 1] + s[i].records
  <2> SUFFICES ASSUME NEW i \in 1..n PROVE H[i] = H[i - 1] + s[i].records
    OBVIOUS
  <2>1. i - 1 \in 0..n
    BY <1>1
  <2> QED BY <1>4, <1>11, <1>12, <2>1 DEF StepsOf
<1>14. Sums(H, Len(r.held), s)
  BY <1>0, <1>11, <1>12, <1>13 DEF Sums, StepsOf, V, n, v0
<1> QED BY <1>10, <1>11, <1>14 DEF n, s

\* Batches behind a head, one after the other, bring each record once: as many as there are.
LEMMA ChainCounts ==
  ASSUME NEW f \in Seq(Unsaved), NEW loads, NEW p, NEW E, NEW last, FlightChain(f, loads, p, E, last),
         NEW H, Sums(H, 0, f)
  PROVE  H[Len(f)] = Cardinality(After(E, p))
<1> DEFINE n == Len(f)
           B == 1..n
           t == Seqs(f)
           C(i) == {e \in E : p < e.seq /\ \E j \in 1..i : e.seq <= t[j]}
           P(i) == IsFiniteSet(C(i)) /\ Cardinality(C(i)) = H[i]
           T == {i \in 0..n : P(i)}
<1>1. n \in Nat
  OBVIOUS
<1>2. /\ \A i \in B : t[i] \in Int /\ loads[i] = Brings(B, t, i, p, E)
                      /\ IsFiniteSet(loads[i]) /\ f[i].records = Cardinality(loads[i])
      /\ \A i, j \in B : i < j => t[i] <= t[j]
      /\ p \in Int /\ \A e \in E : e.seq \in Int
      /\ \A e \in E : e.seq <= p \/ \E i \in B : e.seq <= t[i]
  BY DEF FlightChain, Chain, Complete, Numbers, Ordered, Limits
<1>3. P(0)
  <2>1. C(0) = {}
    OBVIOUS
  <2>2. H[0] = 0
    BY DEF Sums
  <2> QED BY <2>1, <2>2, FS_EmptySet
<1> HIDE DEF t
<1>4. ASSUME NEW i \in 0..n, P(i), i < n PROVE P(i + 1)
  <2> DEFINE k == i + 1
  <2>1. k \in B /\ k - 1 = i /\ k \in Int /\ i \in Int /\ \A j : j \in 1..k <=> j \in 1..i \/ j = k
    BY <1>1, <1>4
  <2>2. H[k] = H[i] + f[k].records
    <3>1. \A m \in 1..n : H[m] = H[m - 1] + f[m].records
      BY DEF Sums
    <3> HIDE DEF k
    <3> QED BY <2>1, <3>1
  <2>3. \A j \in B : j < k <=> j \in 1..i
    BY <1>1, <2>1
  <2> HIDE DEF k, n
  <2>4. loads[k] = {e \in E : p < e.seq /\ e.seq <= t[k] /\ \A j \in B : j < k => t[j] < e.seq}
    BY <1>2, <2>1 DEF Brings
  <2>5. 1..i \subseteq B
    BY <1>1, <1>4 DEF n
  <2>6. C(k) = C(i) \cup loads[k]
    <3>1. ASSUME NEW e \in E, p < e.seq PROVE e \in C(k) <=> e \in C(i) \/ e \in loads[k]
      <4>1. e \in C(k) <=> e \in C(i) \/ e.seq <= t[k]
        BY <2>1, <3>1
      <4>2. e \in loads[k] <=> e.seq <= t[k] /\ \A j \in B : j < k => t[j] < e.seq
        BY <2>4, <3>1
      <4>3. e \in C(i) <=> ~(\A j \in B : j < k => t[j] < e.seq)
        <5>1. e \in C(i) <=> \E j \in 1..i : e.seq <= t[j]
          BY <3>1
        <5>2. \A j \in B : t[j] \in Int /\ e.seq \in Int /\ (e.seq <= t[j] <=> ~(t[j] < e.seq))
          BY <1>2
        <5> QED BY <2>3, <2>5, <5>1, <5>2
      <4> QED BY <4>1, <4>2, <4>3
    <3>2. \A e \in C(k) \cup C(i) \cup loads[k] : e \in E /\ p < e.seq
      BY <2>4
    <3> HIDE DEF C
    <3> QED BY <3>1, <3>2
  <2>7. C(i) \cap loads[k] = {}
    <3>1. ASSUME NEW e \in C(i), e \in loads[k] PROVE FALSE
      <4>1. PICK j \in 1..i : e.seq <= t[j] /\ e \in E
        BY <3>1
      <4>2. j \in B /\ j < k
        BY <2>3, <2>5, <4>1
      <4>3. t[j] < e.seq
        BY <2>4, <3>1, <4>2
      <4> QED BY <1>2, <4>1, <4>2, <4>3
    <3> HIDE DEF C
    <3> QED BY <3>1
  <2>8. IsFiniteSet(C(i)) /\ Cardinality(C(i)) = H[i] /\ IsFiniteSet(loads[k]) /\ f[k].records = Cardinality(loads[k])
    BY <1>2, <1>4, <2>1
  <2> HIDE DEF C
  <2>9. IsFiniteSet(C(k)) /\ Cardinality(C(k)) = Cardinality(C(i)) + Cardinality(loads[k])
    <3>1. IsFiniteSet(C(i) \cup loads[k])
          /\ Cardinality(C(i) \cup loads[k]) = Cardinality(C(i)) + Cardinality(loads[k]) - Cardinality(C(i) \cap loads[k])
      BY <2>8, FS_Union
    <3>2. Cardinality(C(i) \cap loads[k]) = 0
      BY <2>7, FS_EmptySet
    <3>3. Cardinality(C(i)) \in Nat /\ Cardinality(loads[k]) \in Nat
      BY <2>8, FS_CardinalityType
    <3> QED BY <2>6, <3>1, <3>2, <3>3
  <2>10. P(k)
    BY <2>2, <2>8, <2>9
  <2> QED BY <2>10 DEF k
<1> HIDE DEF P
<1>5. 0..n \subseteq T
  <2>1. 0 \in T /\ \A i \in 0..n : i \in T /\ i < n => i + 1 \in T
    BY <1>1, <1>3, <1>4
  <2> HIDE DEF T, n
  <2> QED BY <1>1, <2>1, AllIndices
<1>6. P(n)
  BY <1>1, <1>5
<1>7. C(n) = After(E, p)
  <2>1. ASSUME NEW e \in E PROVE e \in C(n) <=> e \in After(E, p)
    <3>1. e \in C(n) <=> p < e.seq /\ \E j \in B : e.seq <= t[j]
      OBVIOUS
    <3>2. e \in After(E, p) <=> p < e.seq
      BY <1>2 DEF After
    <3>3. p < e.seq => \E j \in B : e.seq <= t[j]
      BY <1>2
    <3> QED BY <3>1, <3>2, <3>3
  <2>2. C(n) \subseteq E /\ After(E, p) \subseteq E
    BY DEF After
  <2> HIDE DEF C
  <2> QED BY <2>1, <2>2
<1> QED BY <1>6, <1>7 DEF P

\* What the recorder gathered and does not know to be saved, it counts.
LEMMA BacklogCounts ==
  ASSUME Base, FlightInv
  PROVE  Backlog(sim.recorder).records =
           Cardinality({e \in emitted : e.seq < sim.recorder.cursor /\ e.seq > sim.recorder.persistedAt.throughSeq})
<1> DEFINE r == sim.recorder
           p == r.persistedAt.throughSeq
           gathered == {e \in emitted : e.seq < r.cursor /\ e.seq > p}
<1>1. /\ r \in RecorderState /\ SimOK(sim) /\ r.cursor = sim.buffer.seq
      /\ \A e \in emitted : e.seq \in Nat /\ e.seq < sim.buffer.seq
  BY SavedTypes DEF Base, SimOK, Settled, UpTo
<1>2. gathered = After(emitted, p)
  BY <1>1 DEF After
<1> HIDE DEF gathered
<1>3. CASE r.header
  <2>1. r.held = <<>>
    BY <1>1, <1>3 DEF SimOK, Settled
  <2>2. PICK H : Sums(H, 0, r.inFlight) /\ Backlog(r).records = H[Len(r.inFlight)]
    BY <1>1, <2>1, BacklogSums
  <2>3. PICK loads : FlightChain(r.inFlight, loads, p, emitted, LastSeq)
    BY <1>3 DEF FlightInv, FlightOK
  <2>4. r.inFlight \in Seq(Unsaved)
    BY <1>1 DEF RecorderState
  <2> HIDE DEF r, p
  <2>5. H[Len(r.inFlight)] = Cardinality(After(emitted, p))
    BY <2>2, <2>3, <2>4, ChainCounts
  <2> QED BY <1>2, <2>2, <2>5 DEF r, p, gathered
<1>4. CASE ~r.header
  <2>1. /\ r.inFlight = <<>> /\ r.persistedAt = NoHead /\ Len(r.held) = Cardinality(sim.buffer.emitted)
    BY <1>1, <1>4 DEF SimOK, BeforeHeader
  <2>2. p = -1
    BY <2>1 DEF NoHead
  <2>3. After(emitted, p) = emitted
    <3> HIDE DEF p
    <3> QED BY <1>1, <2>2 DEF After
  <2>4. Backlog(r).records = Len(r.held)
    <3>1. PICK H : Sums(H, Len(r.held), r.inFlight) /\ Backlog(r).records = H[Len(r.inFlight)]
      BY <1>1, BacklogSums
    <3>2. Len(r.inFlight) = 0
      BY <2>1
    <3> QED BY <3>1, <3>2 DEF Sums
  <2> QED BY <1>2, <2>1, <2>3, <2>4 DEF emitted, gathered
<1> QED BY <1>3, <1>4

\* What was emitted is in the cache, or saved.
LEMMA EmittedIsSomewhere ==
  ASSUME Base, SavedInv, FlightInv
  PROVE  emitted \subseteq ToSet(sim.buffer.records) \cup db.records
<1> SUFFICES ASSUME NEW e \in emitted, e \notin ToSet(sim.buffer.records) PROVE e \in db.records
  OBVIOUS
<1> DEFINE b == sim.buffer
<1>1. BufferOK(b) /\ b \in Buffer /\ e \in b.emitted
  BY DEF Base, SimOK, BufferOK, emitted
<1>2. ~(e.seq >= Oldest(b)) /\ Oldest(b) <= b.persistedSeq + 1
  BY <1>1 DEF BufferOK, KeepsEmitted, InOrder
<1>3. e.seq \in Nat /\ Oldest(b) \in Int /\ b.persistedSeq \in Int
  BY <1>1, SavedTypes DEF Oldest, Buffer
<1>4. b.persistedSeq <= Saved /\ Saved \in Int
  BY SavedTypes DEF FlightInv
<1> HIDE DEF b
<1>5. e.seq <= Saved
  <2> DEFINE x == e.seq
             y == Oldest(b)
             z == b.persistedSeq
  <2> HIDE DEF x, y, z, Saved
  <2>1. x <= Saved
    BY <1>2, <1>3, <1>4 DEF x, y, z
  <2> QED BY <2>1 DEF x
<1> QED BY <1>5 DEF SavedInv, UpToSeq

\* What is not saved is neither lost nor miscounted: however small the cache is, it never
\* forgets a record that is not in the database, and the backlog for which the run waits
\* counts exactly the records that were gathered and are not reported saved. Under the
\* conditions of RecordingSavesAPrefix.
THEOREM RecordingKeepsTheUnsaved == Undisturbed /\ "commit" \notin Faults /\ Spec => []UnsavedIsKeptAndCounted
<1> SUFFICES ASSUME Undisturbed, "commit" \notin Faults PROVE Spec => []UnsavedIsKeptAndCounted
  OBVIOUS
<1>1. Init => PrefixInv /\ FlightInv
  BY BaseStarts, SavedStarts, FlightStarts DEF PrefixInv
<1>2. PrefixInv /\ FlightInv /\ [Next]_vars => PrefixInv' /\ FlightInv'
  BY BaseSteps, WorkerInvSteps, RunsInvSteps, SavedSteps, FlightSteps DEF PrefixInv
<1>3. PrefixInv /\ FlightInv => UnsavedIsKeptAndCounted
  BY BacklogCounts, EmittedIsSomewhere DEF PrefixInv, UnsavedIsKeptAndCounted
<1> QED BY <1>1, <1>2, <1>3, PTL DEF Spec

(***************************************************************************)
(* What is said to be saved is                                             *)
(***************************************************************************)
\* The members of a sequence with one taken, one more, another behind it.
LEMMA MembersOf ==
  ASSUME NEW D, NEW s \in Seq(D)
  PROVE  /\ s # <<>> => ToSet(Tail(s)) \subseteq ToSet(s) /\ Head(s) \in ToSet(s)
         /\ \A e \in D : ToSet(Append(s, e)) = ToSet(s) \cup {e}
         /\ \A t \in Seq(D) : ToSet(s \o t) = ToSet(s) \cup ToSet(t)
<1>1. ASSUME s # <<>> PROVE ToSet(Tail(s)) \subseteq ToSet(s) /\ Head(s) \in ToSet(s)
  <2>1. /\ Len(s) \in Nat /\ Len(s) >= 1 /\ Len(Tail(s)) = Len(s) - 1 /\ Head(s) = s[1] /\ Tail(s) \in Seq(D)
        /\ \A i \in 1..(Len(s) - 1) : Tail(s)[i] = s[i + 1] /\ i + 1 \in 1..Len(s)
    BY <1>1
  <2>2. DOMAIN s = 1..Len(s) /\ DOMAIN Tail(s) = 1..Len(Tail(s)) /\ 1 \in 1..Len(s)
    BY <2>1
  <2> QED BY <2>1, <2>2 DEF ToSet
<1>2. ASSUME NEW e \in D PROVE ToSet(Append(s, e)) = ToSet(s) \cup {e}
  <2> DEFINE p == Append(s, e)
  <2>1. /\ Len(s) \in Nat /\ DOMAIN s = 1..Len(s) /\ DOMAIN p = 1..(Len(s) + 1)
        /\ p[Len(s) + 1] = e /\ \A i \in 1..Len(s) : p[i] = s[i]
    OBVIOUS
  <2>2. \A i : i \in DOMAIN p <=> i \in DOMAIN s \/ i = Len(s) + 1
    BY <2>1
  <2> HIDE DEF p
  <2> QED BY <2>1, <2>2 DEF ToSet, p
<1>3. ASSUME NEW t \in Seq(D) PROVE ToSet(s \o t) = ToSet(s) \cup ToSet(t)
  <2> DEFINE p == s \o t
  <2>1. /\ Len(s) \in Nat /\ Len(t) \in Nat /\ DOMAIN s = 1..Len(s) /\ DOMAIN t = 1..Len(t)
        /\ DOMAIN p = 1..(Len(s) + Len(t))
        /\ \A i \in 1..Len(s) : p[i] = s[i] /\ i \in 1..(Len(s) + Len(t))
        /\ \A i \in 1..Len(t) : p[Len(s) + i] = t[i] /\ Len(s) + i \in 1..(Len(s) + Len(t))
    OBVIOUS
  <2>2. ASSUME NEW i \in DOMAIN p PROVE i \in DOMAIN s \/ \E j \in DOMAIN t : i = Len(s) + j
    <3>1. CASE i <= Len(s)
      BY <2>1, <3>1
    <3>2. CASE ~(i <= Len(s))
      <4>1. i - Len(s) \in 1..Len(t) /\ i = Len(s) + (i - Len(s))
        BY <2>1, <3>2
      <4> QED BY <2>1, <4>1
    <3> QED BY <3>1, <3>2
  <2> HIDE DEF p
  <2>3. ToSet(p) \subseteq ToSet(s) \cup ToSet(t)
    BY <2>1, <2>2 DEF ToSet
  <2>4. ToSet(s) \subseteq ToSet(p) /\ ToSet(t) \subseteq ToSet(p)
    BY <2>1 DEF ToSet
  <2> QED BY <2>3, <2>4 DEF p
<1> QED BY <1>1, <1>2, <1>3

\* What is on the way, as a set and in its order.
LEMMA MembersOnTheWay ==
  ASSUME NEW a \in Seq(Handed), NEW q \in Seq(Entry), NEW c \in Seq(Handed)
  PROVE  ToSet(a \o Given(q) \o c) = {e \in ToSet(c) \cup ToSet(q) \cup ToSet(a) : FromRecorder(e)}
<1> DEFINE b == Given(q)
           ab == a \o b
<1>1. b \in Seq(Handed) /\ ab \in Seq(Handed)
  <2>1. b \in Seq(Handed)
    BY GivenType
  <2> QED BY <2>1
<1>2. ToSet(b) = ToSet(q) \cap Handed
  <2>1. PICK H : Selects(H, q, Handed) /\ Only(q, Handed) = H[Len(q)]
    BY OnlySteps
  <2> QED BY <2>1, SelectedOnes DEF Given
<1>3. ToSet(ab \o c) = (ToSet(a) \cup ToSet(b)) \cup ToSet(c)
  <2>1. ab = a \o b
    OBVIOUS
  <2> HIDE DEF ab, b
  <2>2. ToSet(ab) = ToSet(a) \cup ToSet(b)
    BY <1>1, <2>1, MembersOf
  <2>3. ToSet(ab \o c) = ToSet(ab) \cup ToSet(c)
    BY <1>1, MembersOf
  <2> QED BY <2>2, <2>3
<1>4. \A e \in ToSet(a) \cup ToSet(c) : e \in Handed
  BY DEF ToSet
<1>5. \A e \in ToSet(q) : e \in Entry
  BY DEF ToSet
<1>6. \A e \in Handed : e \in Entry
  BY DEF Entry
<1>7. \A e \in Entry : FromRecorder(e) <=> e \in Handed
  BY EntryKinds
<1>8. ToSet(ab \o c) = {e \in ToSet(c) \cup ToSet(q) \cup ToSet(a) : FromRecorder(e)}
  <2> HIDE DEF ab, b
  <2> QED BY <1>2, <1>3, <1>4, <1>5, <1>6, <1>7
<1> QED BY <1>8

\* The same, of the system.
LEMMA OnTheWayIsWay ==
  ASSUME TypeOK, TypeOK' PROVE ToSet(Way) = OnTheWay /\ ToSet(Way') = OnTheWay'
<1>1. worker.held \in Seq(Handed) /\ worker.queue \in Seq(Entry) /\ toStorage \in Seq(Handed)
  BY DEF TypeOK, WorkerState
<1>2. worker'.held \in Seq(Handed) /\ worker'.queue \in Seq(Entry) /\ toStorage' \in Seq(Handed)
  BY DEF TypeOK, WorkerState
<1>3. ToSet(Way) = OnTheWay
  BY <1>1, MembersOnTheWay DEF Way, OnTheWay
<1>4. ToSet(Way') = OnTheWay'
  BY <1>2, MembersOnTheWay DEF Way, OnTheWay
<1> QED BY <1>3, <1>4

\* Nothing else than the run puts something on the way.
LEMMA NothingJoins ==
  ASSUME Base, Base', RunGoesOn \/ RunAcks \/ QueueSteps \/ ServingSteps
  PROVE  OnTheWay' \subseteq OnTheWay
<1> DEFINE a == worker.held
           q == worker.queue
           c == toStorage
           a2 == worker'.held
           q2 == worker'.queue
           c2 == toStorage'
<1>1. a \in Seq(Entry) /\ q \in Seq(Entry) /\ c \in Seq(Entry)
  <2>1. a \in Seq(Handed) /\ q \in Seq(Entry) /\ c \in Seq(Handed)
    BY DEF Base, TypeOK, WorkerState
  <2>2. Handed \subseteq Entry
    BY DEF Entry
  <2> QED BY <2>1, <2>2, Wider
<1>2. ASSUME NEW e \in Entry, ~FromRecorder(e) \/ e \in ToSet(c), q2 = Append(q, e), a2 = a,
             ToSet(c2) \subseteq ToSet(c)
      PROVE  OnTheWay' \subseteq OnTheWay
  <2>1. ToSet(q2) = ToSet(q) \cup {e}
    BY <1>1, <1>2, MembersOf
  <2> QED BY <1>2, <2>1 DEF OnTheWay
<1>3. ASSUME ToSet(q2) \subseteq ToSet(q) \cup ToSet(a), ToSet(a2) \subseteq ToSet(a) \cup ToSet(q), ToSet(c2) \subseteq ToSet(c)
      PROVE  OnTheWay' \subseteq OnTheWay
  BY <1>3 DEF OnTheWay
<1>4. CASE RunGoesOn \/ RunAcks \/ Quietly
  <2>1. q2 = q /\ a2 = a /\ c2 = c
    BY <1>4 DEF RunGoesOn, RunAcks, Quietly, Quiet, GoesOn
  <2> QED BY <1>3, <2>1
<1>5. CASE Asked
  <2>1. PICK e \in Request : Takes(e)
    BY <1>5 DEF Asked
  <2>2. e \in Entry /\ ~FromRecorder(e)
    BY DEF Entry, Request, FromRecorder
  <2>3. q2 = Append(q, e) /\ a2 = a /\ c2 = c
    BY <1>5, <2>1 DEF Asked, Takes
  <2> QED BY <1>2, <2>2, <2>3
<1>6. CASE Delivered
  <2>1. c # <<>> /\ c2 = Tail(c)
    BY <1>6 DEF Delivered
  <2>2. ToSet(c2) \subseteq ToSet(c) /\ Head(c) \in ToSet(c) /\ Head(c) \in Entry
    BY <1>1, <2>1, MembersOf
  <2>3. CASE worker.open
    <3>1. q2 = Append(q, Head(c)) /\ a2 = a
      BY <1>6, <2>3 DEF Delivered, Takes
    <3> QED BY <1>2, <2>2, <3>1
  <2>4. CASE ~worker.open
    <3>1. q2 = q /\ a2 = a
      BY <1>6, <2>4 DEF Delivered
    <3> QED BY <1>3, <2>2, <3>1
  <2> QED BY <2>3, <2>4
<1>7. CASE HoldsOne
  <2>1. q # <<>> /\ q2 = Tail(q) /\ a2 = Append(a, Head(q)) /\ c2 = c
    BY <1>7 DEF HoldsOne
  <2>2. ToSet(q2) \subseteq ToSet(q) /\ Head(q) \in ToSet(q) /\ Head(q) \in Entry
    BY <1>1, <2>1, MembersOf
  <2>3. ToSet(a2) = ToSet(a) \cup {Head(q)}
    BY <1>1, <2>1, <2>2, MembersOf
  <2> QED BY <1>3, <2>1, <2>2, <2>3
<1>8. CASE GivesBack
  <2>1. q2 = a \o q /\ a2 = <<>> /\ c2 = c
    BY <1>8 DEF GivesBack, Returns, HeldAgain
  <2>2. ToSet(a \o q) = ToSet(a) \cup ToSet(q)
    BY <1>1, MembersOf
  <2>3. ToSet(a2) = {}
    BY <2>1 DEF ToSet
  <2> HIDE DEF a, q, a2, q2
  <2>4. ToSet(q2) = ToSet(a) \cup ToSet(q)
    BY <2>1, <2>2
  <2> QED BY <1>3, <2>1, <2>3, <2>4
<1>9. CASE CommitsSome
  <2>1. PICK run, rest, fault, results : Commits(run, rest, fault, results)
    BY <1>9 DEF CommitsSome
  <2>2. run \in Seq(Entry) /\ rest \in Seq(Entry) /\ q = run \o rest /\ q2 = rest /\ a2 = a /\ c2 = c
    BY <1>9, <2>1 DEF Commits, CommitsSome
  <2>3. ToSet(q) = ToSet(run) \cup ToSet(rest)
    <3> HIDE DEF q
    <3> QED BY <2>2, MembersOf
  <2> QED BY <1>3, <2>2, <2>3
<1>10. CASE Creates \/ Deletes \/ TakesTime
  <2>1. q # <<>> /\ q2 = Tail(q) /\ a2 = a /\ c2 = c
    BY <1>10 DEF Creates, Deletes, TakesTime, Serving
  <2>2. ToSet(q2) \subseteq ToSet(q)
    BY <1>1, <2>1, MembersOf
  <2> QED BY <1>3, <2>1, <2>2
<1>11. CASE Closes
  <2>1. q2 = <<>> /\ a2 = a /\ c2 = c
    BY <1>11 DEF Closes
  <2>2. ToSet(q2) = {}
    BY <2>1 DEF ToSet
  <2> QED BY <1>3, <2>1, <2>2
<1> QED BY <1>4, <1>5, <1>6, <1>7, <1>8, <1>9, <1>10, <1>11 DEF QueueSteps, ServingSteps

\* What the run hands over joins it.
LEMMA HandedJoins ==
  ASSUME Base, Base', NEW out, Hands(sim, sim', out), toStorage' = toStorage \o out, UNCHANGED worker
  PROVE  \A e \in OnTheWay' : e \in OnTheWay \/ e \in ToSet(out)
<1> DEFINE c == toStorage
<1>1. c \in Seq(Handed) /\ out \in Seq(Handed)
  BY HandsType DEF Base, TypeOK
<1>2. ToSet(c \o out) = ToSet(c) \cup ToSet(out)
  BY <1>1, MembersOf
<1> QED BY <1>2 DEF OnTheWay

\* What speaks of a tick does not speak of a later one, and if it is the tick of the run, it
\* covers all there is.
OfItsTick(x, tick, E) == x.tick \in Int /\ x.tick <= tick /\ (x.tick = tick => \A e \in E : e.seq <= x.throughSeq)

HeadsTold(s) == {s[i].head : i \in Heads(s)}
Spoken       == {sim.recorder.persistedAt} \cup HeadsTold(toSim) \cup {e \in OnTheWay : IsBatch(e)}
TickInv      == \A x \in Spoken : OfItsTick(x, sim.recorder.tick, emitted)

\* Heads that are heard, or saved, are told.
LEMMA HeadsToldOf ==
  ASSUME NEW s, NEW t
  PROVE  /\ HeadsOf(t, s) => HeadsTold(t) \subseteq HeadsTold(s)
         /\ \A h : HeadsAnd(t, s, h) => HeadsTold(t) \subseteq HeadsTold(s) \cup {h}
<1>1. ASSUME HeadsOf(t, s) PROVE HeadsTold(t) \subseteq HeadsTold(s)
  <2>1. PICK k \in Nat : \A i \in Heads(t) : i \in Int /\ k + i \in Heads(s) /\ t[i] = s[k + i]
    BY <1>1 DEF HeadsOf
  <2> QED BY <2>1 DEF HeadsTold
<1>2. ASSUME NEW h, HeadsAnd(t, s, h) PROVE HeadsTold(t) \subseteq HeadsTold(s) \cup {h}
  <2>1. PICK m \in Int : \A i \in Heads(t) : \/ i \in Heads(s) /\ i \in Int /\ i < m /\ t[i] = s[i]
                                             \/ i = m /\ t[i].head = h
    BY <1>2 DEF HeadsAnd
  <2> QED BY <2>1 DEF HeadsTold
<1> QED BY <1>1, <1>2

\* What was true of a tick stays true while the run goes on.
LEMMA TickPasses ==
  ASSUME NEW x, NEW tick \in Int, NEW E, OfItsTick(x, tick, E), NEW later \in Int, tick <= later,
         NEW F, later = tick => F \subseteq E
  PROVE  OfItsTick(x, later, F)
<1>1. x.tick \in Int /\ x.tick <= tick /\ (x.tick = tick => \A e \in E : e.seq <= x.throughSeq)
  BY DEF OfItsTick
<1> DEFINE y == x.tick
<1> HIDE DEF y
<1>2. y \in Int /\ y <= tick /\ y <= later /\ (y = later => later = tick /\ y = tick)
  BY <1>1 DEF y
<1>3. y = later => \A e \in F : e.seq <= x.throughSeq
  BY <1>1, <1>2 DEF y
<1> QED BY <1>2, <1>3 DEF OfItsTick, y

\* What the run hands over is new since the last tick, or nothing of the tick is new; and
\* before the header nothing was ever told.
LEMMA HandedOfItsTick ==
  ASSUME Base, Base', FlightInv, TickInv, RunHands
  PROVE  TickInv'
<1>1. PICK out : Hands(sim, sim', out) /\ toStorage' = toStorage \o out
  BY DEF RunHands, HandsOver
<1> DEFINE r == sim.recorder
           q == sim'.recorder
           E == emitted
           F == emitted'
           tick == r.tick
           later == q.tick
           new == NewerThan(sim'.buffer, From(sim))
<1>2. PICK items \in Seq(Item) :
        /\ r.header /\ (items # <<>> \/ new # {}) => later > tick
        /\ Sends(r, q, new, items, out)
  BY <1>1 DEF Hands
<1>3. r \in RecorderState /\ q \in RecorderState /\ tick \in Nat /\ later \in Nat /\ tick <= later
      /\ q.lastThroughSeq = LastSeq' /\ Grown(sim.buffer, sim'.buffer)
  <2>1. r \in RecorderState /\ q \in RecorderState /\ later >= tick /\ Grown(sim.buffer, sim'.buffer)
    BY <1>1 DEF Base, SimOK, Settled, Hands
  <2>2. tick \in Nat /\ later \in Nat
    BY <2>1 DEF RecorderState
  <2>3. q.lastThroughSeq = LastSeq'
    BY DEF LastSeq
  <2> HIDE DEF tick, later, r, q
  <2>4. tick <= later
    BY <2>1, <2>2
  <2> QED BY <2>1, <2>2, <2>3, <2>4
<1>4. sim.buffer.seq \in Nat /\ \A e \in F : e.seq \in Int /\ e.seq <= LastSeq'
  BY SavedTypes, EmittedGoesOn DEF GoneOn
<1>5. ASSUME r.header, new = {} PROVE F \subseteq E
  <2>1. \A e \in F : e \in E \/ e.seq >= sim.buffer.seq
    BY <1>3 DEF Grown, emitted
  <2>2. \A e \in F : ~(e.seq >= sim.buffer.seq)
    BY <1>5 DEF NewerThan, From, emitted
  <2> QED BY <2>1, <2>2
<1>6. ~r.header => r.persistedAt = NoHead
  BY DEF Base, SimOK, BeforeHeader
<1>7. ~r.header => \A x \in Spoken : x = NoHead
  <2> SUFFICES ASSUME ~r.header PROVE \A x \in Spoken : x = NoHead
    OBVIOUS
  <2>1. toStorage = <<>> /\ worker.held = <<>> /\ ~HasGiven(worker.queue) /\ ~HeadTold(toSim)
    BY DEF Base, HeaderInv
  <2>2. HeadsTold(toSim) = {}
    BY <2>1 DEF HeadsTold, Heads, HeadTold
  <2>3. OnTheWay = {}
    <3>1. worker.queue \in Seq(Entry)
      BY DEF Base, TypeOK, WorkerState
    <3>2. ToSet(toStorage) = {} /\ ToSet(worker.held) = {}
      BY <2>1 DEF ToSet
    <3>3. \A e \in ToSet(worker.queue) : ~FromRecorder(e)
      BY <2>1, <3>1 DEF ToSet, HasGiven
    <3> QED BY <3>2, <3>3 DEF OnTheWay
  <2> QED BY <1>6, <2>2, <2>3 DEF Spoken
<1>8. OfItsTick(NoHead, later, F)
  <2>1. NoHead.tick = -1
    BY DEF NoHead
  <2>2. -1 \in Int /\ -1 <= later /\ -1 # later
    BY <1>3
  <2> QED BY <2>1, <2>2 DEF OfItsTick
<1>9. ASSUME NEW x \in Spoken PROVE OfItsTick(x, later, F)
  <2>1. CASE ~r.header
    BY <1>7, <1>8, <2>1
  <2>2. CASE r.header
    <3>1. later = tick => F \subseteq E
      <4>1. later = tick => new = {}
        <5> HIDE DEF new, tick, later
        <5> QED BY <1>2, <1>3, <2>2
      <4> HIDE DEF F, E
      <4> QED BY <1>5, <2>2, <4>1
    <3>2. OfItsTick(x, tick, E)
      BY DEF TickInv
    <3>3. tick \in Int /\ later \in Int
      BY <1>3
    <3> HIDE DEF tick, later, E, F
    <3> QED BY <1>3, <3>1, <3>2, <3>3, TickPasses
  <2> QED BY <2>1, <2>2
<1>10. HeadsTold(toSim') \subseteq HeadsTold(toSim)
  <2>1. toSim' = toSim \/ (toSim # <<>> /\ toSim' = Tail(toSim))
    BY DEF RunHands, Hearing
  <2>2. HeadsOf(toSim', toSim)
    BY <2>1, SameHeads, HeadHeard DEF Base, TypeOK
  <2> QED BY <2>2, HeadsToldOf
<1>11. \A e \in OnTheWay' : e \in OnTheWay \/ e \in ToSet(out)
  BY <1>1, HandedJoins DEF RunHands
<1>12. ASSUME NEW e \in ToSet(out), IsBatch(e) PROVE OfItsTick(e, later, F)
  <2>1. out # <<>>
    BY <1>12 DEF ToSet
  <2>2. PICK batch \in BatchEntry : out = Append(items, batch) /\ batch.throughSeq = q.lastThroughSeq /\ batch.tick = q.tick
    BY <1>2, <2>1 DEF Sends
  <2>3. e \in ToSet(items) \/ e = batch
    <3>1. items \in Seq(Handed) /\ batch \in Handed
      BY Wider DEF Handed
    <3>2. ToSet(Append(items, batch)) = ToSet(items) \cup {batch}
      BY <3>1, MembersOf
    <3> QED BY <1>12, <2>2, <3>2
  <2>4. e \notin ToSet(items)
    <3>1. \A i \in DOMAIN items : items[i] \in Item
      OBVIOUS
    <3>2. \A y \in Item : ~IsBatch(y)
      BY DEF Item, IsBatch
    <3> QED BY <1>12, <3>1, <3>2 DEF ToSet
  <2>5. e = batch /\ e.tick = later /\ e.throughSeq = LastSeq'
    BY <1>3, <2>2, <2>3, <2>4
  <2>6. later \in Int /\ later <= later
    BY <1>3
  <2> HIDE DEF later, F
  <2> QED BY <1>4, <2>5, <2>6 DEF OfItsTick, F
<1>13. OfItsTick(q.persistedAt, later, F)
  <2>1. r.persistedAt \in Spoken
    BY DEF Spoken
  <2>2. CASE q.persistedAt = r.persistedAt
    BY <1>9, <2>1, <2>2
  <2>3. CASE q.persistedAt # r.persistedAt
    <3>1. /\ new = {} /\ r.inFlight = <<>> /\ q.persistedAt.throughSeq = r.persistedAt.throughSeq
          /\ q.persistedAt.tick \in {r.persistedAt.tick, q.tick}
          /\ r.persistedAt = NoHead => q.persistedAt = NoHead
      BY <1>2, <2>3 DEF Sends
    <3>2. r.header
      BY <1>6, <2>3, <3>1
    <3>3. \A e \in F : e \in E
      BY <1>5, <3>1, <3>2
    <3>4. \A e \in E : e.seq <= r.persistedAt.throughSeq
      <4>1. PICK loads : FlightChain(r.inFlight, loads, r.persistedAt.throughSeq, emitted, LastSeq)
        BY <3>2 DEF FlightInv, FlightOK
      <4>2. Len(r.inFlight) = 0
        BY <3>1
      <4> QED BY <4>1, <4>2 DEF FlightChain, Complete
    <3>5. CASE q.persistedAt.tick = r.persistedAt.tick
      <4>1. OfItsTick(r.persistedAt, later, F)
        BY <1>9, <2>1
      <4> QED BY <3>1, <3>5, <4>1 DEF OfItsTick
    <3>6. CASE q.persistedAt.tick = q.tick
      <4>1. later \in Int /\ later <= later
        BY <1>3
      <4> HIDE DEF E, F
      <4> QED BY <3>1, <3>3, <3>4, <3>6, <4>1 DEF OfItsTick
    <3> QED BY <3>1, <3>5, <3>6
  <2> QED BY <2>2, <2>3
<1>14. \A x \in Spoken' : \/ x = q.persistedAt \/ x \in HeadsTold(toSim')
                          \/ x \in OnTheWay' /\ IsBatch(x)
  BY DEF Spoken
<1> HIDE DEF q, later, F
<1>15. \A x \in Spoken' : OfItsTick(x, later, F)
  <2>1. HeadsTold(toSim) \subseteq Spoken /\ \A x \in OnTheWay : IsBatch(x) => x \in Spoken
    BY DEF Spoken
  <2> QED BY <1>9, <1>10, <1>11, <1>12, <1>13, <1>14, <2>1
<1> QED BY <1>15 DEF TickInv, later, F, q

\* Every other step says what was said before, or reports the last batch it saved.
LEMMA TickSteps ==
  ASSUME Undisturbed, Base, Base', WorkerInv, FlightInv, TickInv, [Next]_vars
  PROVE  TickInv'
<1>1. toSim \in Seq(Message)
  BY DEF Base, TypeOK
<1>2. ASSUME Spoken' \subseteq Spoken, sim'.recorder.tick = sim.recorder.tick, emitted' = emitted PROVE TickInv'
  BY <1>2 DEF TickInv
<1>3. ASSUME HeadsTold(toSim') \subseteq HeadsTold(toSim), OnTheWay' \subseteq OnTheWay,
             sim'.recorder.persistedAt = sim.recorder.persistedAt
      PROVE  Spoken' \subseteq Spoken
  BY <1>3 DEF Spoken
<1>4. ASSUME HeadsOf(toSim', toSim) PROVE HeadsTold(toSim') \subseteq HeadsTold(toSim)
  BY <1>4, HeadsToldOf
<1>5. ASSUME HeadsOf(toSim', toSim), OnTheWay' \subseteq OnTheWay, sim' = sim PROVE TickInv'
  BY <1>2, <1>3, <1>4, <1>5 DEF emitted
<1>6. CASE RunGoesOn
  <2>1. HeadsOf(toSim', toSim)
    BY <1>1, <1>6, SameHeads, HeadHeard DEF RunGoesOn, Hearing
  <2>2. sim'.recorder.persistedAt = sim.recorder.persistedAt /\ sim'.recorder.tick = sim.recorder.tick /\ emitted' = emitted
    BY <1>6 DEF RunGoesOn, GoesOn, Rests, Alike, emitted
  <2>3. OnTheWay' \subseteq OnTheWay
    BY <1>6, NothingJoins
  <2> QED BY <1>2, <1>3, <1>4, <2>1, <2>2, <2>3
<1>7. CASE RunAcks
  <2>1. toSim # <<>> /\ toSim' = Tail(toSim) /\ Head(toSim).type = "persisted"
    BY <1>7 DEF RunAcks, Hearing
  <2>2. HeadsOf(toSim', toSim) /\ Head(toSim) = toSim[1] /\ 1 \in Heads(toSim)
    BY <1>1, <2>1, HeadHeard
  <2>3. Acks(sim, sim', Head(toSim).head)
    BY <1>7 DEF RunAcks
  <2>4. sim'.recorder.persistedAt = toSim[1].head /\ sim'.recorder.tick = sim.recorder.tick /\ emitted' = emitted
    BY <2>2, <2>3 DEF Acks, emitted
  <2>5. OnTheWay' \subseteq OnTheWay
    BY <1>7, NothingJoins
  <2>6. toSim[1].head \in HeadsTold(toSim)
    BY <2>2 DEF HeadsTold
  <2>7. Spoken' \subseteq Spoken
    BY <1>4, <2>2, <2>4, <2>5, <2>6 DEF Spoken
  <2> QED BY <1>2, <2>4, <2>7
<1>8. CASE QueueSteps
  <2>1. UNCHANGED sim
    BY <1>8 DEF QueueSteps, Quietly, Asked, Delivered, HoldsOne, GivesBack
  <2>2. toSim' = toSim \/ \E m \in Message : m.type = "quota" /\ toSim' = Append(toSim, m)
    BY <1>8 DEF QueueSteps, Quietly, Asked, Delivered, HoldsOne, GivesBack
  <2>3. HeadsOf(toSim', toSim)
    <3>1. CASE toSim' = toSim
      BY <3>1, SameHeads
    <3>2. CASE \E m \in Message : m.type = "quota" /\ toSim' = Append(toSim, m)
      BY <1>1, <3>2, OtherTold
    <3> QED BY <2>2, <3>1, <3>2
  <2>4. OnTheWay' \subseteq OnTheWay
    BY <1>8, NothingJoins
  <2> QED BY <1>5, <2>1, <2>3, <2>4
<1>9. CASE Creates \/ TakesTime
  <2>1. HeadsOf(toSim', toSim)
    <3>1. CASE toSim' = toSim
      BY <3>1, SameHeads
    <3>2. CASE \E m \in Message : m.type = "header" /\ toSim' = Append(toSim, m)
      <4>1. PICK m \in Message : m.type = "header" /\ toSim' = Append(toSim, m)
        BY <3>2
      <4>2. m.type # "persisted"
        BY <4>1
      <4> QED BY <1>1, <4>1, <4>2, OtherTold
    <3> QED BY <1>9, <3>1, <3>2 DEF Creates, TakesTime
  <2>2. OnTheWay' \subseteq OnTheWay /\ sim' = sim
    BY <1>9, NothingJoins DEF ServingSteps, Creates, TakesTime
  <2> QED BY <1>5, <2>1, <2>2
<1>10. CASE Closes
  <2>1. PICK told \in Rejecteds : toSim' = toSim \o told
    BY <1>10 DEF Closes
  <2>2. HeadsOf(toSim', toSim)
    <3>1. told \in Seq(Message) /\ ~HeadTold(told)
      BY RejectedsSayLittle
    <3> QED BY <1>1, <2>1, <3>1, OthersTold
  <2>3. OnTheWay' \subseteq OnTheWay /\ sim' = sim
    BY <1>10, NothingJoins DEF ServingSteps, Closes
  <2> QED BY <1>5, <2>2, <2>3
<1>11. CASE CommitsSome
  <2>1. PICK run, rest, fault, results : Commits(run, rest, fault, results)
    BY <1>11 DEF CommitsSome
  <2>2. OnTheWay' \subseteq OnTheWay /\ sim' = sim
    BY <1>11, NothingJoins DEF ServingSteps, CommitsSome
  <2> DEFINE t == toSim'
             h == worker'.head
  <2>3. \/ SavedBatches(run, results) = {} /\ HeadsOf(t, toSim)
        \/ SavedBatches(run, results) # {} /\ HeadsAnd(t, toSim, h)
    BY <2>1, CommitHeads
  <2>4. CASE HeadsOf(t, toSim)
    BY <1>5, <2>2, <2>4
  <2>5. CASE SavedBatches(run, results) # {} /\ HeadsAnd(t, toSim, h)
    <3>1. PICK i \in SavedBatches(run, results) :
            i \in 1..Len(run) /\ run[i] \in BatchEntry /\ h = [throughSeq |-> run[i].throughSeq, tick |-> run[i].tick]
      BY <2>1, <2>5 DEF Commits
    <3>2. run[i] \in OnTheWay /\ IsBatch(run[i])
      <4>1. run \in Seq(Entry) /\ rest \in Seq(Entry) /\ worker.queue = run \o rest
        BY <2>1 DEF Commits
      <4>2. i \in 1..Len(worker.queue) /\ worker.queue[i] = run[i] /\ DOMAIN worker.queue = 1..Len(worker.queue)
        BY <3>1, <4>1
      <4>3. FromRecorder(run[i]) /\ IsBatch(run[i])
        BY <3>1 DEF BatchEntry, FromRecorder, IsBatch
      <4>4. run[i] \in ToSet(worker.queue)
        BY <4>2 DEF ToSet
      <4> QED BY <4>3, <4>4 DEF OnTheWay
    <3>3. run[i] \in Spoken
      BY <3>2 DEF Spoken
    <3>4. OfItsTick(h, sim.recorder.tick, emitted)
      <4>1. OfItsTick(run[i], sim.recorder.tick, emitted) /\ h.tick = run[i].tick /\ h.throughSeq = run[i].throughSeq
        BY <3>1, <3>3 DEF TickInv
      <4> QED BY <4>1 DEF OfItsTick
    <3>5. HeadsTold(t) \subseteq HeadsTold(toSim) \cup {h}
      BY <2>5, HeadsToldOf
    <3> HIDE DEF h
    <3>6. Spoken' \subseteq Spoken \cup {h}
      BY <2>2, <3>5 DEF Spoken
    <3> QED BY <2>2, <3>4, <3>6 DEF TickInv, emitted
  <2> QED BY <2>3, <2>4, <2>5
<1>12. CASE Deletes
  BY <1>12, NoDeletes
<1>13. CASE RunHands
  BY <1>13, HandedOfItsTick
<1> QED BY <1>6, <1>7, <1>8, <1>9, <1>10, <1>11, <1>12, <1>13, StepKinds DEF RunSteps, ServingSteps

\* At the start nothing is told.
LEMMA TickStarts ==
  ASSUME Init PROVE TickInv /\ OnTheWay = {}
<1>1. Base
  BY BaseStarts
<1>2. ~sim.recorder.header /\ toSim = <<>> /\ worker.queue = <<>> /\ worker.held = <<>> /\ toStorage = <<>>
  BY InitialSimOK DEF Init, StorageInit, InitialWorker
<1>3. sim.recorder.persistedAt = NoHead /\ sim.recorder.tick = 0
  BY <1>1, <1>2 DEF Base, SimOK, BeforeHeader
<1>4. HeadsTold(toSim) = {}
  BY <1>2 DEF Heads, HeadsTold
<1>5. OnTheWay = {}
  BY <1>2 DEF OnTheWay, ToSet
<1>6. OfItsTick(NoHead, 0, emitted)
  BY DEF NoHead, OfItsTick
<1> QED BY <1>3, <1>4, <1>5, <1>6 DEF TickInv, Spoken

\* What is on the way is not saved: the records of a batch, and for a snapshot some record that
\* was emitted with it or later, which comes behind it.
AheadOf(e, saved, E) ==
  /\ IsBatch(e) => \A x \in ToSet(e.records) : x \in E /\ x.seq > saved
  /\ IsSnapshot(e) => \E x \in E : x.seq > saved
Followed(w) == \A i \in 1..Len(w) : IsSnapshot(w[i]) => \E j \in Batches(w) : j > i /\ Loads(w)[j] # {}
AheadInv ==
  /\ \A e \in OnTheWay : AheadOf(e, Saved, emitted)
  /\ worker.open => Followed(Way)

\* The records of a batch in the chain are not saved.
LEMMA LoadsAhead ==
  ASSUME NEW w, NEW h, NEW E, NEW last, WayChain(w, h, E, last), NEW i \in Batches(w)
  PROVE  \A x \in Loads(w)[i] : x \in E /\ x.seq > h
<1>1. Loads(w)[i] = Brings(Batches(w), Ends(w), i, h, E) /\ h \in Int /\ \A e \in E : e.seq \in Int
  BY DEF WayChain, Chain, Limits
<1> QED BY <1>1 DEF Brings

\* So what the chain has is ahead of the head.
LEMMA ChainAhead ==
  ASSUME NEW w \in Seq(Entry), NEW h, NEW E, NEW last, WayChain(w, h, E, last), Followed(w)
  PROVE  \A e \in ToSet(w) : AheadOf(e, h, E)
<1> SUFFICES ASSUME NEW e \in ToSet(w) PROVE AheadOf(e, h, E)
  OBVIOUS
<1>1. PICK i \in 1..Len(w) : w[i] = e
  BY DEF ToSet
<1>2. ASSUME IsBatch(e) PROVE \A x \in ToSet(e.records) : x \in E /\ x.seq > h
  <2>1. i \in Batches(w) /\ Loads(w)[i] = ToSet(e.records)
    BY <1>1, <1>2 DEF Batches, Loads
  <2> QED BY <2>1, LoadsAhead
<1>3. ASSUME IsSnapshot(e) PROVE \E x \in E : x.seq > h
  <2>1. PICK j \in Batches(w) : Loads(w)[j] # {}
    BY <1>1, <1>3 DEF Followed
  <2>2. \A x \in Loads(w)[j] : x \in E /\ x.seq > h
    BY LoadsAhead
  <2> QED BY <2>1, <2>2
<1> QED BY <1>2, <1>3 DEF AheadOf

\* What is followed stays so when entries before it go, or others join behind it.
LEMMA FollowedParts ==
  ASSUME NEW w \in Seq(Entry), NEW v \in Seq(Entry), NEW p, Following(w, v, p)
  PROVE  /\ Followed(p) => Followed(v)
         /\ Followed(w) /\ Followed(v) => Followed(p)
<1> DEFINE n == Len(w)
<1>1. /\ Len(p) = n + Len(v) /\ n \in Nat /\ Len(v) \in Nat
      /\ \A i \in 1..n : i \in 1..Len(p) /\ p[i] = w[i]
      /\ \A i \in 1..Len(v) : n + i \in 1..Len(p) /\ p[n + i] = v[i]
      /\ \A i \in Batches(w) : i \in Batches(p) /\ i \in 1..n
      /\ \A i \in Batches(v) : n + i \in Batches(p) /\ i \in 1..Len(v)
      /\ \A i \in Batches(p) : i <= n => i \in Batches(w)
      /\ \A i \in Batches(p) : ~(i <= n) => \E j \in Batches(v) : i = n + j
      /\ \A i \in Batches(p) : i \in 1..Len(p)
  BY DEF Following, Batches
<1>2. /\ \A i \in Batches(w) : Loads(p)[i] = Loads(w)[i]
      /\ \A i \in Batches(v) : \A k \in Batches(p) : k = n + i => Loads(p)[k] = Loads(v)[i]
  BY <1>1 DEF Loads
<1> HIDE DEF n
<1>3. ASSUME Followed(p), NEW i \in 1..Len(v), IsSnapshot(v[i])
      PROVE  \E j \in Batches(v) : j > i /\ Loads(v)[j] # {}
  <2>1. n + i \in 1..Len(p) /\ IsSnapshot(p[n + i]) /\ i \in Int /\ n \in Int /\ i > 0
    BY <1>1, <1>3
  <2>2. PICK k \in Batches(p) : k > n + i /\ Loads(p)[k] # {}
    BY <1>3, <2>1 DEF Followed
  <2>3. ~(k <= n) /\ k \in Int
    BY <1>1, <2>1, <2>2
  <2>4. PICK j \in Batches(v) : k = n + j
    BY <1>1, <2>3
  <2>5. j > i
    BY <1>1, <2>1, <2>2, <2>4
  <2> QED BY <1>2, <2>2, <2>4, <2>5
<1>4. ASSUME Followed(w), Followed(v), NEW i \in 1..Len(p), IsSnapshot(p[i])
      PROVE  \E j \in Batches(p) : j > i /\ Loads(p)[j] # {}
  <2>1. CASE i <= n
    <3>1. i \in 1..n /\ IsSnapshot(w[i])
      BY <1>1, <1>4, <2>1
    <3>2. PICK j \in Batches(w) : j > i /\ Loads(w)[j] # {}
      BY <1>4, <3>1 DEF Followed, n
    <3> QED BY <1>1, <1>2, <3>2
  <2>2. CASE ~(i <= n)
    <3> DEFINE k == i - n
    <3>1. k \in 1..Len(v) /\ i = n + k
      BY <1>1, <2>2
    <3> HIDE DEF k
    <3>2. IsSnapshot(v[k])
      BY <1>1, <1>4, <3>1
    <3>3. PICK j \in Batches(v) : j > k /\ Loads(v)[j] # {}
      BY <1>4, <3>1, <3>2 DEF Followed
    <3>4. n + j \in Batches(p) /\ n + j > i
      BY <1>1, <3>1, <3>3
    <3>5. Loads(p)[n + j] = Loads(v)[j]
      BY <1>2, <3>4
    <3> QED BY <3>3, <3>4, <3>5
  <2> QED BY <2>1, <2>2
<1> QED BY <1>3, <1>4 DEF Followed

\* What is handed over is ahead of what is saved, and a snapshot in it is followed by a batch
\* that is not empty.
LEMMA HandedAhead ==
  ASSUME Base, Base', SavedInv, NEW out, Hands(sim, sim', out)
  PROVE  /\ \A e \in ToSet(out) : AheadOf(e, Saved, emitted')
         /\ Followed(out)
<1> DEFINE F == emitted'
           from == From(sim)
           new == NewerThan(sim'.buffer, from)
           tick == sim'.recorder.tick
<1>1. PICK items \in Seq(Item) :
        /\ Accounts(items, tick, sim'.buffer, sim'.sentBlobs, from, Blobs(sim))
        /\ Sends(sim.recorder, sim'.recorder, new, items, out)
  BY DEF Hands
<1>2. \A e \in F : e.seq >= from => e.seq > Saved
  <2>1. Saved \in Int /\ Saved <= LastSeq /\ LastSeq = sim.buffer.seq - 1 /\ sim.buffer.seq \in Nat
        /\ (~sim.recorder.header => Saved = -1)
    BY SavedTypes DEF SavedInv
  <2>2. from = (IF sim.recorder.header THEN sim.buffer.seq ELSE 0)
    BY DEF From
  <2>3. from \in Int /\ Saved < from
    <3> DEFINE y == sim.buffer.seq
               z == Saved
    <3> HIDE DEF y, z, from
    <3> QED BY <2>1, <2>2 DEF y, z
  <2>4. \A e \in F : e.seq \in Nat
    BY DEF Hands, SimOK, BufferOK, Buffer, TraceRecord, emitted
  <2> HIDE DEF from, F
  <2> QED BY <2>1, <2>3, <2>4
<1>3. \A x : x \in new <=> x \in F /\ x.seq >= from
  BY DEF NewerThan, emitted
<1>4. CASE out = <<>>
  <2>1. ToSet(out) = {} /\ Len(out) = 0
    BY <1>4 DEF ToSet
  <2> QED BY <2>1 DEF Followed
<1>5. CASE \E batch \in BatchEntry : out = Append(items, batch) /\ ToSet(batch.records) = new
  <2>1. PICK batch \in BatchEntry : out = Append(items, batch) /\ ToSet(batch.records) = new
    BY <1>5
  <2>2. OneBatch(out, batch) /\ Len(out) = Len(items) + 1 /\ Len(items) \in Nat
        /\ \A i \in 1..Len(items) : out[i] = items[i] /\ i \in DOMAIN items
    <3>1. OneBatch(out, batch)
      BY <2>1, ItemsThenBatch
    <3> QED BY <2>1, <3>1
  <2>3. /\ Len(out) \in Batches(out) /\ out[Len(out)] = batch /\ IsBatch(batch) /\ ~IsSnapshot(batch)
        /\ Loads(out)[Len(out)] = new
    <3>1. Len(out) \in Batches(out) /\ out[Len(out)] = batch
      BY <2>2 DEF OneBatch
    <3>2. IsBatch(batch) /\ ~IsSnapshot(batch)
      BY DEF BatchEntry, IsBatch, FromRecorder, IsSnapshot
    <3> QED BY <2>1, <3>1, <3>2 DEF Loads
  <2>4. \A i \in 1..Len(out) : i = Len(out) \/ (i \in 1..Len(items) /\ i < Len(out))
    BY <2>2
  <2>5. ASSUME NEW i \in 1..Len(items) PROVE ~IsBatch(out[i]) /\ (IsSnapshot(out[i]) => new # {})
    <3>1. items[i] \in Item /\ out[i] = items[i] /\ i \in DOMAIN items
      BY <2>2
    <3>2. ~IsBatch(items[i])
      BY <3>1 DEF Item, IsBatch
    <3>3. ASSUME IsSnapshot(items[i]) PROVE new # {}
      <4>1. \E e \in sim'.buffer.emitted : e.seq >= from
        BY <1>1, <3>1, <3>3 DEF Accounts
      <4> HIDE DEF from
      <4> QED BY <4>1 DEF NewerThan
    <3> QED BY <3>1, <3>2, <3>3
  <2> HIDE DEF new, F, from
  <2>6. ASSUME NEW e \in ToSet(out) PROVE AheadOf(e, Saved, F)
    <3>1. PICK i \in 1..Len(out) : out[i] = e
      BY <2>2 DEF ToSet, OneBatch
    <3>2. CASE i = Len(out)
      <4>1. e = batch
        BY <2>3, <3>1, <3>2
      <4> QED BY <1>2, <1>3, <2>1, <2>3, <4>1 DEF AheadOf
    <3>3. CASE i \in 1..Len(items)
      <4>1. ~IsBatch(e) /\ (IsSnapshot(e) => new # {})
        BY <2>5, <3>1, <3>3
      <4> QED BY <1>2, <1>3, <4>1 DEF AheadOf
    <3> QED BY <2>4, <3>2, <3>3
  <2>7. Followed(out)
    <3> SUFFICES ASSUME NEW i \in 1..Len(out), IsSnapshot(out[i])
                 PROVE  \E j \in Batches(out) : j > i /\ Loads(out)[j] # {}
      BY DEF Followed
    <3>1. i \in 1..Len(items) /\ i < Len(out)
      BY <2>3, <2>4
    <3>2. new # {} /\ Len(out) > i
      BY <2>2, <2>5, <3>1
    <3> QED BY <2>3, <3>2
  <2> QED BY <2>6, <2>7 DEF F
<1> QED BY <1>1, <1>4, <1>5 DEF Sends

\* A step that saves leaves what the chain has; every other saves nothing.
LEMMA AheadSteps ==
  ASSUME Undisturbed, "commit" \notin Faults, Base, Base', WorkerInv, RunsInv, SavedInv, AheadInv, [Next]_vars
  PROVE  AheadInv'
<1>1. ASSUME OnTheWay' \subseteq OnTheWay, Saved' = Saved, emitted' = emitted, worker'.open => worker.open /\ Way' = Way
      PROVE  AheadInv'
  BY <1>1 DEF AheadInv
<1>2. CASE RunHands
  <2>1. PICK out : Hands(sim, sim', out) /\ toStorage' = toStorage \o out
    BY <1>2 DEF RunHands, HandsOver
  <2>2. UNCHANGED worker /\ Saved' = Saved
    BY <1>2 DEF RunHands, Saved
  <2>3. /\ \A e \in ToSet(out) : AheadOf(e, Saved, emitted')
        /\ Followed(out)
    BY <2>1, HandedAhead
  <2>4. \A e \in OnTheWay' : e \in OnTheWay \/ e \in ToSet(out)
    BY <2>1, <2>2, HandedJoins
  <2>5. emitted \subseteq emitted'
    BY <2>1 DEF Hands, Grown, emitted
  <2>6. \A e \in OnTheWay : AheadOf(e, Saved, emitted')
    BY <2>5 DEF AheadInv, AheadOf
  <2>7. worker'.open => Followed(Way')
    <3>1. Way \in Seq(Entry) /\ out \in Seq(Entry) /\ Following(Way, out, Way')
      BY <2>1, <2>2, HandedLast
    <3>2. worker.open => Followed(Way)
      BY DEF AheadInv
    <3> DEFINE w == Way
               v == Way'
    <3> HIDE DEF w, v
    <3>3. Followed(w) /\ Followed(out) => Followed(v)
      BY <3>1, FollowedParts DEF w, v
    <3> QED BY <2>2, <2>3, <3>2, <3>3 DEF w, v
  <2> QED BY <2>2, <2>3, <2>4, <2>6, <2>7 DEF AheadInv
<1>3. CASE CommitsSome
  <2>1. PICK run, rest, fault, results : Commits(run, rest, fault, results)
    BY <1>3 DEF CommitsSome
  <2>2. UNCHANGED <<sim, toStorage>>
    BY <1>3 DEF CommitsSome
  <2>3. worker.open
    BY <2>1 DEF Commits, Base, HeaderInv
  <2>4. WayChain(Way', Saved', emitted, LastSeq)
    BY <2>1, <2>2, <2>3, TakenIsSaved
  <2>5. run \in Seq(Handed) /\ Way = run \o Way' /\ Way' \in Seq(Handed)
    BY <2>1, <2>2, WayTaken
  <2> DEFINE w == Way
             v == Way'
             k == Saved'
  <2>6. run \in Seq(Entry) /\ v \in Seq(Entry)
    <3>1. Handed \subseteq Entry
      BY DEF Entry
    <3>2. v \in Seq(Handed)
      BY <2>5
    <3> HIDE DEF v
    <3>3. \A s : s \in Seq(Handed) => s \in Seq(Entry)
      BY <3>1, Wider, Zenon
    <3> QED BY <2>5, <3>2, <3>3
  <2>7. ToSet(v) = OnTheWay'
    BY OnTheWayIsWay DEF Base
  <2>8. Followed(w)
    BY <2>3 DEF AheadInv
  <2>9. emitted' = emitted
    BY <2>2 DEF emitted
  <2> HIDE DEF w, v, k
  <2>10. Following(run, v, w)
    BY <2>5, <2>6, Follows DEF w, v
  <2>11. Followed(v)
    BY <2>6, <2>8, <2>10, FollowedParts
  <2>12. \A e \in ToSet(v) : AheadOf(e, k, emitted)
    BY <2>4, <2>6, <2>11, ChainAhead DEF v, k
  <2> QED BY <2>7, <2>9, <2>11, <2>12 DEF AheadInv, v, k
<1>4. CASE RunGoesOn \/ RunAcks
  <2>1. UNCHANGED <<worker, toStorage>>
    BY <1>4 DEF RunGoesOn, GoesOn, RunAcks
  <2>2. emitted' = emitted
    BY <1>4 DEF RunGoesOn, GoesOn, Rests, RunAcks, Acks, emitted
  <2>3. OnTheWay' \subseteq OnTheWay
    BY <1>4, NothingJoins
  <2> QED BY <1>1, <2>1, <2>2, <2>3 DEF Saved, Way
<1>5. CASE QueueSteps
  <2>1. worker'.head = worker.head /\ worker'.open = worker.open /\ UNCHANGED sim
    BY <1>5 DEF QueueSteps, Quietly, Quiet, Asked, Takes, Delivered, HoldsOne, GivesBack, Returns
  <2>2. worker.open => Way' = Way
    BY <1>5, WayKept
  <2>3. OnTheWay' \subseteq OnTheWay
    BY <1>5, NothingJoins
  <2> QED BY <1>1, <2>1, <2>2, <2>3 DEF Saved, emitted
<1>6. CASE Creates \/ TakesTime
  <2>1. /\ worker'.head = worker.head /\ worker'.open = worker.open
        /\ UNCHANGED <<sim, toStorage>>
        /\ worker.queue # <<>> /\ Head(worker.queue).op \in {"create", "slow"}
        /\ worker'.queue = Tail(worker.queue) /\ worker'.held = worker.held
        /\ worker.queue \in Seq(Entry)
    BY <1>6 DEF Creates, TakesTime, Serving, Base, TypeOK, WorkerState
  <2>2. ~FromRecorder(Head(worker.queue))
    <3> DEFINE e == Head(worker.queue)
    <3>1. e \in Entry /\ e.op \in {"create", "slow"}
      BY <2>1
    <3> HIDE DEF e
    <3>2. ~FromRecorder(e)
      BY <3>1 DEF Entry, Handed, Item, BatchEntry, Request, FromRecorder
    <3> QED BY <3>2 DEF e
  <2>3. Way' = Way
    BY <2>1, <2>2, WayPassed
  <2>4. OnTheWay' \subseteq OnTheWay
    BY <1>6, NothingJoins DEF ServingSteps
  <2> QED BY <1>1, <2>1, <2>3, <2>4 DEF Saved, emitted
<1>7. CASE Deletes
  BY <1>7, NoDeletes
<1>8. CASE Closes
  <2>1. OnTheWay' \subseteq OnTheWay
    BY <1>8, NothingJoins DEF ServingSteps
  <2> QED BY <1>1, <1>8, <2>1 DEF Closes, Saved, emitted
<1> QED BY <1>2, <1>3, <1>4, <1>5, <1>6, <1>7, <1>8, StepKinds DEF RunSteps, ServingSteps

\* At the start nothing is on the way.
LEMMA AheadStarts ==
  ASSUME Init PROVE AheadInv
<1>1. Base /\ OnTheWay = {}
  BY BaseStarts, TickStarts
<1>2. worker.queue = <<>> /\ worker.held = <<>> /\ toStorage = <<>>
  BY DEF Init, StorageInit, InitialWorker
<1>3. Given(worker.queue) = <<>>
  BY <1>1, <1>2, NoneGiven DEF HasGiven, Base, TypeOK, WorkerState
<1>4. Way = <<>>
  BY <1>2, <1>3 DEF Way
<1>5. Followed(Way)
  BY <1>4 DEF Followed
<1> QED BY <1>1, <1>5 DEF AheadInv

\* If the head covers the tick of the run, everything is behind it that is not a sample.
LEMMA NothingIsLeft ==
  ASSUME Base, FlightInv, TickInv, AheadInv
  PROVE  SavedMeansSaved
<1> SUFFICES ASSUME sim.recorder.persistedAt.tick = sim.recorder.tick, NEW e \in OnTheWay
             PROVE  IF e.op = "append" THEN e.records = <<>> ELSE e.kind = "metrics"
  BY DEF SavedMeansSaved
<1>1. OfItsTick(sim.recorder.persistedAt, sim.recorder.tick, emitted)
  BY DEF TickInv, Spoken
<1>2. \A x \in emitted : x.seq <= Acked
  BY <1>1 DEF OfItsTick, Acked
<1>3. Acked <= Saved /\ Saved \in Int /\ Acked \in Int /\ \A x \in emitted : x.seq \in Int
  BY SavedTypes, KnownType DEF FlightInv, Base, SimOK, Settled, RecorderState, HeadRecord, Acked
<1>4. \A x \in emitted : ~(x.seq > Saved)
  <2> HIDE DEF Acked, Saved
  <2> QED BY <1>2, <1>3
<1>5. AheadOf(e, Saved, emitted)
  BY DEF AheadInv
<1>6. e \in Item \/ e \in BatchEntry
  <2>1. /\ \A x \in ToSet(toStorage) \cup ToSet(worker.held) : x \in Handed
        /\ \A x \in ToSet(worker.queue) : x \in Entry
    BY DEF ToSet, Base, TypeOK, WorkerState
  <2>2. e \in Handed
    <3>1. FromRecorder(e) /\ (e \in Handed \/ e \in Entry)
      BY <2>1 DEF OnTheWay
    <3> QED BY <3>1, EntryKinds
  <2> QED BY <2>2 DEF Handed
<1>7. CASE e \in Item
  <2>1. ~IsSnapshot(e)
    BY <1>4, <1>5 DEF AheadOf
  <2> QED BY <1>7, <2>1 DEF Item, IsSnapshot
<1>8. CASE e \in BatchEntry
  <2>1. IsBatch(e) /\ e.op = "append" /\ e.records \in Seq(TraceRecord)
    BY <1>8 DEF BatchEntry, IsBatch, FromRecorder
  <2>2. ToSet(e.records) = {}
    BY <1>4, <1>5, <2>1 DEF AheadOf
  <2>3. e.records = <<>>
    <3> DEFINE s == e.records
    <3>1. s \in Seq(TraceRecord) /\ \A i \in 1..Len(s) : s[i] \in ToSet(s)
      BY <2>1 DEF ToSet
    <3> HIDE DEF s
    <3>2. Len(s) = 0
      BY <2>2, <3>1 DEF s
    <3> QED BY <3>1, <3>2 DEF s
  <2> QED BY <2>1, <2>3
<1> QED BY <1>6, <1>7, <1>8

\* When the recorder says that everything up to the tick of the run is saved, no record and
\* no snapshot is still on its way: held for the quota, in the queue, or not yet delivered,
\* open or closed. Under the conditions of RecordingSavesAPrefix.
THEOREM RecordingSavesWhatItSays == Undisturbed /\ "commit" \notin Faults /\ Spec => []SavedMeansSaved
<1> SUFFICES ASSUME Undisturbed, "commit" \notin Faults PROVE Spec => []SavedMeansSaved
  OBVIOUS
<1> DEFINE Inv == PrefixInv /\ FlightInv /\ TickInv /\ AheadInv
<1>1. Init => Inv
  BY BaseStarts, SavedStarts, FlightStarts, TickStarts, AheadStarts DEF PrefixInv
<1>2. Inv /\ [Next]_vars => Inv'
  BY BaseSteps, WorkerInvSteps, RunsInvSteps, SavedSteps, FlightSteps, TickSteps, AheadSteps DEF PrefixInv
<1>3. Inv => SavedMeansSaved
  BY NothingIsLeft DEF PrefixInv
<1> QED BY <1>1, <1>2, <1>3, PTL DEF Spec

(***************************************************************************)
(* Storage finds what it needs: what is stored before an entry, or comes   *)
(* before it on the way, has the section of a snapshot that carries none,  *)
(* and the snapshots a batch's records refer to.                           *)
(***************************************************************************)
SectionsIn(S)  == {x.section : x \in {e \in S : IsSnapshot(e)}}
SnapshotsIn(S) == {x.tick : x \in {e \in S : IsSnapshot(e)}}

Finds(e, sections, snapshots) ==
  /\ IsSnapshot(e) => e.carries \/ e.section \in sections
  /\ IsBatch(e) => \A x \in ToSet(e.records) : x.refers # NoSnapshot => x.refers \in snapshots
AllFind(w, sections, snapshots) ==
  \A i \in 1..Len(w) : Finds(w[i], sections \cup SectionsIn(FirstOf(w, i - 1)), snapshots \cup SnapshotsIn(FirstOf(w, i - 1)))

\* What is in two sets.
LEMMA InBoth ==
  ASSUME NEW A, NEW B
  PROVE  SectionsIn(A \cup B) = SectionsIn(A) \cup SectionsIn(B) /\ SnapshotsIn(A \cup B) = SnapshotsIn(A) \cup SnapshotsIn(B)
BY DEF SectionsIn, SnapshotsIn

\* An entry finds what it needs among more.
LEMMA FindsMore ==
  ASSUME NEW e, NEW se, NEW sn, Finds(e, se, sn), NEW sf, se \subseteq sf, NEW so, sn \subseteq so
  PROVE  Finds(e, sf, so)
BY DEF Finds

\* One sequence behind another: the second finds what it needs in what was there and in the first.
LEMMA FindsParts ==
  ASSUME NEW w \in Seq(Entry), NEW v \in Seq(Entry), NEW p, Following(w, v, p), NEW se, NEW sn
  PROVE  AllFind(p, se, sn) <=> /\ AllFind(w, se, sn)
                                /\ AllFind(v, se \cup SectionsIn(ToSet(w)), sn \cup SnapshotsIn(ToSet(w)))
<1> DEFINE n == Len(w)
           W == ToSet(w)
           C(i) == Finds(w[i], se \cup SectionsIn(FirstOf(w, i - 1)), sn \cup SnapshotsIn(FirstOf(w, i - 1)))
           D(i) == Finds(v[i], (se \cup SectionsIn(W)) \cup SectionsIn(FirstOf(v, i - 1)),
                               (sn \cup SnapshotsIn(W)) \cup SnapshotsIn(FirstOf(v, i - 1)))
           G(i) == Finds(p[i], se \cup SectionsIn(FirstOf(p, i - 1)), sn \cup SnapshotsIn(FirstOf(p, i - 1)))
<1>1. /\ Len(p) = n + Len(v) /\ n \in Nat /\ Len(v) \in Nat
      /\ \A i \in 1..n : i \in 1..Len(p) /\ p[i] = w[i]
      /\ \A i \in 1..Len(v) : n + i \in 1..Len(p) /\ p[n + i] = v[i]
  BY DEF Following
<1>2. DOMAIN w = 1..n
  OBVIOUS
<1> HIDE DEF n
<1>3. ASSUME NEW i \in 1..n PROVE C(i) <=> G(i)
  <2>1. \A j \in 1..(i - 1) : j \in 1..n
    BY <1>1
  <2>2. FirstOf(p, i - 1) = FirstOf(w, i - 1)
    BY <1>1, <2>1 DEF FirstOf
  <2> QED BY <1>1, <2>2
<1>4. ASSUME NEW i \in 1..Len(v) PROVE D(i) <=> G(n + i)
  <2> DEFINE k == (n + i) - 1
             A == FirstOf(v, i - 1)
  <2>1. /\ \A j \in 1..n : j \in 1..k
        /\ \A j \in 1..(i - 1) : n + j \in 1..k /\ j \in 1..Len(v)
        /\ \A j \in 1..k : j \in 1..n \/ \E m \in 1..(i - 1) : j = n + m
    <3>1. i \in Nat /\ i >= 1 /\ n \in Nat /\ i <= Len(v) /\ Len(v) \in Nat
      BY <1>1
    <3>2. \A j \in 1..k : j \in 1..n \/ (j - n \in 1..(i - 1) /\ j = n + (j - n))
      BY <3>1
    <3> QED BY <3>1, <3>2
  <2>2. FirstOf(p, k) = W \cup A
    <3> HIDE DEF k
    <3>1. ASSUME NEW x \in FirstOf(p, k) PROVE x \in W \cup A
      <4>1. PICK j \in 1..k : x = p[j]
        BY DEF FirstOf
      <4>2. CASE j \in 1..n
        BY <1>1, <1>2, <4>1, <4>2 DEF ToSet
      <4>3. CASE \E m \in 1..(i - 1) : j = n + m
        <5>1. PICK m \in 1..(i - 1) : j = n + m
          BY <4>3
        <5>2. x = v[m]
          BY <1>1, <2>1, <4>1, <5>1
        <5> QED BY <5>2 DEF FirstOf
      <4> QED BY <2>1, <4>2, <4>3
    <3>2. ASSUME NEW x \in W PROVE x \in FirstOf(p, k)
      <4>1. PICK j \in 1..n : x = w[j]
        BY <1>2 DEF ToSet
      <4> QED BY <1>1, <2>1, <4>1 DEF FirstOf
    <3>3. ASSUME NEW x \in A PROVE x \in FirstOf(p, k)
      <4>1. PICK m \in 1..(i - 1) : x = v[m]
        BY DEF FirstOf
      <4>2. x = p[n + m] /\ n + m \in 1..k
        BY <1>1, <2>1, <4>1
      <4> QED BY <4>2 DEF FirstOf
    <3> HIDE DEF W, A
    <3> QED BY <3>1, <3>2, <3>3
  <2> HIDE DEF W, A
  <2>3. SectionsIn(W \cup A) = SectionsIn(W) \cup SectionsIn(A) /\ SnapshotsIn(W \cup A) = SnapshotsIn(W) \cup SnapshotsIn(A)
    BY InBoth
  <2>4. /\ se \cup SectionsIn(W \cup A) = (se \cup SectionsIn(W)) \cup SectionsIn(A)
        /\ sn \cup SnapshotsIn(W \cup A) = (sn \cup SnapshotsIn(W)) \cup SnapshotsIn(A)
    BY <2>3
  <2> QED BY <1>1, <2>2, <2>4 DEF A
<1>5. ASSUME NEW i \in 1..Len(p) PROVE i \in 1..n \/ \E j \in 1..Len(v) : i = n + j
  <2>1. i \in 1..n \/ (i - n \in 1..Len(v) /\ i = n + (i - n))
    BY <1>1
  <2> QED BY <2>1
<1>6. /\ AllFind(w, se, sn) <=> \A i \in 1..n : C(i)
      /\ AllFind(v, se \cup SectionsIn(W), sn \cup SnapshotsIn(W)) <=> \A i \in 1..Len(v) : D(i)
      /\ AllFind(p, se, sn) <=> \A i \in 1..Len(p) : G(i)
  BY DEF AllFind, n
<1> HIDE DEF C, D, G
<1>7. (\A i \in 1..Len(p) : G(i)) <=> (\A i \in 1..n : C(i)) /\ (\A i \in 1..Len(v) : D(i))
  BY <1>1, <1>3, <1>4, <1>5
<1> QED BY <1>6, <1>7

\* A transaction whose entries find what they need stores them all.
LEMMA TransactionFinds ==
  ASSUME db \in DbState, Live \in db.runs, NEW s \in Seq(Handed), AllFind(s, db.sections, db.snapshots),
         NEW tx, tx = Transaction(s, "none")
  PROVE  /\ tx.db.sections = db.sections \cup SectionsIn(ToSet(s))
         /\ tx.db.snapshots = db.snapshots \cup SnapshotsIn(ToSet(s))
         /\ \A i \in 1..Len(s) : tx.results[i] = TRUE
<1> DEFINE n == Len(s)
           none == "none"
<1>0. s \in Seq(Entry)
  BY Wider DEF Entry
<1>1. PICK H : Steps(H, s, none) /\ tx = H[n]
  BY <1>0, TransactionSteps
<1> DEFINE P(i) == /\ H[i] \in Tx /\ Len(H[i].results) = i /\ H[i].db.runs = db.runs
                   /\ H[i].db.sections = db.sections \cup SectionsIn(FirstOf(s, i))
                   /\ H[i].db.snapshots = db.snapshots \cup SnapshotsIn(FirstOf(s, i))
                   /\ \A j \in 1..i : H[i].results[j] = TRUE
           T == {i \in 0..n : P(i)}
<1>2. n \in Nat /\ none # "items"
  OBVIOUS
<1> HIDE DEF none
<1>3. P(0)
  <2>1. H[0] = [db |-> db, results |-> <<>>] /\ H[0] \in Tx
    BY <1>1, <1>2 DEF Steps
  <2>2. H[0].db = db /\ Len(H[0].results) = 0
    BY <2>1
  <2>3. SectionsIn(FirstOf(s, 0)) = {} /\ SnapshotsIn(FirstOf(s, 0)) = {}
    BY DEF FirstOf, SectionsIn, SnapshotsIn
  <2> QED BY <2>1, <2>2, <2>3
<1>4. ASSUME NEW i \in 0..n, P(i), i < n PROVE P(i + 1)
  <2> DEFINE k == i + 1
             e == s[k]
             tx1 == H[i]
             tx2 == H[k]
             S == FirstOf(s, i)
             ok == Accepts(tx1, e, none)
  <2>1. k \in 1..n /\ k - 1 = i
    BY <1>2, <1>4
  <2>2. e \in Entry /\ e \in Handed
    BY <1>0, <2>1
  <2>3. tx2 = Stored(tx1, e, none)
    <3> HIDE DEF k
    <3> QED BY <1>1, <2>1 DEF Steps
  <2>4. /\ tx1 \in Tx /\ Len(tx1.results) = i /\ tx1.db.runs = db.runs
        /\ tx1.db.sections = db.sections \cup SectionsIn(S)
        /\ tx1.db.snapshots = db.snapshots \cup SnapshotsIn(S)
        /\ \A j \in 1..i : tx1.results[j] = TRUE
    BY <1>4
  <2>5. Finds(e, db.sections \cup SectionsIn(S), db.snapshots \cup SnapshotsIn(S))
    <3> HIDE DEF k
    <3> QED BY <2>1 DEF AllFind
  <2>6. FirstOf(s, k) = S \cup {e}
    <3>1. \A j : j \in 1..k <=> j \in 1..i \/ j = k
      BY <1>4
    <3> HIDE DEF k
    <3> QED BY <3>1 DEF FirstOf
  <2> HIDE DEF k, e, tx1, tx2, S, ok
  <2>7. ok
    <3>1. CASE e.op = "item"
      <4>1. e.kind = "snapshot" => IsSnapshot(e)
        BY <3>1 DEF IsSnapshot
      <4>2. Storable(tx1.db, e)
        BY <2>4, <2>5, <4>1 DEF Storable, Finds
      <4> QED BY <1>2, <3>1, <4>2 DEF ok, Accepts
    <3>2. CASE e.op # "item"
      <4>1. FromRecorder(e)
        BY <2>2, EntryKinds
      <4> QED BY <2>4, <3>2, <4>1 DEF ok, Accepts, RunOf
    <3> QED BY <3>1, <3>2
  <2>8. /\ tx2 \in Tx /\ tx2.db.runs = db.runs /\ StoredAs(tx2.db, tx1.db, e)
        /\ tx2.results = Append(tx1.results, TRUE)
    BY <2>2, <2>3, <2>4, <2>7, StoredFacts, ZenonT(30) DEF ok
  <2>9. /\ tx2.db.sections = tx1.db.sections \cup SectionsIn({e})
        /\ tx2.db.snapshots = tx1.db.snapshots \cup SnapshotsIn({e})
    <3>1. CASE IsSnapshot(e)
      <4>1. SectionsIn({e}) = {e.section} /\ SnapshotsIn({e}) = {e.tick}
        BY <3>1 DEF SectionsIn, SnapshotsIn
      <4> QED BY <2>8, <3>1, <4>1 DEF StoredAs
    <3>2. CASE ~IsSnapshot(e)
      <4>1. SectionsIn({e}) = {} /\ SnapshotsIn({e}) = {}
        BY <3>2 DEF SectionsIn, SnapshotsIn
      <4> QED BY <2>8, <3>2, <4>1 DEF StoredAs
    <3> QED BY <3>1, <3>2
  <2>10. /\ SectionsIn(FirstOf(s, k)) = SectionsIn(S) \cup SectionsIn({e})
         /\ SnapshotsIn(FirstOf(s, k)) = SnapshotsIn(S) \cup SnapshotsIn({e})
    BY <2>6, InBoth
  <2>11. /\ tx2.db.sections = db.sections \cup SectionsIn(FirstOf(s, k))
         /\ tx2.db.snapshots = db.snapshots \cup SnapshotsIn(FirstOf(s, k))
    BY <2>4, <2>9, <2>10
  <2>12. Len(tx2.results) = k /\ \A j \in 1..k : tx2.results[j] = TRUE
    <3>1. tx1.results \in Seq(BOOLEAN) /\ i \in Nat /\ k = i + 1
      BY <1>2, <2>4 DEF Tx, k
    <3>2. \A x \in BOOLEAN : /\ Len(Append(tx1.results, x)) = k
                             /\ \A j \in 1..i : Append(tx1.results, x)[j] = tx1.results[j]
                             /\ Append(tx1.results, x)[k] = x
      BY <2>4, <3>1, AppendedOne
    <3>3. \A j \in 1..k : j \in 1..i \/ j = k
      BY <3>1
    <3> QED BY <2>4, <2>8, <3>2, <3>3
  <2> QED BY <2>8, <2>11, <2>12 DEF tx2, k
<1> HIDE DEF P
<1>5. 0..n \subseteq T
  <2>1. 0 \in T /\ \A i \in 0..n : i \in T /\ i < n => i + 1 \in T
    BY <1>2, <1>3, <1>4
  <2> HIDE DEF T, n
  <2> QED BY <1>2, <2>1, AllIndices
<1>6. P(n)
  BY <1>2, <1>5
<1>7. FirstOf(s, n) = ToSet(s)
  BY DEF FirstOf, ToSet
<1> QED BY <1>1, <1>6, <1>7 DEF P

\* With nothing that fails, and nothing re-simulated, imported or closed.
WorksWell == Undisturbed /\ Faults = {"none"} /\ "close" \notin Requests

Open == worker.open /\ \A i \in 1..Len(worker.queue) : worker.queue[i].op # "close"
NeedsInv ==
  /\ Open /\ refused = {}
  /\ sim.recorder.header => \A x \in sim.sentBlobs : x \in db.sections \cup SectionsIn(ToSet(Way))
  /\ AllFind(Way, db.sections, db.snapshots)
  /\ \A x \in db.records : x.refers # NoSnapshot => x.refers \in db.snapshots

\* Storage stays open.
LEMMA StaysOpen ==
  ASSUME WorksWell, Base, WorkerInv, Open, [Next]_vars
  PROVE  Open'
<1>1. worker.queue \in Seq(Entry) /\ worker.held \in Seq(Handed) /\ toStorage \in Seq(Handed)
  BY DEF Base, TypeOK, WorkerState
<1>2. \A e \in Handed : e.op # "close" /\ e \in Entry
  BY DEF Handed, Item, BatchEntry, Entry
<1>3. CASE RunSteps
  BY <1>3 DEF RunSteps, RunGoesOn, RunHands, RunAcks, Open
<1>4. ASSUME NEW e \in Entry, e.op # "close", Takes(e) PROVE Open'
  <2>1. worker'.queue = Append(worker.queue, e) /\ worker'.open = worker.open
    BY <1>4 DEF Takes
  <2>2. \A i \in 1..Len(worker'.queue) : (i \in 1..Len(worker.queue) /\ worker'.queue[i] = worker.queue[i]) \/ worker'.queue[i] = e
    BY <1>1, <1>4, <2>1
  <2> QED BY <1>4, <2>1, <2>2 DEF Open
<1>5. CASE Quietly
  BY <1>5 DEF Quietly, Quiet, Open
<1>6. CASE Asked
  <2>1. PICK e \in Request : Takes(e) /\ (IsCreate(e) \/ e.op \in Requests)
    BY <1>6 DEF Asked, WorksWell, Undisturbed
  <2>2. e \in Entry /\ e.op # "close"
    BY <2>1 DEF Entry, IsCreate, WorksWell
  <2> QED BY <1>4, <2>1, <2>2
<1>7. CASE Delivered
  <2>1. Head(toStorage) \in Handed /\ Takes(Head(toStorage))
    BY <1>1, <1>7 DEF Delivered, Open
  <2> QED BY <1>2, <1>4, <2>1
<1>8. CASE HoldsOne \/ Creates \/ TakesTime
  <2>1. worker'.queue = Tail(worker.queue) /\ worker.queue # <<>> /\ worker'.open = worker.open
    BY <1>8 DEF HoldsOne, Creates, TakesTime, Serving
  <2>2. \A i \in 1..Len(worker'.queue) : i + 1 \in 1..Len(worker.queue) /\ worker'.queue[i] = worker.queue[i + 1]
    BY <1>1, <2>1
  <2> QED BY <2>1, <2>2 DEF Open
<1>9. CASE GivesBack
  <2> DEFINE p == worker'.queue
             a == worker.held
             q == worker.queue
  <2>1. p = a \o q /\ worker'.open = worker.open
    BY <1>9 DEF GivesBack, Returns, HeldAgain
  <2>2. a \in Seq(Entry)
    BY <1>1, Wider DEF Entry
  <2>3. \A i \in 1..Len(a) : a[i].op # "close"
    <3> SUFFICES ASSUME NEW i \in 1..Len(a) PROVE a[i].op # "close"
      OBVIOUS
    <3>1. a[i] \in Handed
      BY <1>1
    <3> QED BY <1>2, <3>1
  <2>4. q \in Seq(Entry) /\ \A i \in 1..Len(q) : q[i].op # "close"
    BY <1>1 DEF Open
  <2> HIDE DEF p, a, q
  <2>5. \A i \in 1..Len(p) : \/ i \in 1..Len(a) /\ p[i] = a[i]
                             \/ \E j \in 1..Len(q) : p[i] = q[j]
    BY <2>1, <2>2, <2>4, ComesFromOne
  <2>6. \A i \in 1..Len(p) : p[i].op # "close"
    BY <2>3, <2>4, <2>5
  <2> QED BY <2>1, <2>6 DEF Open, p
<1>10. CASE CommitsSome
  <2>1. PICK run, rest, fault, results : Commits(run, rest, fault, results)
    BY <1>10 DEF CommitsSome
  <2>2. /\ run \in Seq(Entry) /\ rest \in Seq(Entry) /\ worker.queue = run \o rest /\ worker'.queue = rest
        /\ worker'.open = worker.open
    BY <2>1 DEF Commits
  <2>3. \A i \in 1..Len(rest) : Len(run) + i \in 1..Len(worker.queue) /\ worker.queue[Len(run) + i] = rest[i]
    BY <2>2
  <2> QED BY <2>2, <2>3 DEF Open
<1>11. CASE Closes
  <2>1. worker.queue # <<>> /\ Head(worker.queue).op = "close"
    BY <1>11 DEF Closes
  <2>2. 1 \in 1..Len(worker.queue) /\ worker.queue[1] = Head(worker.queue)
    BY <1>1, <2>1
  <2> QED BY <2>1, <2>2 DEF Open
<1> QED BY <1>3, <1>5, <1>6, <1>7, <1>8, <1>9, <1>10, <1>11, StepKinds, NoDeletes DEF QueueSteps, ServingSteps

\* What is handed over finds what it needs, if the data of the sections sent so far are there or
\* on the way.
LEMMA HandedFinds ==
  ASSUME NEW out, Hands(sim, sim', out), NEW se, NEW sn, sim.recorder.header => \A x \in sim.sentBlobs : x \in se
  PROVE  /\ AllFind(out, se, sn)
         /\ \A x \in sim'.sentBlobs : x \in se \cup SectionsIn(ToSet(out))
<1> DEFINE from == From(sim)
           new == NewerThan(sim'.buffer, from)
           tick == sim'.recorder.tick
           blobs == Blobs(sim)
           sent == sim'.sentBlobs
<1>1. PICK items \in Seq(Item) :
        /\ Accounts(items, tick, sim'.buffer, sent, from, blobs)
        /\ Sends(sim.recorder, sim'.recorder, new, items, out)
  BY DEF Hands
<1>2. \A x \in blobs : x \in se
  BY DEF Blobs
<1>3. /\ \A x \in new : x.refers # NoSnapshot => x.refers = tick /\ \E i \in DOMAIN items : IsSnapshot(items[i])
      /\ \A i \in DOMAIN items : items[i].tick = tick /\ (IsSnapshot(items[i]) => items[i].carries \/ items[i].section \in blobs)
      /\ \A x \in sent : x \in blobs \/ \E i \in DOMAIN items : IsSnapshot(items[i]) /\ items[i].section = x
  BY <1>1 DEF Accounts, NewerThan
<1>4. CASE items = <<>> /\ out = <<>>
  <2>1. Len(out) = 0 /\ DOMAIN items = {}
    BY <1>4
  <2>2. AllFind(out, se, sn)
    BY <2>1 DEF AllFind
  <2> QED BY <1>2, <1>3, <2>1, <2>2
<1>5. CASE \E batch \in BatchEntry : out = Append(items, batch) /\ ToSet(batch.records) = new
  <2>1. PICK batch \in BatchEntry : out = Append(items, batch) /\ ToSet(batch.records) = new
    BY <1>5
  <2> DEFINE n == Len(items)
             W(i) == FirstOf(out, i - 1)
  <2>2. /\ n \in Nat /\ Len(out) = n + 1 /\ DOMAIN out = 1..Len(out) /\ out[n + 1] = batch /\ DOMAIN items = 1..n
        /\ \A i \in 1..n : items[i] \in Item /\ out[i] = items[i] /\ i \in 1..Len(out)
    <3>1. items \in Seq(Handed) /\ batch \in Handed
      BY Wider DEF Handed
    <3>2. /\ Append(items, batch) \in Seq(Handed) /\ Len(Append(items, batch)) = Len(items) + 1
          /\ \A i \in 1..Len(items) : Append(items, batch)[i] = items[i]
          /\ Append(items, batch)[Len(items) + 1] = batch
      BY <3>1, AppendedOne
    <3>3. \A i \in 1..Len(items) : items[i] \in Item
      OBVIOUS
    <3>4. out \in Seq(Handed) /\ Len(out) = Len(items) + 1
      BY <2>1, <3>2
    <3> QED BY <2>1, <3>2, <3>3, <3>4
  <2>3. IsBatch(batch) /\ ~IsSnapshot(batch)
    BY DEF BatchEntry, IsBatch, FromRecorder, IsSnapshot
  <2> HIDE DEF n, new, tick, blobs, sent, from
  <2>4. ASSUME NEW i \in 1..n PROVE Finds(out[i], se \cup SectionsIn(W(i)), sn \cup SnapshotsIn(W(i)))
    <3>1. ~IsBatch(out[i])
      BY <2>2 DEF Item, IsBatch
    <3>2. IsSnapshot(out[i]) => out[i].carries \/ out[i].section \in se
      BY <1>2, <1>3, <2>2
    <3> QED BY <3>1, <3>2 DEF Finds
  <2>5. Finds(batch, se \cup SectionsIn(W(n + 1)), sn \cup SnapshotsIn(W(n + 1)))
    <3> SUFFICES ASSUME NEW x \in new, x.refers # NoSnapshot PROVE x.refers \in SnapshotsIn(W(n + 1))
      BY <2>1, <2>3 DEF Finds
    <3>1. PICK i \in 1..n : IsSnapshot(items[i])
      BY <1>3, <2>2
    <3>2. x.refers = items[i].tick /\ out[i] = items[i]
      BY <1>3, <2>2
    <3>3. i \in 1..((n + 1) - 1)
      BY <2>2
    <3>4. items[i] \in W(n + 1)
      BY <3>2, <3>3 DEF FirstOf
    <3> QED BY <3>1, <3>2, <3>4 DEF SnapshotsIn
  <2>6. AllFind(out, se, sn)
    <3>1. \A i \in 1..Len(out) : i \in 1..n \/ i = n + 1
      BY <2>2
    <3> QED BY <2>2, <2>4, <2>5, <3>1 DEF AllFind
  <2>7. ASSUME NEW x \in sent PROVE x \in se \cup SectionsIn(ToSet(out))
    <3>1. CASE x \in blobs
      BY <1>2, <3>1
    <3>2. CASE \E i \in 1..n : IsSnapshot(items[i]) /\ items[i].section = x
      <4>1. PICK i \in 1..n : IsSnapshot(items[i]) /\ items[i].section = x
        BY <3>2
      <4>2. out[i] \in ToSet(out) /\ out[i] = items[i]
        BY <2>2 DEF ToSet
      <4> QED BY <4>1, <4>2 DEF SectionsIn
    <3> QED BY <1>3, <2>2, <3>1, <3>2
  <2> QED BY <2>6, <2>7 DEF sent
<1>6. \/ items = <<>> /\ out = <<>>
      \/ \E batch \in BatchEntry : out = Append(items, batch) /\ ToSet(batch.records) = new
  BY <1>1 DEF Sends
<1> QED BY <1>4, <1>5, <1>6

\* A transaction stores all it takes, and what is left on the way finds what it needs.
LEMMA CommitFinds ==
  ASSUME WorksWell, Base, Base', WorkerInv, RunsInv, NeedsInv, CommitsSome
  PROVE  /\ refused' = {}
         /\ \A x \in sim'.sentBlobs : x \in db'.sections \cup SectionsIn(ToSet(Way'))
         /\ AllFind(Way', db'.sections, db'.snapshots)
         /\ \A x \in db'.records : x.refers # NoSnapshot => x.refers \in db'.snapshots
<1>1. PICK run, rest, fault, results : Commits(run, rest, fault, results)
  BY DEF CommitsSome
<1>2. UNCHANGED <<sim, toStorage>> /\ fault = "none" /\ "commit" \notin Faults
  BY <1>1 DEF CommitsSome, Commits, WorksWell
<1>3. run \in Seq(Handed) /\ Way = run \o Way' /\ Way' \in Seq(Handed) /\ sim.recorder.header
  BY <1>1, <1>2, WayTaken
<1>4. db \in DbState /\ Live \in db.runs
  BY <1>3 DEF Base, TypeOK, RunsInv
<1> DEFINE w == Way
           v == Way'
           tx == [db |-> db', results |-> results]
           se == db.sections
           sn == db.snapshots
           S == ToSet(run)
<1>5. tx = Transaction(run, "none") /\ tx.db = db' /\ tx.results = results
  BY <1>1, <1>2 DEF Commits
<1>6. run \in Seq(Entry) /\ v \in Seq(Entry)
  <2>1. Handed \subseteq Entry
    BY DEF Entry
  <2>2. v \in Seq(Handed)
    BY <1>3
  <2> HIDE DEF v
  <2>3. \A s : s \in Seq(Handed) => s \in Seq(Entry)
    BY <2>1, Wider, Zenon
  <2> QED BY <1>3, <2>2, <2>3
<1>7. /\ AllFind(w, se, sn) /\ \A x \in sim.sentBlobs : x \in se \cup SectionsIn(ToSet(w))
      /\ \A x \in db.records : x.refers # NoSnapshot => x.refers \in sn
  BY <1>3 DEF NeedsInv
<1> HIDE DEF w, v, tx, se, sn, S
<1>8. Following(run, v, w) /\ ToSet(w) = S \cup ToSet(v)
  <2>1. w = run \o v
    BY <1>3 DEF w, v
  <2>2. ToSet(run \o v) = ToSet(run) \cup ToSet(v)
    BY <1>6, MembersOf
  <2> QED BY <1>6, <2>1, <2>2, Follows DEF S
<1>9. AllFind(run, se, sn) /\ AllFind(v, se \cup SectionsIn(S), sn \cup SnapshotsIn(S))
  BY <1>6, <1>7, <1>8, FindsParts DEF S
<1>10. /\ db'.sections = se \cup SectionsIn(S) /\ db'.snapshots = sn \cup SnapshotsIn(S)
       /\ \A i \in 1..Len(run) : results[i] = TRUE
  <2>1. /\ tx.db.sections = se \cup SectionsIn(S) /\ tx.db.snapshots = sn \cup SnapshotsIn(S)
        /\ \A i \in 1..Len(run) : tx.results[i] = TRUE
    BY <1>3, <1>4, <1>5, <1>9, TransactionFinds DEF se, sn, S
  <2> QED BY <1>5, <2>1
<1>11. refused' = {}
  <2>1. refused = {} /\ refused' = refused \cup RefusedOf(run, results)
    BY <1>1 DEF NeedsInv, Commits
  <2>2. RefusedOf(run, results) = {}
    <3>1. \A i \in DOMAIN run : results[i]
      BY <1>6, <1>10
    <3> QED BY <3>1 DEF RefusedOf
  <2> QED BY <2>1, <2>2
<1>12. ASSUME NEW x \in sim'.sentBlobs PROVE x \in db'.sections \cup SectionsIn(ToSet(v))
  <2>1. x \in se \cup SectionsIn(S \cup ToSet(v))
    BY <1>2, <1>7, <1>8, <1>12
  <2>2. SectionsIn(S \cup ToSet(v)) = SectionsIn(S) \cup SectionsIn(ToSet(v))
    BY InBoth
  <2> QED BY <1>10, <2>1, <2>2
<1>13. ASSUME NEW x \in db'.records, x.refers # NoSnapshot PROVE x.refers \in db'.snapshots
  <2>1. x \in db.records \/ \E i \in Batches(run) : x \in Loads(run)[i]
    BY <1>1, <1>2, <1>4, <1>13, AllBatchesSaved
  <2>2. CASE x \in db.records
    BY <1>7, <1>10, <1>13, <2>2
  <2>3. CASE \E i \in Batches(run) : x \in Loads(run)[i]
    <3>1. PICK i \in Batches(run) : x \in Loads(run)[i]
      BY <2>3
    <3>2. i \in 1..Len(run) /\ IsBatch(run[i]) /\ x \in ToSet(run[i].records)
      BY <3>1 DEF Batches, Loads
    <3>3. x.refers \in sn \cup SnapshotsIn(FirstOf(run, i - 1))
      BY <1>9, <1>13, <3>2 DEF AllFind, Finds
    <3>4. FirstOf(run, i - 1) \subseteq S
      <4>1. \A j \in 1..(i - 1) : j \in DOMAIN run
        BY <1>6, <3>2
      <4> QED BY <4>1 DEF FirstOf, ToSet, S
    <3>5. SnapshotsIn(FirstOf(run, i - 1)) \subseteq SnapshotsIn(S)
      BY <3>4 DEF SnapshotsIn
    <3> QED BY <1>10, <3>3, <3>5
  <2> QED BY <2>1, <2>2, <2>3
<1>14. AllFind(v, db'.sections, db'.snapshots)
  BY <1>9, <1>10
<1> QED BY <1>11, <1>12, <1>13, <1>14 DEF v

\* So it stays.
LEMMA NeedsSteps ==
  ASSUME WorksWell, Base, Base', WorkerInv, RunsInv, NeedsInv, [Next]_vars
  PROVE  NeedsInv'
<1>1. Open' /\ worker.open
  BY StaysOpen DEF NeedsInv, Open
<1>2. ASSUME Way' = Way, UNCHANGED refused, sim'.sentBlobs = sim.sentBlobs, sim'.recorder.header = sim.recorder.header,
             db'.sections = db.sections, db'.snapshots = db.snapshots, db'.records = db.records
      PROVE  NeedsInv'
  BY <1>1, <1>2 DEF NeedsInv
<1>3. CASE RunHands
  <2>1. PICK out : Hands(sim, sim', out) /\ toStorage' = toStorage \o out
    BY <1>3 DEF RunHands, HandsOver
  <2>2. UNCHANGED <<worker, db, refused>>
    BY <1>3 DEF RunHands
  <2> DEFINE w == Way
             v == Way'
             se == db.sections
             sn == db.snapshots
             S == SectionsIn(ToSet(w))
             T == SnapshotsIn(ToSet(w))
  <2>3. w \in Seq(Entry) /\ out \in Seq(Entry) /\ Following(w, out, v) /\ v = w \o out
    BY <2>1, <2>2, HandedLast
  <2>4. /\ AllFind(w, se, sn)
        /\ sim.recorder.header => \A x \in sim.sentBlobs : x \in se \cup S
        /\ refused = {} /\ \A x \in db.records : x.refers # NoSnapshot => x.refers \in sn
    BY DEF NeedsInv
  <2> HIDE DEF w, v, se, sn, S, T
  <2>5. /\ AllFind(out, se \cup S, sn \cup T)
        /\ \A x \in sim'.sentBlobs : x \in (se \cup S) \cup SectionsIn(ToSet(out))
    BY <2>1, <2>4, HandedFinds
  <2>6. AllFind(v, se, sn)
    BY <2>3, <2>4, <2>5, FindsParts DEF S, T
  <2>7. SectionsIn(ToSet(v)) = S \cup SectionsIn(ToSet(out))
    <3>1. ToSet(w \o out) = ToSet(w) \cup ToSet(out)
      BY <2>3, MembersOf
    <3> QED BY <2>3, <3>1, InBoth DEF S
  <2>8. /\ \A x \in sim'.sentBlobs : x \in se \cup SectionsIn(ToSet(v))
        /\ db'.sections = se /\ db'.snapshots = sn /\ db'.records = db.records /\ refused' = {}
    BY <2>2, <2>4, <2>5, <2>7 DEF se, sn
  <2> QED BY <1>1, <2>4, <2>6, <2>8 DEF NeedsInv, v
<1>4. CASE CommitsSome
  BY <1>1, <1>4, CommitFinds DEF NeedsInv
<1>5. CASE RunGoesOn \/ RunAcks
  <2>1. UNCHANGED <<worker, toStorage, db, refused>>
    BY <1>5 DEF RunGoesOn, GoesOn, RunAcks
  <2>2. sim'.sentBlobs = sim.sentBlobs /\ sim'.recorder.header = sim.recorder.header
    BY <1>5 DEF RunGoesOn, GoesOn, Rests, Alike, RunAcks, Acks
  <2> QED BY <1>2, <2>1, <2>2 DEF Way
<1>6. CASE QueueSteps
  <2>1. Way' = Way /\ UNCHANGED <<sim, db>>
    BY <1>1, <1>6, WayKept
  <2>2. UNCHANGED refused
    BY <1>6 DEF QueueSteps, Quietly, Asked, Delivered, HoldsOne, GivesBack
  <2> QED BY <1>2, <2>1, <2>2
<1>7. CASE Creates \/ TakesTime
  <2>1. /\ UNCHANGED <<sim, toStorage, refused>>
        /\ db'.sections = db.sections /\ db'.snapshots = db.snapshots /\ db'.records = db.records
        /\ worker.queue # <<>> /\ Head(worker.queue).op \in {"create", "slow"}
        /\ worker'.queue = Tail(worker.queue) /\ worker'.held = worker.held
        /\ worker.queue \in Seq(Entry)
    BY <1>7 DEF Creates, TakesTime, Serving, Base, TypeOK, WorkerState
  <2>2. ~FromRecorder(Head(worker.queue))
    <3> DEFINE e == Head(worker.queue)
    <3>1. e \in Entry /\ e.op \in {"create", "slow"}
      BY <2>1
    <3> HIDE DEF e
    <3>2. ~FromRecorder(e)
      BY <3>1 DEF Entry, Handed, Item, BatchEntry, Request, FromRecorder
    <3> QED BY <3>2 DEF e
  <2>3. Way' = Way
    BY <2>1, <2>2, WayPassed
  <2> QED BY <1>2, <2>1, <2>3
<1>8. CASE Deletes
  BY <1>8, NoDeletes
<1>9. CASE Closes
  <2>1. ~worker'.open
    BY <1>9 DEF Closes
  <2> QED BY <1>1, <2>1 DEF Open
<1> QED BY <1>3, <1>4, <1>5, <1>6, <1>7, <1>8, <1>9, StepKinds DEF RunSteps, ServingSteps

\* At the start nothing is on the way, and nothing is stored.
LEMMA NeedsStarts ==
  ASSUME Init PROVE NeedsInv
<1>1. Base
  BY BaseStarts
<1>2. /\ worker.queue = <<>> /\ worker.held = <<>> /\ toStorage = <<>> /\ worker.open /\ refused = {}
      /\ db.records = {}
  BY DEF Init, StorageInit, InitialWorker, EmptyDb
<1>3. Given(worker.queue) = <<>>
  BY <1>1, <1>2, NoneGiven DEF HasGiven, Base, TypeOK, WorkerState
<1>4. Way = <<>>
  BY <1>2, <1>3 DEF Way
<1>5. AllFind(Way, db.sections, db.snapshots)
  BY <1>4 DEF AllFind
<1>6. ~sim.recorder.header
  BY InitialSimOK DEF Init
<1> QED BY <1>2, <1>5, <1>6 DEF NeedsInv, Open

\* With a storage that works, for every cache, quota and interleaving: nothing the recorder
\* hands over is ever refused, and a record that refers to a snapshot is never saved before it.
\* (An import or a close may refuse what is on the way, and so may a fault.)
THEOREM RecordingFindsWhatItNeeds == WorksWell /\ Spec => []StorageFindsWhatItNeeds
<1> SUFFICES ASSUME WorksWell PROVE Spec => []StorageFindsWhatItNeeds
  OBVIOUS
<1>0. Undisturbed /\ "commit" \notin Faults
  BY DEF WorksWell
<1> DEFINE Inv == Base /\ WorkerInv /\ RunsInv /\ NeedsInv
<1>1. Init => Inv
  BY BaseStarts, SavedStarts, NeedsStarts
<1>2. Inv /\ [Next]_vars => Inv'
  BY <1>0, BaseSteps, WorkerInvSteps, RunsInvSteps, NeedsSteps
<1>3. Inv => StorageFindsWhatItNeeds
  BY DEF NeedsInv, StorageFindsWhatItNeeds
<1> QED BY <1>1, <1>2, <1>3, PTL DEF Spec
=============================================================================
