--------------------------- MODULE SimHostProofs ---------------------------
(***************************************************************************)
(* Proofs about the host, for any number of runs and step messages, polls  *)
(* of any size, any marks of the backlog and any sessions: the loop never  *)
(* ticks past the gate or beyond the end, and until two callers are under  *)
(* way at once (`met`) the backlog is bounded, one timer drives a playing  *)
(* run, requests are asked once and counted, and steps keep to the gate.   *)
(***************************************************************************)
EXTENDS SimHostProperties, TLAPS

(***************************************************************************)
(* The inductive invariant                                                 *)
(***************************************************************************)
Job == [kind : {"decide", "resume"}, by : Steps \cup {Loop}, run : Nat, since : Nat, open : BOOLEAN]

StepState == {x \in [at : {"idle", "top", "gate", "ask", "tick"}, left : Nat] :
                x.at \in {"gate", "ask", "tick"} => x.left > 0}

\* Until callers meet there is at most one promise job. It is live when its
\* answer will be taken for the request of the world being run.
HasJob  == jobs # <<>>
TheJob  == jobs[1]
IsOf(s) == HasJob /\ TheJob.by = s
Live    == HasJob /\ TheJob.kind = "decide" /\ IsFor(TheJob, world)

TypeOK ==
  /\ setting \in Settings /\ host \in Host /\ world \in World /\ recorder \in Recorder
  /\ steps \in [Steps -> StepState] /\ space \in {"ok", "paused"}
  /\ jobs = <<>> \/ (jobs[1] \in Job /\ jobs = <<jobs[1]>>)

\* A run that plays has its timer, unless a realtime poll threw.
TimersOk(h, run) ==
  /\ h.timers \in {0, 1}
  /\ ~h.running => h.timers = 0
  /\ h.running /\ (h.mode = "lockstep" \/ run = 0) => h.timers = 1
  /\ h.done => ~h.running
  /\ h.headless => run # 0

TimerInv == TimersOk(host, world.run)

\* RequestsAreCounted, of any world.
Counted(w) ==
  /\ ~w.failed /\ w.asked <= 1 /\ w.unanswered = (IF w.pending = "open" THEN 1 ELSE 0)
  /\ w.pending = "answered" => w.asked = 1
  /\ w.run = 0 => w.pending = "none"

WorldInv == Counted(world)

\* The open request has been asked exactly when a live job will answer it.
RequestInv ==
  /\ HasJob => TheJob.run <= world.run
  /\ world.pending = "open" /\ world.asked = 1 => Live
  /\ Live => world.pending = "open" /\ world.asked = 1 /\ TheJob.since = world.since

\* Where the step messages are, and what the job is waited for by.
StepInv ==
  /\ host.deciding <=> IsOf(Loop)
  /\ IsOf(Loop) => TheJob.kind = "decide"
  /\ \A s \in Steps :
       /\ steps[s].at \in {"top", "ask"} => IsOf(s) /\ TheJob.kind = "resume"
       /\ steps[s].at = "tick" => IsOf(s) /\ (IF TheJob.kind = "decide" THEN Live ELSE world.pending # "open")
       /\ IsOf(s) => steps[s].at # "idle" /\ (TheJob.kind = "decide" => steps[s].at = "tick")

\* Who is past the gate, but for the wait for minds that take their time.
PastGate(s) ==
  \/ steps[s].at = "ask" \/ (steps[s].at = "gate" /\ IsOf(s))
  \/ steps[s].at = "tick" /\ setting.atOnce

\* Who waits at the gate waits at a closed one, and who is past it is past an
\* open one.
GateInv ==
  /\ host.waiters # <<>> => Gated(recorder, host.quotaPaused)
  /\ \A i \in 1..Len(host.waiters) : steps[host.waiters[i]].at = "gate" /\ ~IsOf(host.waiters[i])
  /\ \A s \in Steps : PastGate(s) => ~Gated(recorder, host.quotaPaused)

\* The recorder waits from the high mark on and down to the low one.
FlowOk(r) ==
  /\ r \in Recorder
  /\ r.on => IF r.waiting THEN r.backlog > Low ELSE r.backlog < High
  /\ ~r.on => r = NoRecorder

\* A step message leaves room for its tick, whose minds may take their time while
\* the run is ended.
BacklogInv ==
  /\ FlowOk(recorder)
  /\ host.headless /\ ~host.done => recorder.backlog <= High
  /\ recorder.backlog <= High + MaxPerPoll - 1
  /\ \A s \in Steps : steps[s].at = "tick" =>
       recorder.backlog <= High /\ (~host.done => recorder.backlog < High)
  /\ host.headless => recorder.on

IInv == TypeOK /\ TimerInv /\ WorldInv /\ RequestInv /\ StepInv /\ GateInv /\ BacklogInv

\* What holds however many callers meet: two of them may count an answer twice.
AnyWorld ==
  [run : Nat, tick : Nat, pending : {"none", "open", "answered"},
   since : Nat, asked : Int, unanswered : Int, failed : BOOLEAN]

AnyInv ==
  /\ host \in Host /\ world \in AnyWorld /\ setting \in Settings
  /\ steps \in [Steps -> [at : {"idle", "top", "gate", "ask", "tick"}, left : Int]]
  /\ host.done => ~host.running

HostInv == AnyInv /\ (met \/ IInv)

\* What the host's timer functions leave alone.
Keeps(g, h) ==
  /\ g \in Host /\ g.mode = h.mode /\ g.deciding = h.deciding /\ g.waiters = h.waiters
  /\ g.quotaPaused = h.quotaPaused /\ g.headless = h.headless /\ g.done = h.done

(***************************************************************************)
(* Jobs, events and the gate                                               *)
(***************************************************************************)
\* A step message is not the loop.
LEMMA AStep ==
  ASSUME NEW s \in Steps PROVE s # Loop
BY HostAssumption DEF Steps, Loop

\* The job that is next is the only one (runSimHost's promise jobs).
LEMMA NextJob ==
  ASSUME TypeOK, NEW k, IsNext(k)
  PROVE  k = 1 /\ HasJob /\ Without(k) = <<>> /\ jobs = <<TheJob>> /\ TheJob \in Job
<1>1. CASE jobs = <<>>
  BY <1>1 DEF IsNext
<1>2. CASE jobs[1] \in Job /\ jobs = <<jobs[1]>>
  <2> DEFINE j == jobs[1]
  <2>0. jobs = <<j>> /\ j \in Job
    BY <1>2
  <2> HIDE DEF j
  <2>1. Len(jobs) = 1 /\ jobs # <<>>
    BY <2>0
  <2>2. k = 1
    BY <2>1 DEF IsNext
  <2>3. SubSeq(<<j>>, 1, 0) = <<>> /\ SubSeq(<<j>>, 2, 1) = <<>>
    OBVIOUS
  <2>4. Without(k) = <<>>
    BY <2>0, <2>1, <2>2, <2>3 DEF Without
  <2> QED BY <2>0, <2>1, <2>2, <2>4 DEF HasJob, TheJob, j
<1> QED BY <1>1, <1>2 DEF TypeOK

\* An open gate lets everyone through, and a closed one nobody (releaseGate).
LEMMA ReleasedWho ==
  ASSUME NEW h, NEW r
  PROVE  /\ h.waiters = <<>> \/ ~(r.on /\ ~Gated(r, h.quotaPaused)) => Released(h, r) = <<>>
         /\ \A s : h.waiters = <<s>> /\ r.on /\ ~Gated(r, h.quotaPaused) => Released(h, r) = <<Resume(s)>>
<1>1. ASSUME h.waiters = <<>> PROVE Released(h, r) = <<>>
  BY <1>1 DEF Released
<1>2. ASSUME ~(r.on /\ ~Gated(r, h.quotaPaused)) PROVE Released(h, r) = <<>>
  BY <1>2 DEF Released
<1>3. ASSUME NEW s, h.waiters = <<s>>, r.on /\ ~Gated(r, h.quotaPaused) PROVE Released(h, r) = <<Resume(s)>>
  <2>1. Released(h, r) = [k \in 1..1 |-> Resume(<<s>>[k])]
    BY <1>3 DEF Released
  <2>2. \A k \in 1..1 : <<s>>[k] = s
    OBVIOUS
  <2> QED BY <2>1, <2>2
<1> QED BY <1>1, <1>2, <1>3

\* Facts about sequences of at most one element.
LEMMA Joined ==
  ASSUME NEW j
  PROVE  /\ <<>> \o <<>> = <<>>
         /\ <<>> \o <<j>> = <<j>>
         /\ <<j>> \o <<>> = <<j>>
         /\ Append(<<>>, j) = <<j>>
         /\ Len(<<j>>) = 1 /\ <<j>>[1] = j /\ <<j>> # <<>>
OBVIOUS

\* When the worker takes an event, every step message is idle, waits at the gate
\* or for minds that take their time; the job that is left is such a wait.
LEMMA EventTime ==
  ASSUME IInv, NextEvent
  PROVE  /\ HasJob => TheJob.kind = "decide" /\ ~setting.atOnce
         /\ \A s \in Steps : \/ ~IsOf(s) /\ steps[s].at \in {"idle", "gate"}
                             \/ HasJob /\ IsOf(s) /\ ~IsOf(Loop) /\ steps[s].at = "tick" /\ Live
                                /\ world.unanswered > 0 /\ ~host.deciding
         /\ IsOf(Loop) <=> host.deciding
         /\ \A s \in Steps : ~PastGate(s)
<1>1. HasJob => TheJob.kind = "decide" /\ ~setting.atOnce
  <2>1. CASE setting.atOnce
    BY <2>1 DEF NextEvent, HasJob
  <2>2. CASE ~setting.atOnce
    <3>1. ASSUME HasJob PROVE TheJob.kind = "decide"
      <4>1. jobs = <<jobs[1]>> /\ jobs[1] \in Job
        BY <3>1 DEF IInv, TypeOK, HasJob
      <4>2. Len(jobs) = 1
        BY <4>1
      <4> QED BY <2>2, <4>1, <4>2 DEF NextEvent, TheJob
    <3> QED BY <2>2, <3>1
  <2> QED BY <2>1, <2>2
<1>2. Live => world.unanswered > 0
  BY DEF IInv, RequestInv, WorldInv, Counted
<1>3. ASSUME NEW s \in Steps
      PROVE  \/ ~IsOf(s) /\ steps[s].at \in {"idle", "gate"}
             \/ HasJob /\ IsOf(s) /\ ~IsOf(Loop) /\ steps[s].at = "tick" /\ Live
                /\ world.unanswered > 0 /\ ~host.deciding
  <2>1. CASE IsOf(s)
    <3>1. HasJob /\ ~IsOf(Loop)
      BY <2>1, AStep DEF IsOf
    <3>2. steps[s].at = "tick" /\ Live /\ ~host.deciding
      BY <1>1, <2>1, <3>1 DEF IInv, StepInv
    <3> QED BY <1>2, <2>1, <3>1, <3>2
  <2>2. CASE ~IsOf(s)
    BY <2>2 DEF IInv, StepInv, TypeOK, StepState
  <2> QED BY <2>1, <2>2
<1>4. \A s \in Steps : ~PastGate(s)
  BY <1>1, <1>3 DEF PastGate
<1> QED BY <1>1, <1>3, <1>4 DEF IInv, StepInv

\* Without a job, or with the loop's, every step message is idle or at the gate.
LEMMA NoStepAtWork ==
  ASSUME IInv, ~HasJob \/ IsOf(Loop), NEW s \in Steps
  PROVE  ~IsOf(s) /\ steps[s].at \in {"idle", "gate"}
<1>1. ~IsOf(s)
  BY AStep DEF IsOf
<1> QED BY <1>1 DEF IInv, StepInv, TypeOK, StepState

\* Jobs are joined only while callers do not meet.
LEMMA OneJob ==
  ASSUME TypeOK, NEW j, ~(Len(Append(jobs, j)) > 1)
  PROVE  jobs = <<>> /\ ~HasJob /\ Append(jobs, j) = <<j>>
<1>1. Len(jobs) = 0 \/ Len(jobs) = 1
  <2>1. CASE jobs = <<>>
    BY <2>1
  <2>2. CASE jobs = <<jobs[1]>>
    <3> DEFINE x == jobs[1]
    <3>1. jobs = <<x>>
      BY <2>2
    <3> HIDE DEF x
    <3> QED BY <3>1
  <2> QED BY <2>1, <2>2 DEF TypeOK
<1>2. jobs = <<>>
  <2>1. CASE jobs = <<>>
    BY <2>1
  <2>2. CASE jobs = <<jobs[1]>>
    <3> DEFINE x == jobs[1]
    <3>1. jobs = <<x>>
      BY <2>2
    <3> HIDE DEF x
    <3>2. Len(Append(<<x>>, j)) = 2
      OBVIOUS
    <3> QED BY <3>1, <3>2
  <2> QED BY <2>1, <2>2 DEF TypeOK
<1> QED BY <1>2, Joined DEF HasJob

(***************************************************************************)
(* The timer and the researcher's controls                                 *)
(***************************************************************************)
\* clearTimer, play and pause move the timer and `running` only (sim-host.ts
\* play, pause).
LEMMA HostMoves ==
  ASSUME NEW h \in Host
  PROVE  /\ Keeps(Cleared(h), h) /\ Cleared(h).running = h.running
         /\ Cleared(h).timers = IF h.timers > 0 THEN h.timers - 1 ELSE 0
         /\ Keeps(Started(h), h) /\ Started(h).running /\ Started(h).timers = h.timers + 1
         /\ Keeps(Paused(h), h) /\ ~Paused(h).running /\ Paused(h).timers = Cleared(h).timers
         /\ Keeps(Played(h), h)
<1>1. /\ Keeps(Cleared(h), h) /\ Cleared(h).running = h.running
      /\ Cleared(h).timers = IF h.timers > 0 THEN h.timers - 1 ELSE 0
  BY DEF Host, Keeps, Cleared
<1>2. Keeps(Started(h), h) /\ Started(h).running /\ Started(h).timers = h.timers + 1
  <2> DEFINE g == [h EXCEPT !.running = TRUE]
  <2>1. Keeps(g, h) /\ g.running /\ g.timers = h.timers
    BY DEF Host, Keeps
  <2>2. Started(h) = [g EXCEPT !.timers = h.timers + 1]
    BY Zenon DEF Started
  <2> HIDE DEF g
  <2> QED BY <2>1, <2>2 DEF Host, Keeps
<1>3. Keeps(Paused(h), h) /\ ~Paused(h).running /\ Paused(h).timers = Cleared(h).timers
  <2> DEFINE g == Cleared(h)
  <2>1. Paused(h) = [g EXCEPT !.running = FALSE]
    BY Zenon DEF Paused
  <2> HIDE DEF g
  <2>2. Keeps(g, h)
    BY <1>1 DEF g
  <2>3. Paused(h) \in Host /\ ~Paused(h).running /\ Paused(h).timers = g.timers
    BY <2>1, <2>2 DEF Host, Keeps
  <2>4. Keeps(Paused(h), h)
    BY <2>1, <2>2, <2>3 DEF Host, Keeps
  <2> QED BY <2>3, <2>4 DEF g
<1>4. Keeps(Played(h), h)
  BY <1>2 DEF Played, Keeps
<1> QED BY <1>1, <1>2, <1>3, <1>4

\* They keep one timer for a playing run and none for a paused one.
LEMMA TimerMoves ==
  ASSUME NEW h \in Host, NEW run, TimersOk(h, run)
  PROVE  /\ TimersOk(Played(h), run)
         /\ \A r : \A g \in {h, Paused(h)} : ~g.running /\ (g.headless => r # 0) => TimersOk(g, r)
         /\ TimersOk(Paused(h), run)
<1>1. TimersOk(Played(h), run)
  BY HostMoves DEF Played, Keeps, TimersOk
<1>2. Paused(h).timers = 0
  BY HostMoves DEF TimersOk, Host
<1> QED BY <1>1, <1>2, HostMoves DEF TimersOk, Keeps

\* The worker starts with the dummy world playing (sim-host.ts `init`).
LEMMA InvInit ==
  ASSUME Init
  PROVE  IInv
<1>1. /\ setting \in Settings /\ jobs = <<>> /\ recorder = NoRecorder /\ world = NewWorld(0)
      /\ steps = [s \in Steps |-> IdleStep] /\ space = "ok"
  BY DEF Init
<1> DEFINE h == [running |-> FALSE, timers |-> 0, deciding |-> FALSE, mode |-> "lockstep", headless |-> FALSE,
                 done |-> FALSE, quotaPaused |-> FALSE, wasPlaying |-> FALSE, waiters |-> <<>>]
<1>2. /\ h \in Host /\ host = Played(h) /\ h.waiters = <<>> /\ ~h.headless /\ TimersOk(h, 0) /\ ~h.deciding
  <2>1. <<>> \in Seq(Steps)
    OBVIOUS
  <2>2. host = Played(h)
    BY DEF Init
  <2> QED BY <2>1, <2>2 DEF Host, TimersOk
<1> HIDE DEF h
<1>4. host \in Host /\ host.waiters = <<>> /\ TimersOk(host, 0) /\ ~host.deciding /\ ~host.headless
  BY <1>2, HostMoves, TimerMoves DEF Keeps
<1>5. TypeOK
  BY <1>1, <1>4 DEF TypeOK, World, NewWorld, Recorder, NoRecorder, StepState, IdleStep
<1>6. TimerInv /\ StepInv /\ GateInv
  BY <1>1, <1>4 DEF TimerInv, NewWorld, StepInv, GateInv, PastGate, IdleStep, HasJob, IsOf
<1>7. WorldInv /\ RequestInv
  BY <1>1 DEF WorldInv, RequestInv, Counted, NewWorld, HasJob, Live
<1>8. BacklogInv
  BY <1>1, <1>4, HostAssumption DEF BacklogInv, FlowOk, Recorder, NoRecorder, IdleStep
<1> QED BY <1>5, <1>6, <1>7, <1>8 DEF IInv

\* What an event that touches neither world nor jobs preserves ...
LEMMA SameJobs ==
  ASSUME IInv, UNCHANGED <<setting, world, steps, jobs>>, host'.deciding = host.deciding
  PROVE  WorldInv' /\ RequestInv' /\ StepInv'
<1>1. WorldInv'
  BY DEF IInv, WorldInv, Counted
<1>2. RequestInv'
  BY DEF IInv, RequestInv, HasJob, TheJob, Live, IsFor
<1>3. StepInv'
  BY DEF IInv, StepInv, HasJob, TheJob, Live, IsOf, IsFor
<1> QED BY <1>1, <1>2, <1>3

\* ... one that leaves the gate alone ...
LEMMA SameGate ==
  ASSUME IInv, UNCHANGED <<setting, recorder, steps, jobs>>, host'.waiters = host.waiters, host'.quotaPaused = host.quotaPaused
  PROVE  GateInv'
BY DEF IInv, GateInv, PastGate, IsOf, HasJob, TheJob, Gated

\* ... one that leaves the recorder alone ...
LEMMA SameBacklog ==
  ASSUME IInv, UNCHANGED recorder, host'.headless = host.headless, host'.done = host.done,
         \A s \in Steps : steps'[s].at = "tick" => steps[s].at = "tick"
  PROVE  BacklogInv'
BY DEF IInv, BacklogInv, FlowOk, NoRecorder

\* ... and the types, for every event.
LEMMA SameTypes ==
  ASSUME IInv, UNCHANGED <<setting, steps>>, host' \in Host, recorder' \in Recorder, world' \in World, space' \in {"ok", "paused"},
         jobs' = <<>> \/ jobs' = jobs \/ \E j \in Job : jobs' = <<j>>
  PROVE  TypeOK'
BY DEF IInv, TypeOK

\* play, pause, and the pause after a refused batch.
LEMMA InvPlay ==
  ASSUME IInv, Play \/ Pause \/ Rejected
  PROVE  IInv'
<1>1. host \in Host /\ UNCHANGED <<setting, world, recorder, steps, jobs, space>> /\ TimersOk(host, world.run)
  BY DEF IInv, TypeOK, TimerInv, Play, Pause, Rejected
<1>2. host' = Played(host) \/ host' = Paused(host)
  BY DEF Play, Pause, Rejected
<1>3. Keeps(host', host) /\ TimerInv'
  BY <1>1, <1>2, HostMoves, TimerMoves DEF TimerInv
<1> QED
  BY <1>1, <1>3, SameJobs, SameGate, SameBacklog, SameTypes DEF IInv, TypeOK, Keeps

\* setMode: only the dummy world takes it, which holds no request.
LEMMA InvSetMode ==
  ASSUME IInv, NEW mode \in setting.modes, SetMode(mode)
  PROVE  IInv'
<1>1. /\ host \in Host /\ UNCHANGED <<setting, world, recorder, steps, jobs, space>>
      /\ TimersOk(host, world.run) /\ world.run = 0 /\ mode \in {"lockstep", "realtime"}
  BY HostAssumption DEF IInv, TypeOK, TimerInv, SetMode
<1>2. host' = [host EXCEPT !.mode = mode]
  BY DEF SetMode
<1>3. host' \in Host
  BY <1>1, <1>2 DEF Host
<1>4. /\ host'.deciding = host.deciding /\ host'.waiters = host.waiters /\ host'.quotaPaused = host.quotaPaused
      /\ host'.headless = host.headless /\ host'.done = host.done /\ host'.timers = host.timers /\ host'.running = host.running
  BY <1>1, <1>2 DEF Host
<1>5. TimerInv'
  BY <1>1, <1>4 DEF TimerInv, TimersOk
<1> QED
  BY <1>1, <1>3, <1>4, <1>5, SameJobs, SameGate, SameBacklog, SameTypes DEF IInv, TypeOK

\* liveView rearms the timer of a run that plays.
LEMMA InvLiveView ==
  ASSUME IInv, LiveView
  PROVE  IInv'
<1>1. /\ host \in Host /\ UNCHANGED <<setting, world, recorder, steps, jobs, space>>
      /\ TimersOk(host, world.run) /\ host.headless
  BY DEF IInv, TypeOK, TimerInv, LiveView
<1> DEFINE g == IF host.running THEN Rearmed(host) ELSE host
<1>2. Keeps(g, host) /\ g.running = host.running /\ g.timers = IF host.running THEN 1 ELSE host.timers
  <2> DEFINE c == Cleared(host)
  <2>1. Keeps(c, host) /\ c.running = host.running /\ c.timers = 0
    BY <1>1, HostMoves DEF TimersOk
  <2>2. Rearmed(host) = [c EXCEPT !.timers = c.timers + 1]
    BY Zenon DEF Rearmed
  <2> HIDE DEF c
  <2>3. Keeps(Rearmed(host), host) /\ Rearmed(host).running = host.running /\ Rearmed(host).timers = 1
    BY <2>1, <2>2 DEF Keeps, Host
  <2> QED BY <1>1, <2>3 DEF Keeps
<1>3. host' = [g EXCEPT !.headless = FALSE]
  BY Zenon DEF LiveView
<1> HIDE DEF g
<1>4. /\ host' \in Host /\ ~host'.headless /\ host'.mode = host.mode /\ host'.deciding = host.deciding
      /\ host'.waiters = host.waiters /\ host'.quotaPaused = host.quotaPaused /\ host'.done = host.done
      /\ host'.running = g.running /\ host'.timers = g.timers
  BY <1>2, <1>3 DEF Keeps, Host
<1>5. TimerInv'
  BY <1>1, <1>2, <1>4 DEF TimerInv, TimersOk
<1>6. BacklogInv'
  BY <1>1, <1>4 DEF IInv, BacklogInv, FlowOk, NoRecorder
<1> QED
  BY <1>1, <1>4, <1>5, <1>6, SameJobs, SameGate, SameTypes DEF IInv, TypeOK

\* An event that closes the gate further lets nobody through.
LEMMA ClosedGate ==
  ASSUME IInv, NextEvent, UNCHANGED <<setting, steps, jobs>>, host'.waiters = host.waiters,
         Gated(recorder, host.quotaPaused) => Gated(recorder', host'.quotaPaused)
  PROVE  GateInv'
<1>1. \A s \in Steps : ~PastGate(s)
  BY EventTime
<1> QED BY <1>1 DEF IInv, GateInv, PastGate, IsOf, HasJob, TheJob

\* The storage is full: the run is paused and its gate closed.
LEMMA InvQuotaPaused ==
  ASSUME IInv, QuotaPaused
  PROVE  IInv'
<1>1. /\ host \in Host /\ UNCHANGED <<setting, world, recorder, steps, jobs>> /\ space' \in {"ok", "paused"}
      /\ TimersOk(host, world.run) /\ NextEvent
  BY DEF IInv, TypeOK, TimerInv, QuotaPaused
<1>2. CASE ~recorder.on
  <2>1. UNCHANGED host
    BY <1>2 DEF QuotaPaused
  <2> QED BY <1>1, <2>1, SameJobs, SameGate, SameBacklog, SameTypes DEF IInv, TypeOK, TimerInv
<1>3. CASE recorder.on
  <2> DEFINE g == IF host.running THEN Paused(host) ELSE host
  <2>1. Keeps(g, host) /\ TimersOk(g, world.run) /\ ~g.running /\ g.running \in BOOLEAN
    <3>1. CASE host.running
      BY <1>1, <3>1, HostMoves, TimerMoves DEF Keeps, Host
    <3>2. CASE ~host.running
      BY <1>1, <3>2 DEF Keeps, Host
    <3> QED BY <3>1, <3>2
  <2>2. host' = [g EXCEPT !.quotaPaused = TRUE, !.wasPlaying = host.running]
    BY <1>3, Zenon DEF QuotaPaused
  <2> HIDE DEF g
  <2>3. host.running \in BOOLEAN
    BY <1>1 DEF Host
  <2>4. /\ host' \in Host /\ host'.quotaPaused /\ host'.mode = host.mode /\ host'.deciding = host.deciding
        /\ host'.waiters = host.waiters /\ host'.headless = host.headless /\ host'.done = host.done
        /\ host'.running = g.running /\ host'.timers = g.timers
    BY <2>1, <2>2, <2>3 DEF Keeps, Host
  <2>5. TimerInv'
    BY <1>1, <2>1, <2>4 DEF TimerInv, TimersOk
  <2>6. GateInv'
    BY <1>1, <1>3, <2>4, ClosedGate DEF Gated
  <2> QED BY <1>1, <2>4, <2>5, <2>6, SameJobs, SameBacklog, SameTypes DEF IInv, TypeOK
<1> QED BY <1>2, <1>3

(***************************************************************************)
(* Recorder and loads                                                      *)
(***************************************************************************)
\* collect() keeps the marks: a waiting recorder waits on (RunRecorder.collect).
LEMMA CollectedFlow ==
  ASSUME NEW r \in Recorder, NEW n \in Nat, FlowOk(r)
  PROVE  /\ FlowOk(Collected(r, n)) /\ Collected(r, n).on = r.on /\ Collected(r, n).header = r.header
         /\ Collected(r, n).backlog = IF r.on THEN r.backlog + n ELSE r.backlog
         /\ r.waiting => Collected(r, n).waiting
         /\ n = 0 => Collected(r, n).waiting = r.waiting
<1>1. CASE ~r.on
  BY <1>1 DEF Collected, FlowOk, NoRecorder, Recorder
<1>2. CASE r.on
  <2> DEFINE c == [r EXCEPT !.backlog = @ + n]
  <2>1. /\ c \in Recorder /\ c.on /\ c.header = r.header /\ c.waiting = r.waiting /\ c.backlog = r.backlog + n
    BY <1>2 DEF Recorder
  <2>2. Collected(r, n) = [c EXCEPT !.waiting = Waits(c)]
    BY <1>2 DEF Collected
  <2> HIDE DEF c
  <2>3. Waits(c) \in BOOLEAN /\ (Waits(c) <=> IF r.waiting THEN r.backlog + n > Low ELSE r.backlog + n >= High)
    <3>1. CASE r.waiting
      BY <2>1, <3>1 DEF Waits
    <3>2. CASE ~r.waiting
      BY <2>1, <3>2 DEF Waits
    <3> QED BY <3>1, <3>2
  <2>4. /\ Collected(r, n) \in Recorder /\ Collected(r, n).on /\ Collected(r, n).header = r.header
        /\ Collected(r, n).backlog = r.backlog + n /\ Collected(r, n).waiting = Waits(c)
    BY <2>1, <2>2, <2>3 DEF Recorder
  <2> QED BY <1>2, <2>3, <2>4, HostAssumption DEF FlowOk, Recorder
<1> QED BY <1>1, <1>2

\* finishHeadless pauses the run for good.
LEMMA FinishedMoves ==
  ASSUME NEW h \in Host, NEW run, TimersOk(h, run)
  PROVE  LET g == Finished(h) IN
         /\ g \in Host /\ g.mode = h.mode /\ g.deciding = h.deciding /\ g.waiters = h.waiters
         /\ g.quotaPaused = h.quotaPaused /\ g.headless = h.headless /\ g.done
         /\ TimersOk(g, run)
<1> DEFINE p == Paused(h)
<1>1. Keeps(p, h) /\ TimersOk(p, run) /\ ~p.running
  BY HostMoves, TimerMoves
<1>2. Finished(h) = [p EXCEPT !.done = TRUE]
  BY Zenon DEF Finished
<1> HIDE DEF p
<1> QED BY <1>1, <1>2 DEF Keeps, Host, TimersOk

\* stop: the end snapshot of a headless run is one record more, once.
LEMMA InvStop ==
  ASSUME IInv, Stop
  PROVE  IInv'
<1>1. /\ host \in Host /\ recorder \in Recorder /\ UNCHANGED <<setting, world, steps, jobs, space>>
      /\ TimersOk(host, world.run) /\ NextEvent /\ FlowOk(recorder) /\ host.headless /\ ~host.done /\ recorder.on
  BY DEF IInv, TypeOK, TimerInv, BacklogInv, Stop
<1>2. recorder' = Collected(recorder, 1) /\ host' = Finished(host)
  BY DEF Stop, EndOfRecord
<1>3. /\ host' \in Host /\ host'.deciding = host.deciding /\ host'.waiters = host.waiters
      /\ host'.quotaPaused = host.quotaPaused /\ host'.done /\ host'.headless /\ TimerInv'
  BY <1>1, <1>2, FinishedMoves DEF TimerInv
<1>4. /\ FlowOk(recorder') /\ recorder'.on /\ recorder'.header = recorder.header
      /\ recorder'.backlog = recorder.backlog + 1 /\ (recorder.waiting => recorder'.waiting)
  BY <1>1, <1>2, CollectedFlow
<1>5. recorder'.backlog <= High + MaxPerPoll - 1
  <2>1. recorder.backlog <= High /\ recorder.backlog \in Nat
    BY <1>1 DEF IInv, BacklogInv, Recorder
  <2> QED BY <1>4, <2>1, HostAssumption
<1>6. BacklogInv'
  <2>1. \A s \in Steps : steps'[s].at = "tick" => recorder'.backlog <= High
    <3>1. recorder.backlog \in Nat /\ High \in Nat
      BY <1>1, HostAssumption DEF Recorder
    <3> QED BY <1>1, <1>4, <3>1 DEF IInv, BacklogInv
  <2> QED BY <1>3, <1>4, <1>5, <2>1 DEF BacklogInv
<1>7. GateInv'
  BY <1>1, <1>3, <1>4, ClosedGate DEF Gated
<1> QED
  BY <1>1, <1>3, <1>4, <1>6, <1>7, SameJobs, SameTypes DEF IInv, TypeOK, FlowOk

\* load: a run in progress is paused, its waiters are dropped and its job, if
\* one is left, is the loop's and no longer live.
LEMMA InvLoad ==
  ASSUME IInv, ~met', NEW recorded \in BOOLEAN, NEW headless \in BOOLEAN, NEW mode \in setting.modes,
         Load(recorded, headless, mode)
  PROVE  IInv'
<1>1. /\ host \in Host /\ world \in World /\ UNCHANGED <<setting, jobs, space>>
      /\ TimersOk(host, world.run) /\ NextEvent /\ mode \in {"lockstep", "realtime"}
  BY HostAssumption DEF IInv, TypeOK, TimerInv, Load
<1> DEFINE g == IF host.running THEN Paused(host) ELSE host
<1>2. Keeps(g, host) /\ ~g.running /\ g.timers = 0
  BY <1>1, HostMoves, TimerMoves DEF Keeps, TimersOk
<1>3. host' = [g EXCEPT !.waiters = <<>>, !.quotaPaused = FALSE, !.wasPlaying = FALSE,
                        !.mode = mode, !.headless = headless, !.done = FALSE]
  BY Zenon DEF Load
<1>4. <<>> \in Seq(Steps)
  OBVIOUS
<1> HIDE DEF g
<1>5. /\ host' \in Host /\ ~host'.running /\ host'.timers = 0 /\ host'.waiters = <<>> /\ ~host'.quotaPaused
      /\ host'.deciding = host.deciding /\ host'.headless = headless /\ ~host'.done
  BY <1>1, <1>2, <1>3, <1>4 DEF Keeps, Host
<1>7. world' = NewWorld(world.run + 1) /\ world.run \in Nat
  BY <1>1 DEF Load, World
<1>8. world' \in World /\ WorldInv' /\ world'.pending = "open" /\ world'.asked = 0 /\ world'.run = world.run + 1
  BY <1>7 DEF NewWorld, World, WorldInv, Counted
<1>6. TimerInv'
  BY <1>5, <1>7, <1>8 DEF TimerInv, TimersOk
<1>9. RequestInv' /\ ~Live'
  <2>1. ASSUME HasJob PROVE TheJob \in Job /\ TheJob.run <= world.run
    BY <2>1 DEF IInv, TypeOK, RequestInv, TheJob, HasJob
  <2>2. HasJob' = HasJob /\ TheJob' = TheJob
    BY <1>1 DEF HasJob, TheJob
  <2>3. ~Live'
    BY <1>7, <1>8, <2>1, <2>2 DEF Live, IsFor, Job
  <2> QED BY <1>7, <1>8, <2>1, <2>2, <2>3 DEF RequestInv, Job
<1>10. steps' = [s \in Steps |-> IF steps[s].at = "gate" THEN IdleStep ELSE steps[s]]
  BY DEF Load
<1>18. ~HasJob \/ IsOf(Loop)
  <2>1. \A i \in 1..Len(jobs) : jobs[i].by = Loop
    BY DEF Load
  <2>2. ASSUME HasJob PROVE TheJob.by = Loop
    <3>1. jobs = <<TheJob>>
      BY <2>2 DEF IInv, TypeOK, HasJob, TheJob
    <3>2. Len(jobs) = 1
      BY <3>1
    <3> QED BY <2>1, <3>2 DEF TheJob
  <2> QED BY <2>2 DEF IsOf
<1>19. \A s \in Steps : ~IsOf(s) /\ steps[s].at \in {"idle", "gate"}
  BY <1>18, NoStepAtWork
<1>11. \A s \in Steps : steps'[s].at = "idle" /\ steps'[s] \in StepState
  BY <1>1, <1>10, <1>19 DEF IInv, TypeOK, StepState, IdleStep
<1>12. StepInv' /\ GateInv'
  <2>1. HasJob' = HasJob /\ TheJob' = TheJob
    BY <1>1 DEF HasJob, TheJob
  <2>2. \A s \in Steps : ~IsOf(s)'
    BY <1>19, <2>1 DEF IsOf
  <2>3. IsOf(Loop)' = IsOf(Loop)
    BY <2>1 DEF IsOf
  <2> QED BY <1>5, <1>11, <2>1, <2>2, <2>3 DEF IInv, StepInv, GateInv, PastGate
<1>13. recorder' = (IF recorded THEN NewRecorder ELSE NoRecorder) /\ (headless => recorded)
  BY DEF Load
<1>14. NoRecorder \in Recorder /\ FlowOk(NoRecorder) /\ NoRecorder.backlog = 0
  BY DEF NoRecorder, Recorder, FlowOk
<1>15. FlowOk(NewRecorder) /\ NewRecorder.on /\ NewRecorder.backlog = 1
  <2> DEFINE r == [NoRecorder EXCEPT !.on = TRUE]
  <2>1. r \in Recorder /\ r.on /\ r.backlog = 0 /\ ~r.waiting
    BY DEF NoRecorder, Recorder
  <2>2. FlowOk(r)
    BY <2>1, HostAssumption DEF FlowOk
  <2>3. NewRecorder = Collected(r, 1)
    BY DEF NewRecorder
  <2> HIDE DEF r
  <2> QED BY <2>1, <2>2, <2>3, CollectedFlow
<1>16. BacklogInv'
  BY <1>5, <1>11, <1>13, <1>14, <1>15, HostAssumption DEF BacklogInv
<1>17. steps' \in [Steps -> StepState]
  BY <1>10, <1>11
<1> QED
  BY <1>1, <1>5, <1>6, <1>8, <1>9, <1>12, <1>13, <1>14, <1>15, <1>16, <1>17 DEF IInv, TypeOK, FlowOk, HasJob, TheJob

\* step(count): no job is left, or two callers meet.
LEMMA InvStepMessage ==
  ASSUME IInv, ~met', NEW s \in Steps, NEW count \in setting.counts, StepMessage(s, count)
  PROVE  IInv'
<1>1. /\ host \in Host /\ UNCHANGED <<setting, world, recorder, space>> /\ steps[s].at = "idle"
      /\ TimersOk(host, world.run) /\ NextEvent /\ count \in Nat /\ steps \in [Steps -> StepState]
  BY HostAssumption DEF IInv, TypeOK, TimerInv, StepMessage
<1>2. jobs = <<>> /\ ~HasJob /\ ~host.deciding /\ jobs' = <<Resume(s)>>
  <2>1. jobs' = <<Resume(s)>> \o jobs /\ ~(Len(<<Resume(s)>> \o jobs) > 1)
    BY Zenon DEF StepMessage, Meet
  <2>2. CASE jobs = <<>>
    BY <2>1, <2>2, Joined DEF HasJob, IInv, StepInv, IsOf
  <2>3. CASE jobs = <<TheJob>>
    <3> DEFINE x == TheJob  y == Resume(s)
    <3>1. jobs = <<x>> /\ ~(Len(<<y>> \o jobs) > 1)
      BY <2>1, <2>3
    <3> HIDE DEF x, y
    <3>2. Len(<<y>> \o <<x>>) = 2
      OBVIOUS
    <3> QED BY <3>1, <3>2
  <2> QED BY <2>2, <2>3 DEF IInv, TypeOK, TheJob
<1>3. host' = (IF host.running THEN Paused(host) ELSE host)
  BY DEF StepMessage
<1>4. Keeps(host', host) /\ TimerInv'
  BY <1>1, <1>3, HostMoves, TimerMoves DEF TimerInv, Keeps
<1>5. steps' = [steps EXCEPT ![s] = [at |-> "top", left |-> count]]
  BY DEF StepMessage
<1>6. /\ steps'[s].at = "top" /\ \A t \in Steps : t # s => steps'[t] = steps[t]
      /\ \A t \in Steps : ~IsOf(t) /\ steps[t].at \in {"idle", "gate"}
  BY <1>1, <1>2, <1>5, NoStepAtWork
<1>8. /\ HasJob' /\ TheJob' = Resume(s) /\ Resume(s) \in Job /\ Resume(s).kind = "resume" /\ Resume(s).by = s
      /\ ~Live' /\ s # Loop
  BY <1>2, Joined, AStep DEF HasJob, TheJob, Resume, Job, Live
<1>9. TypeOK'
  BY <1>1, <1>2, <1>4, <1>5, <1>8 DEF IInv, TypeOK, StepState, HasJob, TheJob, Keeps
<1>10. WorldInv'
  BY <1>1 DEF IInv, WorldInv, Counted
<1>11. RequestInv'
  <2>1. world.pending = "open" => world.asked # 1
    BY <1>2 DEF IInv, RequestInv, Live, HasJob
  <2>2. Resume(s).run = 0 /\ world.run \in Nat
    BY DEF Resume, IInv, TypeOK, World
  <2> QED BY <1>1, <1>8, <2>1, <2>2 DEF RequestInv
<1>12. \A t \in Steps \cup {Loop} : IsOf(t)' <=> t = s
  BY <1>8 DEF IsOf
<1>15. StepInv'
  BY <1>2, <1>4, <1>6, <1>8, <1>12 DEF StepInv, Keeps
<1>13. GateInv'
  <2>1. host'.waiters = host.waiters /\ host'.quotaPaused = host.quotaPaused
    BY <1>4 DEF Keeps
  <2>2. \A i \in 1..Len(host.waiters) : host.waiters[i] \in Steps /\ host.waiters[i] # s
    BY <1>1 DEF IInv, GateInv, Host
  <2>3. \A t \in Steps : ~PastGate(t)'
    BY <1>6, <1>12 DEF PastGate
  <2> QED BY <1>1, <1>6, <1>12, <2>1, <2>2, <2>3 DEF IInv, GateInv
<1>14. BacklogInv'
  BY <1>1, <1>4, <1>6, SameBacklog DEF Keeps
<1> QED BY <1>4, <1>9, <1>10, <1>11, <1>15, <1>13, <1>14 DEF IInv

(***************************************************************************)
(* Storage messages                                                        *)
(***************************************************************************)
\* syncRecordingState changes the waiters only.
LEMMA SyncedFields ==
  ASSUME NEW h \in Host, NEW r
  PROVE  LET g == Synced(h, r) IN
         /\ g \in Host /\ g.mode = h.mode /\ g.deciding = h.deciding /\ g.quotaPaused = h.quotaPaused
         /\ g.headless = h.headless /\ g.done = h.done /\ g.running = h.running /\ g.timers = h.timers
         /\ g.waiters = IF r.on /\ ~Gated(r, h.quotaPaused) THEN <<>> ELSE h.waiters
<1>1. <<>> \in Seq(Steps)
  OBVIOUS
<1> QED BY <1>1 DEF Host, Synced

\* An open gate resumes one waiter at most while callers do not meet.
LEMMA OneReleased ==
  ASSUME TypeOK, NEW h \in Host, NEW r, r.on /\ ~Gated(r, h.quotaPaused), ~(Len(jobs \o Released(h, r)) > 1),
         h.waiters # <<>>
  PROVE  /\ jobs = <<>> /\ \E s \in Steps : h.waiters = <<s>> /\ Released(h, r) = <<Resume(s)>>
<1> DEFINE n == Len(h.waiters)  R == Released(h, r)
<1>1. h.waiters \in Seq(Steps) /\ n \in Nat /\ n # 0
  BY DEF Host
<1>2. R = [k \in 1..n |-> Resume(h.waiters[k])]
  BY DEF Released
<1>3. R \in Seq(Job) /\ Len(R) = n
  <2>1. \A k \in 1..n : Resume(h.waiters[k]) \in Job
    BY <1>1 DEF Resume, Job
  <2> HIDE DEF n, R
  <2> QED BY <1>1, <1>2, <2>1
<1>4. jobs \in Seq(Job) /\ Len(jobs) \in Nat /\ (Len(jobs) = 0 => jobs = <<>>)
  <2>1. CASE jobs = <<>>
    BY <2>1
  <2>2. CASE jobs = <<jobs[1]>> /\ jobs[1] \in Job
    <3> DEFINE x == jobs[1]
    <3>1. jobs = <<x>> /\ x \in Job
      BY <2>2
    <3> HIDE DEF x
    <3> QED BY <3>1
  <2> QED BY <2>1, <2>2 DEF TypeOK
<1>8. ~(Len(jobs \o R) > 1)
  OBVIOUS
<1> HIDE DEF R, n
<1>5. Len(jobs \o R) = Len(jobs) + n
  BY <1>3, <1>4
<1>6. Len(jobs) = 0 /\ n = 1
  BY <1>1, <1>4, <1>5, <1>8
<1>7. PICK s \in Steps : h.waiters = <<s>>
  BY <1>1, <1>6 DEF n
<1> QED BY <1>4, <1>6, <1>7, ReleasedWho

\* A message that may open the gate resumes who waits there, and nobody twice.
LEMMA SyncedEvent ==
  ASSUME IInv, ~met', NextEvent, NEW h \in Host, NEW r, h.waiters = host.waiters, h.deciding = host.deciding,
         r.on = recorder.on, Sync(h, r, jobs), UNCHANGED <<setting, world, steps>>
  PROVE  /\ jobs' = <<>> \/ jobs' = jobs \/ \E j \in Job : jobs' = <<j>>
         /\ WorldInv' /\ RequestInv' /\ StepInv' /\ GateInv'
<1>1. host' = Synced(h, r) /\ recorder' = r /\ jobs' = jobs \o Released(h, r) /\ ~(Len(jobs \o Released(h, r)) > 1)
  BY Zenon DEF Sync, Meet
<1>2. jobs = <<>> \/ (jobs = <<TheJob>> /\ TheJob \in Job)
  BY DEF IInv, TypeOK, TheJob
<1>3. jobs \o <<>> = jobs
  BY <1>2, Joined
<1>4. host'.deciding = host.deciding /\ host'.quotaPaused = h.quotaPaused
  BY <1>1, SyncedFields
<1>5. host.waiters # <<>> => recorder.on
  BY DEF IInv, GateInv, Gated
<1>6. CASE host.waiters = <<>> \/ Gated(r, h.quotaPaused)
  <2>1. jobs' = jobs /\ host'.waiters = host.waiters
    <3>1. Released(h, r) = <<>>
      BY <1>6, ReleasedWho
    <3>2. host'.waiters = host.waiters
      BY <1>1, <1>6, SyncedFields
    <3> QED BY <1>1, <1>3, <3>1, <3>2
  <2>2. GateInv'
    <3>1. \A s \in Steps : ~PastGate(s)'
      BY <2>1, EventTime DEF PastGate, IsOf, HasJob, TheJob
    <3>2. \A s : IsOf(s)' = IsOf(s)
      BY <2>1 DEF IsOf, HasJob, TheJob
    <3>3. host'.waiters # <<>> => Gated(recorder', host'.quotaPaused)
      BY <1>1, <1>4, <1>6, <2>1
    <3> QED BY <2>1, <3>1, <3>2, <3>3 DEF IInv, GateInv
  <2> QED BY <1>4, <2>1, <2>2, SameJobs
<1>7. CASE host.waiters # <<>> /\ ~Gated(r, h.quotaPaused)
  <2>1. PICK s \in Steps : jobs = <<>> /\ host.waiters = <<s>> /\ Released(h, r) = <<Resume(s)>>
    BY <1>1, <1>5, <1>7, OneReleased DEF IInv
  <2>2. ~HasJob /\ ~host.deciding /\ steps[s].at = "gate"
    BY <2>1, Joined DEF HasJob, IInv, GateInv, StepInv, IsOf
  <2>3. jobs' = <<Resume(s)>> /\ host'.waiters = <<>>
    <3>1. host'.waiters = <<>>
      BY <1>1, <1>5, <1>7, SyncedFields
    <3> QED BY <1>1, <2>1, <3>1, Joined
  <2>4. HasJob' /\ TheJob' = Resume(s) /\ Resume(s).kind = "resume" /\ Resume(s).by = s /\ Resume(s).run = 0
        /\ ~Live' /\ s # Loop /\ Resume(s) \in Job
    BY <2>3, Joined, AStep DEF HasJob, TheJob, Resume, Live, Job
  <2>5. WorldInv'
    BY DEF IInv, WorldInv, Counted
  <2>6. RequestInv'
    <3>1. world.pending = "open" => world.asked # 1
      BY <2>2 DEF IInv, RequestInv, Live
    <3>2. world.run \in Nat
      BY DEF IInv, TypeOK, World
    <3> QED BY <2>4, <3>1, <3>2 DEF RequestInv
  <2>7. \A t \in Steps : ~IsOf(t) /\ steps[t].at \in {"idle", "gate"}
    BY <2>2, NoStepAtWork
  <2>8. \A t \in Steps \cup {Loop} : IsOf(t)' <=> t = s
    BY <2>4 DEF IsOf
  <2>9. StepInv'
    BY <1>4, <2>2, <2>4, <2>7, <2>8 DEF StepInv
  <2>10. GateInv'
    <3>1. ~Gated(recorder', host'.quotaPaused)
      BY <1>1, <1>4, <1>7
    <3> QED BY <2>3, <3>1 DEF GateInv
  <2> QED BY <2>3, <2>4, <2>5, <2>6, <2>9, <2>10
<1> QED BY <1>6, <1>7

\* The header of the run is stored.
LEMMA InvHeaderStored ==
  ASSUME IInv, ~met', HeaderStored
  PROVE  IInv'
<1> DEFINE r == [recorder EXCEPT !.header = TRUE]
<1>1. /\ host \in Host /\ UNCHANGED <<setting, world, steps, space>> /\ NextEvent /\ recorder \in Recorder
      /\ FlowOk(recorder) /\ recorder.on /\ Sync(host, r, jobs) /\ host' = Synced(host, r) /\ recorder' = r
  BY DEF IInv, TypeOK, BacklogInv, HeaderStored, Sync
<1>2. r \in Recorder /\ r.on = recorder.on /\ r.waiting = recorder.waiting /\ r.backlog = recorder.backlog
  BY <1>1 DEF Recorder
<1> HIDE DEF r
<1>3. FlowOk(r)
  BY <1>1, <1>2 DEF FlowOk
<1>4. TimerInv' /\ BacklogInv' /\ host' \in Host
  BY <1>1, <1>2, <1>3, SyncedFields DEF IInv, TimerInv, TimersOk, BacklogInv
<1>5. /\ jobs' = <<>> \/ jobs' = jobs \/ \E j \in Job : jobs' = <<j>>
      /\ WorldInv' /\ RequestInv' /\ StepInv' /\ GateInv'
  BY <1>1, <1>2, SyncedEvent
<1> QED BY <1>1, <1>2, <1>4, <1>5, SameTypes DEF IInv, TypeOK

\* The writer caught up by n records.
LEMMA InvPersisted ==
  ASSUME IInv, ~met', NEW n \in 1..(High + MaxPerPoll), Persisted(n)
  PROVE  IInv'
<1> DEFINE q == [recorder EXCEPT !.backlog = @ - n]
           r == [q EXCEPT !.waiting = Waits(q)]
<1>1. /\ host \in Host /\ UNCHANGED <<setting, world, steps, space>> /\ NextEvent /\ recorder \in Recorder
      /\ FlowOk(recorder) /\ recorder.on /\ Sync(host, r, jobs) /\ host' = Synced(host, r) /\ recorder' = r
      /\ recorder.backlog >= n /\ n \in Nat
  BY HostAssumption DEF IInv, TypeOK, BacklogInv, Persisted, Sync, FlowOk, NoRecorder
<1>2. q \in Recorder /\ q.on /\ q.backlog = recorder.backlog - n /\ q.waiting = recorder.waiting
  BY <1>1 DEF Recorder
<1> HIDE DEF q
<1>3. Waits(q) \in BOOLEAN /\ (Waits(q) => q.backlog > Low) /\ (~Waits(q) => q.backlog < High)
  <2>1. CASE q.waiting
    BY <1>2, <2>1, HostAssumption DEF Waits, Recorder
  <2>2. CASE ~q.waiting
    BY <1>2, <2>2, HostAssumption DEF Waits, Recorder
  <2> QED BY <2>1, <2>2
<1>4. r \in Recorder /\ r.on = recorder.on /\ r.waiting = Waits(q) /\ r.backlog = recorder.backlog - n
  BY <1>1, <1>2, <1>3 DEF Recorder
<1> HIDE DEF r
<1>5. FlowOk(r) /\ r.backlog <= recorder.backlog
  BY <1>1, <1>2, <1>3, <1>4 DEF FlowOk, Recorder
<1>6. TimerInv' /\ host' \in Host
  BY <1>1, SyncedFields, ZenonT(30) DEF IInv, TimerInv, TimersOk
<1>7. BacklogInv'
  <2>1. recorder.backlog \in Nat /\ r.backlog \in Nat
    BY <1>1, <1>4 DEF Recorder
  <2>2. host'.headless = host.headless /\ host'.done = host.done
    BY <1>1, SyncedFields
  <2>3. /\ host.headless /\ ~host.done => recorder.backlog <= High
        /\ recorder.backlog <= High + MaxPerPoll - 1
        /\ host.headless => recorder.on
    BY DEF IInv, BacklogInv
  <2>4. \A s \in Steps : steps'[s].at = "tick" => r.backlog <= High /\ (~host.done => r.backlog < High)
    BY <1>1, <1>5, <2>1, HostAssumption DEF IInv, BacklogInv
  <2> QED BY <1>1, <1>4, <1>5, <2>1, <2>2, <2>3, <2>4, HostAssumption DEF BacklogInv
<1>8. /\ jobs' = <<>> \/ jobs' = jobs \/ \E j \in Job : jobs' = <<j>>
      /\ WorldInv' /\ RequestInv' /\ StepInv' /\ GateInv'
  BY <1>1, <1>4, SyncedEvent
<1> QED BY <1>1, <1>4, <1>6, <1>7, <1>8, SameTypes DEF IInv, TypeOK

\* There is room again: a run that was playing plays on.
LEMMA InvQuotaOk ==
  ASSUME IInv, ~met', QuotaOk
  PROVE  IInv'
<1>1. /\ host \in Host /\ UNCHANGED <<setting, world, steps>> /\ NextEvent /\ recorder \in Recorder
      /\ TimersOk(host, world.run) /\ space' \in {"ok", "paused"}
  BY DEF IInv, TypeOK, TimerInv, QuotaOk
<1>2. CASE ~recorder.on
  <2>1. UNCHANGED <<host, recorder, jobs>>
    BY <1>2 DEF QuotaOk
  <2> QED BY <1>1, <2>1, SameJobs, SameGate, SameBacklog, SameTypes DEF IInv, TypeOK, TimerInv
<1>3. CASE recorder.on
  <2> DEFINE h == [host EXCEPT !.quotaPaused = FALSE, !.wasPlaying = FALSE]
             g == IF host.wasPlaying THEN Played(h) ELSE h
  <2>1. Sync(g, recorder, jobs)
    BY <1>3 DEF QuotaOk
  <2>2. /\ h \in Host /\ h.mode = host.mode /\ h.deciding = host.deciding /\ h.waiters = host.waiters
        /\ h.headless = host.headless /\ h.done = host.done /\ h.running = host.running /\ h.timers = host.timers
    BY <1>1 DEF Host
  <2> HIDE DEF h
  <2>3. TimersOk(h, world.run)
    BY <1>1, <2>2 DEF TimersOk
  <2>4. Keeps(g, h) /\ TimersOk(g, world.run)
    BY <2>2, <2>3, HostMoves, TimerMoves DEF Keeps
  <2> HIDE DEF g
  <2>5. host' = Synced(g, recorder) /\ recorder' = recorder
    BY <2>1 DEF Sync
  <2>6. TimerInv' /\ host' \in Host /\ BacklogInv'
    <3>1. g \in Host
      BY <2>4 DEF Keeps
    <3>2. /\ host' \in Host /\ host'.headless = g.headless /\ host'.done = g.done /\ host'.mode = g.mode
          /\ host'.running = g.running /\ host'.timers = g.timers
      BY <2>5, <3>1, SyncedFields
    <3>3. TimerInv'
      BY <1>1, <2>4, <3>2 DEF TimerInv, TimersOk
    <3>4. host'.headless = host.headless /\ host'.done = host.done
      BY <2>2, <2>4, <3>2 DEF Keeps
    <3> QED BY <1>1, <2>5, <3>2, <3>3, <3>4, SameBacklog
  <2>7. /\ jobs' = <<>> \/ jobs' = jobs \/ \E j \in Job : jobs' = <<j>>
        /\ WorldInv' /\ RequestInv' /\ StepInv' /\ GateInv'
    BY <1>1, <2>1, <2>2, <2>4, SyncedEvent DEF Keeps
  <2> QED BY <1>1, <2>5, <2>6, <2>7, SameTypes DEF IInv, TypeOK
<1> QED BY <1>2, <1>3

(***************************************************************************)
(* Polls                                                                   *)
(***************************************************************************)
\* Ticks of a world without a request leave at most the request of the last.
LEMMA TickedCounted ==
  ASSUME NEW w \in World, Counted(w), NEW n \in Nat, NEW asks \in BOOLEAN,
         n > 0 => w.unanswered = 0, asks => w.run # 0
  PROVE  LET t == Ticked(w, n, asks) IN
         /\ t \in World /\ Counted(t) /\ t.run = w.run /\ t.tick = w.tick + n
         /\ n = 0 => t = w
         /\ n > 0 => t.asked = 0
<1>1. CASE n = 0
  BY <1>1 DEF Ticked, World
<1>2. CASE n # 0
  <2>1. n > 0 /\ w.unanswered = 0 /\ w.tick + n \in Nat
    BY <1>2 DEF World
  <2>2. CASE asks
    <3> DEFINE u == [w EXCEPT !.tick = w.tick + n, !.pending = "open", !.since = w.tick + n, !.asked = 0]
               t == [u EXCEPT !.unanswered = 1]
    <3>1. Ticked(w, n, asks) = [u EXCEPT !.unanswered = w.unanswered + 1] /\ w.unanswered + 1 = 1
      BY <1>2, <2>1, <2>2 DEF Ticked
    <3>2. /\ u \in World /\ u.run = w.run /\ u.tick = w.tick + n /\ u.asked = 0 /\ u.pending = "open"
          /\ u.failed = w.failed
      BY <2>1 DEF World
    <3>3. Ticked(w, n, asks) = t
      BY <3>1
    <3> HIDE DEF u
    <3>4. /\ t \in World /\ t.run = w.run /\ t.tick = w.tick + n /\ t.asked = 0 /\ t.pending = "open"
          /\ t.failed = w.failed /\ t.unanswered = 1
      BY <3>2 DEF World
    <3> HIDE DEF t
    <3>5. Counted(t)
      BY <2>2, <3>4 DEF Counted
    <3> QED BY <1>2, <2>1, <3>3, <3>4, <3>5
  <2>3. CASE ~asks
    <3> DEFINE t == [w EXCEPT !.tick = w.tick + n, !.pending = "none", !.since = 0, !.asked = 0,
                              !.unanswered = w.unanswered]
    <3>1. Ticked(w, n, asks) = t
      BY <1>2, <2>3 DEF Ticked
    <3>2. /\ t \in World /\ t.run = w.run /\ t.tick = w.tick + n /\ t.asked = 0 /\ t.pending = "none"
          /\ t.unanswered = 0 /\ t.failed = w.failed
      BY <2>1 DEF World
    <3> HIDE DEF t
    <3> QED BY <1>2, <2>1, <2>3, <3>1, <3>2 DEF Counted
  <2> QED BY <2>2, <2>3
<1> QED BY <1>1, <1>2

\* A counted world refuses a tick exactly when it holds a request, and never fails.
LEMMA CountedWorld ==
  IInv => /\ Counted(world) /\ ~Fails(world) /\ (Refuses(world) <=> world.pending = "open")
          /\ (world.unanswered > 0 <=> world.pending = "open")
BY DEF IInv, WorldInv, Counted, Fails, Refuses

\* Without a job nobody has been asked.
LEMMA NotAsked ==
  ASSUME IInv, ~HasJob, world.pending = "open"
  PROVE  world.asked = 0
BY DEF IInv, TypeOK, World, WorldInv, Counted, RequestInv, Live

\* A poll asks the minds once: when a request is open and nobody waits for it
\* (awaitDecisions), or two callers meet.
LEMMA AwaitEvent ==
  ASSUME IInv, ~met', NextEvent, NEW w \in World, Counted(w), w.run = world.run,
         w = world \/ (~HasJob /\ w.asked = 0),
         AwaitDecisions(w, jobs), host'.deciding = (host.deciding \/ Awaits(w)), UNCHANGED <<setting, steps>>
  PROVE  /\ jobs' = <<>> \/ jobs' = jobs \/ \E j \in Job : jobs' = <<j>>
         /\ world' \in World /\ world'.run = w.run /\ world'.tick = w.tick
         /\ WorldInv' /\ RequestInv' /\ StepInv'
         /\ \A s \in Steps : ~IsOf(s) /\ ~IsOf(s)' /\ steps[s].at \in {"idle", "gate"}
<1>1. CASE Awaits(w)
  <2> DEFINE j == LoopAsks(w)
  <2>1. ~(Len(Append(jobs, j)) > 1) /\ jobs' = Append(jobs, j) /\ world' = Asked(w)
    BY <1>1, Zenon DEF AwaitDecisions, Meet
  <2>2. ~HasJob /\ jobs' = <<j>>
    BY <2>1, OneJob DEF IInv
  <2>3. w.pending = "open" /\ host'.deciding
    <3>1. w.pending = "open"
      BY <1>1 DEF Awaits, Counted
    <3>2. host'.deciding
      BY <1>1, Zenon
    <3> QED BY <3>1, <3>2
  <2>4. w.asked = 0
    BY <2>2, <2>3, NotAsked
  <2>5. j \in Job /\ j.kind = "decide" /\ j.by = Loop /\ j.run = w.run /\ j.since = w.since /\ j.open
    BY <2>3 DEF LoopAsks, DecideJob, Job, World
  <2>6. world' = [w EXCEPT !.asked = @ + 1]
    BY <2>1, <2>3 DEF Asked
  <2> HIDE DEF j
  <2>7. HasJob' /\ TheJob' = j
    BY <2>2, Joined DEF HasJob, TheJob
  <2>8. /\ world' \in World /\ world'.run = w.run /\ world'.tick = w.tick /\ world'.asked = 1 /\ world'.pending = "open"
        /\ world'.since = w.since /\ world'.unanswered = w.unanswered /\ world'.failed = w.failed
    BY <2>3, <2>4, <2>6 DEF World
  <2>9. WorldInv'
    BY <2>3, <2>8 DEF WorldInv, Counted
  <2>10. RequestInv'
    BY <2>5, <2>7, <2>8 DEF RequestInv, Live, IsFor, World
  <2>11. \A s \in Steps : ~IsOf(s) /\ ~IsOf(s)' /\ steps[s].at \in {"idle", "gate"}
    BY <2>2, <2>5, <2>7, NoStepAtWork, AStep DEF IsOf
  <2>12. StepInv'
    BY <2>3, <2>5, <2>7, <2>11 DEF StepInv, IsOf
  <2> QED BY <2>2, <2>5, <2>8, <2>9, <2>10, <2>11, <2>12
<1>2. CASE ~Awaits(w)
  <2>1. world' = w /\ jobs' = jobs /\ host'.deciding = host.deciding
    BY <1>2 DEF AwaitDecisions, IInv, TypeOK, Host
  <2>2. \A s \in Steps : ~IsOf(s) /\ steps[s].at \in {"idle", "gate"}
    <3>1. HasJob /\ ~host.deciding => ~(world.unanswered > 0)
      BY <1>2 DEF Awaits
    <3> QED BY <3>1, EventTime
  <2>3. \A s \in Steps : ~IsOf(s)'
    BY <2>1, <2>2 DEF IsOf, HasJob, TheJob
  <2>4. CASE w = world
    BY <2>1, <2>2, <2>3, <2>4, SameJobs
  <2>5. CASE ~HasJob /\ w.asked = 0
    <3>1. WorldInv'
      BY <2>1 DEF WorldInv, Counted
    <3>2. RequestInv'
      BY <2>1, <2>5 DEF RequestInv, Live, HasJob
    <3>3. StepInv'
      BY <2>1, <2>2, <2>5 DEF StepInv, IsOf, HasJob, IInv
    <3> QED BY <2>1, <2>2, <2>3, <3>1, <3>2, <3>3
  <2> QED BY <2>4, <2>5
<1> QED BY <1>1, <1>2

\* A poll releases nobody: who waits at the gate waits on.
LEMMA PollReleases ==
  ASSUME IInv, NEW n \in Nat, n > 0 => ~Gated(recorder, host.quotaPaused)
  PROVE  LET r == Collected(recorder, n) IN
         /\ jobs \o Released(host, r) = jobs
         /\ \A h \in Host : h.waiters = host.waiters /\ h.quotaPaused = host.quotaPaused => Synced(h, r).waiters = host.waiters
         /\ host.waiters # <<>> => Gated(r, host.quotaPaused)
         /\ FlowOk(r) /\ r.on = recorder.on /\ r.backlog = IF r.on THEN recorder.backlog + n ELSE recorder.backlog
<1> DEFINE r == Collected(recorder, n)
<1>1. recorder \in Recorder /\ FlowOk(recorder)
  BY DEF IInv, TypeOK, BacklogInv
<1>2. /\ FlowOk(r) /\ r.on = recorder.on /\ r.backlog = (IF r.on THEN recorder.backlog + n ELSE recorder.backlog)
      /\ r.header = recorder.header /\ (n = 0 => r.waiting = recorder.waiting)
  BY <1>1, CollectedFlow
<1> HIDE DEF r
<1>3. host.waiters # <<>> => Gated(r, host.quotaPaused)
  BY <1>2 DEF IInv, GateInv, Gated
<1>4. Released(host, r) = <<>>
  BY <1>3, ReleasedWho
<1>5. jobs \o <<>> = jobs
  BY Joined DEF IInv, TypeOK
<1>6. ASSUME NEW h \in Host, h.waiters = host.waiters, h.quotaPaused = host.quotaPaused
      PROVE Synced(h, r).waiters = host.waiters
  BY <1>3, <1>6, SyncedFields
<1> QED BY <1>2, <1>3, <1>4, <1>5, <1>6 DEF r

\* A poll leaves the gate's waiters behind a closed gate.
LEMMA PollGate ==
  ASSUME IInv, UNCHANGED steps, \A s \in Steps : ~IsOf(s)' /\ steps[s].at \in {"idle", "gate"},
         host'.waiters = host.waiters, host.waiters # <<>> => Gated(recorder', host'.quotaPaused)
  PROVE  GateInv'
<1>1. \A i \in 1..Len(host.waiters) : host.waiters[i] \in Steps
  BY DEF IInv, TypeOK, Host
<1> QED BY <1>1 DEF IInv, GateInv, PastGate

\* The wait for minds changes `deciding` only.
LEMMA AwaitingHost ==
  ASSUME NEW h \in Host, NEW x \in BOOLEAN
  PROVE  LET g == [h EXCEPT !.deciding = @ \/ x] IN
         /\ g \in Host /\ g.mode = h.mode /\ g.waiters = h.waiters /\ g.quotaPaused = h.quotaPaused
         /\ g.headless = h.headless /\ g.done = h.done /\ g.running = h.running /\ g.timers = h.timers
         /\ g.deciding = (h.deciding \/ x)
<1>1. (h.deciding \/ x) \in BOOLEAN
  OBVIOUS
<1> DEFINE y == h.deciding \/ x
<1> HIDE DEF y
<1>2. LET g == [h EXCEPT !.deciding = y] IN
         /\ g \in Host /\ g.mode = h.mode /\ g.waiters = h.waiters /\ g.quotaPaused = h.quotaPaused
         /\ g.headless = h.headless /\ g.done = h.done /\ g.running = h.running /\ g.timers = h.timers
         /\ g.deciding = y
  BY <1>1 DEF Host, y
<1> QED BY <1>2, Zenon DEF y

\* loop(): a poll ticks only through an open gate, and throws in realtime only.
LEMMA InvPoll ==
  ASSUME IInv, ~met', NEW due \in 0..MaxPerPoll, Poll(due)
  PROVE  IInv' /\ (world'.tick > world.tick => ~Gated(recorder, host.quotaPaused))
<1> DEFINE held  == host.deciding \/ Gated(recorder, host.quotaPaused)
           stuck == held \/ ~DriverReady \/ Refuses(world) \/ Fails(world)
           throws(ran) == ran < due /\ ~held /\ (ran = 0 => DriverReady) /\ (ran > 0 => host.mode = "realtime")
           w(ran, asks) == Ticked(world, ran, asks)
           h(ran, asks) == [host EXCEPT !.deciding = @ \/ Awaits(w(ran, asks))]
           r(ran) == IF ran > 0 THEN Collected(recorder, ran) ELSE recorder
<1>1. /\ NextEvent /\ host.running /\ host.timers > 0 /\ ~host.headless
      /\ UNCHANGED <<setting, steps, space>>
  BY DEF Poll
<1>2. PICK ran \in 0..due, asks \in BOOLEAN :
        /\ asks => ran > 0 /\ world.run # 0
        /\ stuck => ran = 0
        /\ ran < due => stuck \/ asks
        /\ IF throws(ran)
           THEN /\ host' = Cleared(host)
                /\ world' = [w(ran, asks) EXCEPT !.failed = @ \/ Fails(w(ran, asks))]
                /\ UNCHANGED <<recorder, jobs, met>>
           ELSE /\ host' = Synced(h(ran, asks), r(ran)) /\ recorder' = r(ran)
                /\ AwaitDecisions(w(ran, asks), jobs \o Released(host, r(ran)))
  BY Zenon DEF Poll
<1> DEFINE v == w(ran, asks)
<1>3. host \in Host /\ world \in World /\ recorder \in Recorder /\ TimersOk(host, world.run) /\ FlowOk(recorder)
  BY DEF IInv, TypeOK, TimerInv, BacklogInv
<1>4. /\ Counted(world) /\ ~Fails(world) /\ (Refuses(world) <=> world.pending = "open")
      /\ (world.unanswered > 0 <=> world.pending = "open")
  BY CountedWorld
<1>5. /\ ran \in Nat /\ ran <= MaxPerPoll /\ (ran > 0 => world.unanswered = 0)
  BY <1>2, <1>3, <1>4, HostAssumption DEF Counted
<1>6. /\ v \in World /\ Counted(v) /\ v.run = world.run /\ v.tick = world.tick + ran /\ (ran = 0 => v = world) /\ (ran > 0 => v.asked = 0)
  BY <1>2, <1>3, <1>4, <1>5, TickedCounted
<1>7. ran > 0 => ~host.deciding /\ ~Gated(recorder, host.quotaPaused)
  BY <1>2, <1>5
<1>8. ran > 0 => ~HasJob
  <2>1. ASSUME ran > 0, HasJob PROVE FALSE
    <3>1. ~Live /\ ~IsOf(Loop)
      BY <1>3, <1>4, <1>5, <1>7, <2>1 DEF IInv, RequestInv, StepInv, Counted
    <3>2. TheJob.kind = "decide" /\ TheJob.by \in Steps /\ IsOf(TheJob.by)
      BY <1>1, <2>1, <3>1, EventTime DEF IInv, TypeOK, HasJob, TheJob, Job, IsOf
    <3> QED BY <3>1, <3>2, <1>1, EventTime
  <2> QED BY <2>1
<1>9. CASE throws(ran)
  <2>3. host' = Cleared(host) /\ world' = [v EXCEPT !.failed = @ \/ Fails(v)] /\ UNCHANGED <<recorder, jobs>>
    BY <1>2, <1>9
  <2> HIDE DEF v
  <2>2. ~Fails(v) /\ ~v.failed
    BY <1>6 DEF Counted, Fails, Refuses
  <2>4. (v.failed \/ Fails(v)) = v.failed
    BY <1>6, <2>2 DEF World
  <2>5. world' = v
    BY <1>6, <2>3, <2>4 DEF World
  <2>6. host.mode # "lockstep" /\ world.run # 0
    <3>1. CASE ran = 0
      <4>1. DriverReady /\ (~DriverReady \/ Refuses(world)) /\ ~asks
        BY <1>2, <1>4, <1>9, <3>1
      <4> QED BY <1>4, <4>1 DEF DriverReady, Counted
    <3>2. CASE ran > 0
      <4>1. asks /\ host.mode = "realtime"
        BY <1>2, <1>5, <1>9, <3>2
      <4> QED BY <1>2, <4>1
    <3> QED BY <1>5, <3>1, <3>2
  <2>7. Keeps(host', host) /\ TimerInv'
    BY <1>3, <1>6, <2>3, <2>5, <2>6, HostMoves DEF TimerInv, TimersOk, Keeps
  <2>8. WorldInv' /\ RequestInv' /\ StepInv'
    <3>1. CASE ran = 0
      BY <1>1, <1>6, <2>3, <2>5, <2>7, <3>1, SameJobs DEF Keeps
    <3>2. CASE ran > 0
      <4>1. ~HasJob /\ ~HasJob' /\ ~Live' /\ v.asked = 0
        BY <1>6, <1>8, <2>3, <3>2 DEF HasJob, Live
      <4>2. RequestInv' /\ WorldInv'
        BY <1>6, <2>5, <4>1 DEF RequestInv, WorldInv
      <4>3. StepInv'
        BY <1>1, <2>3, <2>7, <4>1, NoStepAtWork DEF IInv, StepInv, IsOf, HasJob, Keeps
      <4> QED BY <4>2, <4>3
    <3> QED BY <1>5, <3>1, <3>2
  <2>11. GateInv' /\ BacklogInv'
    BY <1>1, <2>3, <2>7, SameGate, SameBacklog DEF Keeps
  <2>12. TypeOK'
    BY <1>1, <1>3, <1>6, <2>3, <2>5, <2>7, SameTypes DEF IInv, TypeOK, Keeps
  <2>13. world'.tick > world.tick => ran > 0
    BY <1>3, <1>5, <1>6, <2>5 DEF World
  <2> QED BY <1>7, <2>7, <2>8, <2>11, <2>12, <2>13 DEF IInv
<1>10. CASE ~throws(ran)
  <2> DEFINE g == h(ran, asks)  q == r(ran)
  <2>1. host' = Synced(g, q) /\ recorder' = q /\ AwaitDecisions(v, jobs \o Released(host, q))
    BY <1>2, <1>10
  <2>2. q = Collected(recorder, ran) \/ (ran = 0 /\ q = recorder)
    BY <1>5
  <2>3. /\ jobs \o Released(host, q) = jobs
        /\ \A x \in Host : x.waiters = host.waiters /\ x.quotaPaused = host.quotaPaused => Synced(x, q).waiters = host.waiters
        /\ host.waiters # <<>> => Gated(q, host.quotaPaused)
        /\ FlowOk(q) /\ q.on = recorder.on /\ q.backlog = IF q.on THEN recorder.backlog + ran ELSE recorder.backlog
    <3>1. CASE ran > 0
      BY <1>5, <1>7, <3>1, PollReleases
    <3>2. CASE ran = 0
      <4>1. Released(host, recorder) = <<>>
        <5>1. host.waiters # <<>> => Gated(recorder, host.quotaPaused)
          BY DEF IInv, GateInv
        <5> QED BY <5>1, ReleasedWho
      <4>2. jobs \o <<>> = jobs
        BY Joined DEF IInv, TypeOK
      <4>3. host.waiters # <<>> => Gated(recorder, host.quotaPaused)
        BY DEF IInv, GateInv
      <4>4. \A x \in Host : x.waiters = host.waiters /\ x.quotaPaused = host.quotaPaused => Synced(x, recorder).waiters = host.waiters
        BY <4>3, SyncedFields
      <4>5. recorder.backlog + 0 = recorder.backlog
        BY <1>3 DEF Recorder
      <4>6. q = recorder
        BY <3>2
      <4> HIDE DEF q
      <4> QED BY <1>3, <3>2, <4>1, <4>2, <4>3, <4>4, <4>5, <4>6
    <3> QED BY <1>5, <3>1, <3>2
  <2>4. Awaits(v) \in BOOLEAN
    BY DEF Awaits
  <2>5. /\ g \in Host /\ g.mode = host.mode /\ g.waiters = host.waiters /\ g.quotaPaused = host.quotaPaused
        /\ g.headless = host.headless /\ g.done = host.done /\ g.running = host.running /\ g.timers = host.timers
        /\ g.deciding = (host.deciding \/ Awaits(v))
    BY <1>3, <2>4, AwaitingHost
  <2> HIDE DEF g, q, v
  <2>6. /\ host' \in Host /\ host'.mode = host.mode /\ host'.quotaPaused = host.quotaPaused
        /\ host'.headless = host.headless /\ host'.done = host.done /\ host'.running = host.running
        /\ host'.timers = host.timers /\ host'.deciding = (host.deciding \/ Awaits(v))
    BY <2>1, <2>5, SyncedFields
  <2>7. host'.waiters = host.waiters
    BY <2>1, <2>3, <2>5
  <2>8. v = world \/ (~HasJob /\ v.asked = 0)
    BY <1>5, <1>6, <1>7, <1>8
  <2>9. /\ jobs' = <<>> \/ jobs' = jobs \/ \E j \in Job : jobs' = <<j>>
        /\ world' \in World /\ world'.run = v.run /\ world'.tick = v.tick
        /\ WorldInv' /\ RequestInv' /\ StepInv' /\ \A s \in Steps : ~IsOf(s)' /\ steps[s].at \in {"idle", "gate"}
    BY <1>1, <1>6, <2>1, <2>3, <2>6, <2>8, AwaitEvent
  <2>10. GateInv'
    BY <1>1, <2>1, <2>3, <2>6, <2>7, <2>9, PollGate
  <2>11. TimerInv'
    BY <1>3, <1>6, <2>6, <2>9 DEF TimerInv, TimersOk
  <2>12. BacklogInv'
    <3>1. recorder.backlog <= High + MaxPerPoll - 1 /\ recorder.backlog \in Nat
      BY <1>3 DEF IInv, BacklogInv, Recorder
    <3>2. ran > 0 /\ recorder.on => recorder.backlog < High
      BY <1>3, <1>7 DEF FlowOk, Gated
    <3>3. q.backlog <= High + MaxPerPoll - 1
      BY <1>5, <2>3, <3>1, <3>2, HostAssumption
    <3> QED BY <1>1, <2>1, <2>3, <2>6, <2>9, <3>3 DEF BacklogInv
  <2>13. world'.tick > world.tick => ran > 0
    BY <1>3, <1>5, <1>6, <2>9 DEF World
  <2>14. TypeOK'
    BY <1>1, <2>1, <2>3, <2>6, <2>9, SameTypes DEF IInv, TypeOK, FlowOk
  <2> QED BY <1>7, <2>9, <2>10, <2>11, <2>12, <2>13, <2>14 DEF IInv
<1> QED BY <1>9, <1>10

\* headlessLoop(): the same, the backlog judged tick by tick.
LEMMA InvHeadlessPoll ==
  ASSUME IInv, ~met', HeadlessPoll
  PROVE  IInv' /\ (world'.tick > world.tick => ~Gated(recorder, host.quotaPaused))
<1> DEFINE w(ran, asks) == Ticked(world, ran, asks)
           r(ran) == Collected(recorder, ran)
           h(ran, asks) == [Synced(host, r(ran)) EXCEPT !.deciding = @ \/ Awaits(w(ran, asks))]
<1>1. /\ NextEvent /\ host.running /\ host.timers > 0 /\ host.headless
      /\ UNCHANGED <<setting, steps, space>>
  BY DEF HeadlessPoll
<1>2. PICK ran \in 0..MaxPerPoll, asks \in BOOLEAN :
        /\ asks => ran > 0
        /\ ran > 0 <=> MayStep
        /\ ran > 0 => recorder.backlog + ran - 1 < High
        /\ AwaitDecisions(w(ran, asks), jobs \o Released(host, r(ran)))
        /\ IF ReachedEnd(w(ran, asks))
           THEN host' = Finished(h(ran, asks)) /\ recorder' = EndOfRecord(r(ran))
           ELSE host' = h(ran, asks) /\ recorder' = r(ran)
  <2>1. ~HeadlessThrows
    BY CountedWorld DEF HeadlessThrows, MayStep
  <2>2. \E ran \in 0..MaxPerPoll, asks \in BOOLEAN : HeadlessRuns(ran, asks)
    BY <2>1 DEF HeadlessPoll
  <2> QED BY <2>2, Zenon DEF HeadlessRuns
<1>3. /\ host \in Host /\ world \in World /\ recorder \in Recorder /\ TimersOk(host, world.run) /\ FlowOk(recorder)
      /\ recorder.on /\ ~host.done /\ recorder.backlog <= High /\ recorder.backlog \in Nat
  BY <1>1 DEF IInv, TypeOK, TimerInv, TimersOk, BacklogInv, Recorder
<1>4. Counted(world)
  BY CountedWorld
<1>5. /\ ran \in Nat /\ (ran > 0 => world.unanswered = 0 /\ ~host.deciding /\ ~Gated(recorder, host.quotaPaused))
  BY <1>2, HostAssumption DEF MayStep
<1>6. world.run # 0
  BY <1>1, <1>3 DEF TimersOk
<1> DEFINE v == w(ran, asks)  q == r(ran)  g == h(ran, asks)
<1>7. /\ v \in World /\ Counted(v) /\ v.run = world.run /\ v.tick = world.tick + ran /\ (ran = 0 => v = world) /\ (ran > 0 => v.asked = 0)
  BY <1>3, <1>4, <1>5, <1>6, TickedCounted
<1>8. /\ jobs \o Released(host, q) = jobs
      /\ \A x \in Host : x.waiters = host.waiters /\ x.quotaPaused = host.quotaPaused => Synced(x, q).waiters = host.waiters
      /\ host.waiters # <<>> => Gated(q, host.quotaPaused)
      /\ FlowOk(q) /\ q.on = recorder.on /\ q.backlog = IF q.on THEN recorder.backlog + ran ELSE recorder.backlog
  BY <1>5, PollReleases
<1>9. /\ AwaitDecisions(v, jobs)
      /\ ran > 0 => recorder.backlog + ran - 1 < High
      /\ \/ host' = Finished(g) /\ recorder' = Collected(q, 1)
         \/ host' = g /\ recorder' = q
  BY <1>2, <1>8 DEF EndOfRecord
<1>10. /\ g \in Host /\ g.mode = host.mode /\ g.waiters = host.waiters /\ g.quotaPaused = host.quotaPaused
       /\ g.headless = host.headless /\ g.done = host.done /\ g.running = host.running /\ g.timers = host.timers
       /\ g.deciding = (host.deciding \/ Awaits(v))
  <2> DEFINE y == Synced(host, q)
  <2>1. /\ y \in Host /\ y.mode = host.mode /\ y.quotaPaused = host.quotaPaused /\ y.waiters = host.waiters
        /\ y.headless = host.headless /\ y.done = host.done /\ y.running = host.running /\ y.timers = host.timers
        /\ y.deciding = host.deciding
    BY <1>3, <1>8, SyncedFields
  <2>2. Awaits(v) \in BOOLEAN
    BY DEF Awaits
  <2> HIDE DEF y
  <2>3. g = [y EXCEPT !.deciding = @ \/ Awaits(v)]
    BY Zenon DEF y
  <2> HIDE DEF g, v
  <2> QED BY <2>1, <2>2, <2>3, AwaitingHost
<1> HIDE DEF v, q, g
<1>11. TimersOk(g, world.run)
  BY <1>3, <1>10 DEF TimersOk
<1>12. FlowOk(Collected(q, 1)) /\ Collected(q, 1).backlog = q.backlog + 1 /\ Collected(q, 1).on
       /\ (Gated(q, host.quotaPaused) => Gated(Collected(q, 1), host.quotaPaused))
  <2>1. q \in Recorder /\ q.on
    BY <1>3, <1>8 DEF FlowOk
  <2> QED BY <1>8, <2>1, CollectedFlow DEF Gated
<1>13. /\ host' \in Host /\ host'.waiters = host.waiters /\ host'.quotaPaused = host.quotaPaused
       /\ host'.headless /\ host'.deciding = (host.deciding \/ Awaits(v)) /\ TimersOk(host', world.run)
       /\ recorder'.on /\ FlowOk(recorder')
       /\ host.waiters # <<>> => Gated(recorder', host'.quotaPaused)
       /\ (host'.done /\ recorder'.backlog = q.backlog + 1) \/ recorder'.backlog = q.backlog
  <2>1. CASE host' = Finished(g) /\ recorder' = Collected(q, 1)
    BY <1>1, <1>8, <1>10, <1>11, <1>12, <2>1, FinishedMoves
  <2>2. CASE host' = g /\ recorder' = q
    BY <1>1, <1>3, <1>8, <1>10, <1>11, <2>2
  <2> QED BY <1>9, <2>1, <2>2
<1>14. v = world \/ (~HasJob /\ v.asked = 0)
  <2>1. ASSUME ran > 0, HasJob PROVE FALSE
    <3>1. ~Live /\ ~IsOf(Loop)
      BY <1>4, <1>5, <2>1 DEF IInv, RequestInv, StepInv, Counted
    <3>2. TheJob.kind = "decide" /\ TheJob.by \in Steps /\ IsOf(TheJob.by)
      BY <1>1, <2>1, <3>1, EventTime DEF IInv, TypeOK, HasJob, TheJob, Job, IsOf
    <3> QED BY <3>1, <3>2, <1>1, EventTime
  <2> QED BY <1>5, <1>7, <2>1
<1>15. /\ jobs' = <<>> \/ jobs' = jobs \/ \E j \in Job : jobs' = <<j>>
       /\ world' \in World /\ world'.run = v.run /\ world'.tick = v.tick
       /\ WorldInv' /\ RequestInv' /\ StepInv' /\ \A s \in Steps : ~IsOf(s)' /\ steps[s].at \in {"idle", "gate"}
  BY <1>1, <1>7, <1>9, <1>13, <1>14, AwaitEvent
<1>16. GateInv'
  BY <1>1, <1>13, <1>15, PollGate
<1>17. TimerInv'
  BY <1>7, <1>13, <1>15 DEF TimerInv
<1>18. BacklogInv'
  <2>1. q.backlog <= High /\ q.backlog \in Nat
    BY <1>3, <1>5, <1>8, <1>9, HostAssumption
  <2> QED BY <1>1, <1>13, <1>15, <2>1, HostAssumption DEF BacklogInv
<1>19. TypeOK'
  BY <1>1, <1>13, <1>15, SameTypes DEF IInv, TypeOK, FlowOk
<1>20. world'.tick > world.tick => ran > 0
  BY <1>3, <1>5, <1>7, <1>15 DEF World
<1> QED BY <1>5, <1>15, <1>16, <1>17, <1>18, <1>19, <1>20 DEF IInv

(***************************************************************************)
(* Promise jobs                                                            *)
(***************************************************************************)
\* Minds answer: a live answer is the request's, any other changes nothing.
LEMMA InvMindsAnswer ==
  ASSUME IInv, NEW k \in 1..Len(jobs), MindsAnswer(k)
  PROVE  IInv'
<1>1. /\ host \in Host /\ world \in World /\ TimersOk(host, world.run) /\ Counted(world)
      /\ UNCHANGED <<setting, recorder, steps, space>>
  BY CountedWorld DEF IInv, TypeOK, TimerInv, MindsAnswer
<1>2. k = 1 /\ HasJob /\ Without(k) = <<>> /\ jobs = <<TheJob>> /\ TheJob \in Job
  BY NextJob DEF IInv, MindsAnswer
<1> DEFINE j == TheJob
<1>3. /\ j.kind = "decide" /\ world' = Answered(world, j)
      /\ IF j.by = Loop
         THEN host' = Decided(host) /\ jobs' = <<>>
         ELSE jobs' = Append(<<>>, Resume(j.by)) /\ UNCHANGED host
  BY <1>2 DEF MindsAnswer, TheJob
<1>4. Live <=> IsFor(j, world)
  BY <1>2, <1>3 DEF Live
<1>5. /\ world' \in World /\ world'.run = world.run /\ Counted(world') /\ (Live => world'.pending # "open")
      /\ ~Live => world' = world
  <2>1. CASE Live
    <3>1. world.pending = "open" /\ world.asked = 1 /\ j.since = world.since /\ world.unanswered = 1
      BY <1>1, <2>1 DEF IInv, RequestInv, Counted
    <3>2. world' = [world EXCEPT !.unanswered = world.unanswered - 1, !.pending = "answered"]
      BY <1>3, <1>4, <2>1, <3>1 DEF Answered
    <3> DEFINE u == [world EXCEPT !.unanswered = 0]
    <3>3. world' = [u EXCEPT !.pending = "answered"]
      BY <3>1, <3>2
    <3>4. u \in World /\ u.run = world.run /\ u.unanswered = 0 /\ u.asked = 1 /\ u.failed = world.failed
      BY <1>1, <3>1 DEF World
    <3> HIDE DEF u
    <3>5. /\ world' \in World /\ world'.run = world.run /\ world'.unanswered = 0 /\ world'.asked = 1
          /\ world'.failed = world.failed /\ world'.pending = "answered"
      BY <3>3, <3>4 DEF World
    <3> QED BY <1>1, <2>1, <3>1, <3>5 DEF Counted
  <2>2. CASE ~Live
    BY <1>1, <1>3, <1>4, <2>2 DEF Answered
  <2> QED BY <2>1, <2>2
<1>6. WorldInv'
  BY <1>5 DEF WorldInv, Counted
<1>7. world'.pending = "open" => world'.asked # 1
  BY <1>1, <1>2, <1>5 DEF IInv, RequestInv
<1>8. BacklogInv' /\ TimerInv' /\ host'.waiters = host.waiters /\ host'.quotaPaused = host.quotaPaused /\ host' \in Host
      /\ host'.deciding = (IF j.by = Loop THEN FALSE ELSE host.deciding)
  <2>1. Keeps(host', [host EXCEPT !.deciding = host'.deciding]) /\ host'.running = host.running /\ host'.timers = host.timers
        /\ host'.deciding = (IF j.by = Loop THEN FALSE ELSE host.deciding)
    BY <1>1, <1>3 DEF Keeps, Host, Decided
  <2>2. host'.headless = host.headless /\ host'.done = host.done /\ host'.waiters = host.waiters /\ host'.mode = host.mode
        /\ host'.quotaPaused = host.quotaPaused
    BY <1>1, <1>3 DEF Host, Decided
  <2> QED BY <1>1, <1>5, <2>1, <2>2, SameBacklog DEF Keeps, TimerInv, TimersOk
<1>11. \A i \in 1..Len(host.waiters) : host.waiters[i] \in Steps
  BY <1>1 DEF Host
<1>9. CASE j.by = Loop
  <2>1. jobs' = <<>> /\ ~HasJob' /\ ~Live' /\ ~host'.deciding
    BY <1>3, <1>8, <1>9 DEF HasJob, Live
  <2>2. RequestInv'
    BY <1>7, <2>1 DEF RequestInv
  <2>3. \A s \in Steps : ~IsOf(s) /\ ~IsOf(s)' /\ steps[s].at \in {"idle", "gate"}
    BY <1>9, <1>2, <2>1, NoStepAtWork DEF IsOf
  <2>4. StepInv' /\ GateInv'
    BY <1>1, <1>8, <1>11, <2>1, <2>3 DEF IInv, StepInv, GateInv, PastGate, IsOf
  <2> QED BY <1>1, <1>5, <1>6, <1>8, <2>1, <2>2, <2>4, SameTypes DEF IInv, TypeOK
<1>10. CASE j.by # Loop
  <2>1. j.by \in Steps /\ IsOf(j.by) /\ ~IsOf(Loop)
    BY <1>2, <1>10 DEF Job, IsOf
  <2>2. steps[j.by].at = "tick" /\ Live /\ world'.pending # "open"
    BY <1>3, <1>5, <2>1 DEF IInv, StepInv
  <2>3. jobs' = <<Resume(j.by)>> /\ host' = host /\ ~host.deciding
    BY <1>3, <1>10, <2>1, Joined DEF IInv, StepInv
  <2>4. HasJob' /\ TheJob' = Resume(j.by) /\ Resume(j.by).kind = "resume" /\ Resume(j.by).by = j.by /\ Resume(j.by).run = 0
        /\ ~Live' /\ Resume(j.by) \in Job
    BY <2>1, <2>3, Joined DEF HasJob, TheJob, Resume, Live, Job
  <2>5. \A s \in Steps \cup {Loop} : (IsOf(s) <=> s = j.by) /\ (IsOf(s)' <=> s = j.by)
    BY <1>2, <2>4 DEF IsOf
  <2>6. RequestInv'
    BY <1>5, <1>7, <2>4 DEF RequestInv, World
  <2> HIDE DEF j
  <2>7. StepInv'
    BY <1>1, <2>1, <2>2, <2>3, <2>4, <2>5 DEF IInv, StepInv
  <2>8. GateInv'
    <3>1. \A s \in Steps : PastGate(s)' => PastGate(s)
      BY <1>1, <2>2, <2>5 DEF PastGate
    <3>2. \A i \in 1..Len(host.waiters) : ~IsOf(host.waiters[i])'
      BY <1>11, <2>3, <2>5 DEF IInv, GateInv
    <3> QED BY <1>1, <2>3, <3>1, <3>2 DEF IInv, GateInv
  <2> QED BY <2>8, <1>1, <1>5, <1>6, <1>8, <2>3, <2>4, <2>6, <2>7, SameTypes DEF IInv, TypeOK
<1> QED BY <1>9, <1>10

\* A mind fails: its request may be asked again.
LEMMA InvMindsFail ==
  ASSUME IInv, NEW k \in 1..Len(jobs), MindsFail(k)
  PROVE  IInv'
<1>1. /\ host \in Host /\ world \in World /\ TimersOk(host, world.run) /\ Counted(world)
      /\ UNCHANGED <<setting, recorder, space>> /\ steps \in [Steps -> StepState]
  BY CountedWorld DEF IInv, TypeOK, TimerInv, MindsFail
<1>2. k = 1 /\ HasJob /\ Without(k) = <<>> /\ jobs = <<TheJob>> /\ TheJob \in Job
  BY NextJob DEF IInv, MindsFail
<1> DEFINE j == TheJob
<1>3. /\ j.kind = "decide" /\ world' = Unanswered(world, j) /\ jobs' = <<>>
      /\ IF j.by = Loop
         THEN host' = Paused(Decided(host)) /\ UNCHANGED steps
         ELSE steps' = [steps EXCEPT ![j.by] = IdleStep] /\ UNCHANGED host
  BY <1>2 DEF MindsFail, TheJob
<1>4. Live <=> IsFor(j, world)
  BY <1>2, <1>3 DEF Live
<1>5. /\ world' \in World /\ world'.run = world.run /\ Counted(world') /\ (world'.pending = "open" => world'.asked # 1)
  <2>1. CASE Live
    <3>1. world.pending = "open" /\ world.asked = 1 /\ j.since = world.since
      BY <1>1, <2>1 DEF IInv, RequestInv
    <3>2. world' = [world EXCEPT !.asked = world.asked - 1]
      BY <1>3, <1>4, <2>1, <3>1 DEF Unanswered
    <3> QED BY <1>1, <3>1, <3>2 DEF World, Counted
  <2>2. CASE ~Live
    <3>1. world' = world
      BY <1>1, <1>3, <1>4, <2>2 DEF Unanswered
    <3> QED BY <1>1, <2>2, <3>1 DEF IInv, RequestInv
  <2> QED BY <2>1, <2>2
<1>6. WorldInv'
  BY <1>5 DEF WorldInv, Counted
<1>7. ~HasJob' /\ ~Live'
  BY <1>3 DEF HasJob, Live
<1>8. RequestInv'
  BY <1>5, <1>7 DEF RequestInv
<1>9. CASE j.by = Loop
  <2> DEFINE d == Decided(host)
  <2>1. /\ d \in Host /\ d.mode = host.mode /\ d.waiters = host.waiters /\ d.quotaPaused = host.quotaPaused
        /\ d.headless = host.headless /\ d.done = host.done /\ d.running = host.running /\ d.timers = host.timers
        /\ ~d.deciding
    BY <1>1 DEF Host, Decided
  <2> HIDE DEF d
  <2>2. TimersOk(d, world.run)
    BY <1>1, <2>1 DEF TimersOk
  <2>3. host' = Paused(d)
    BY <1>3, <1>9 DEF d
  <2>4. Keeps(host', d) /\ TimersOk(host', world.run)
    BY <2>1, <2>2, <2>3, HostMoves, TimerMoves
  <2>5. TimerInv' /\ BacklogInv' /\ host' \in Host /\ host'.waiters = host.waiters /\ host'.quotaPaused = host.quotaPaused
        /\ ~host'.deciding
    BY <1>1, <1>3, <1>5, <1>9, <2>1, <2>4, SameBacklog DEF Keeps, TimerInv
  <2>6. \A s \in Steps : ~IsOf(s) /\ ~IsOf(s)' /\ steps[s].at \in {"idle", "gate"}
    BY <1>2, <1>7, <1>9, NoStepAtWork DEF IsOf
  <2>8. \A i \in 1..Len(host.waiters) : host.waiters[i] \in Steps
    BY <1>1 DEF Host
  <2>7. StepInv' /\ GateInv'
    BY <1>1, <1>3, <1>7, <1>9, <2>5, <2>6, <2>8 DEF IInv, StepInv, GateInv, PastGate, IsOf
  <2> QED BY <1>1, <1>3, <1>5, <1>6, <1>8, <1>9, <2>5, <2>7, SameTypes DEF IInv, TypeOK
<1>10. CASE j.by # Loop
  <2>1. j.by \in Steps /\ IsOf(j.by) /\ ~IsOf(Loop)
    BY <1>2, <1>10 DEF Job, IsOf
  <2>2. steps' = [steps EXCEPT ![j.by] = IdleStep] /\ host' = host /\ ~host.deciding
    BY <1>3, <1>10, <2>1 DEF IInv, StepInv
  <2>3. /\ steps'[j.by].at = "idle" /\ steps[j.by].at = "tick" /\ \A s \in Steps : s # j.by => steps'[s] = steps[s]
    BY <1>1, <1>3, <2>1, <2>2 DEF IdleStep, IInv, StepInv
  <2>4. \A s \in Steps : steps'[s].at \in {"idle", "gate"} /\ ~IsOf(s)'
    <3>1. \A s \in Steps : IsOf(s) <=> s = j.by
      BY <1>2 DEF IsOf
    <3>2. \A s \in Steps : s # j.by => steps[s].at \in {"idle", "gate"}
      BY <1>1, <3>1 DEF IInv, StepInv, StepState
    <3> QED BY <1>7, <2>3, <3>2 DEF IsOf
  <2>5. \A i \in 1..Len(host.waiters) : host.waiters[i] \in Steps /\ host.waiters[i] # j.by
    BY <1>1, <2>3 DEF IInv, GateInv, Host
  <2>10. StepInv'
    BY <1>7, <2>2, <2>4 DEF StepInv, IsOf
  <2>6. GateInv'
    BY <1>1, <2>2, <2>3, <2>4, <2>5 DEF IInv, GateInv, PastGate
  <2>7. TimerInv' /\ BacklogInv'
    BY <1>1, <1>5, <2>2, <2>4, SameBacklog DEF TimerInv
  <2>8. steps' \in [Steps -> StepState]
    BY <1>1, <2>2 DEF IdleStep, StepState
  <2>9. TypeOK'
    BY <1>1, <1>3, <1>5, <2>2, <2>8 DEF IInv, TypeOK
  <2> QED BY <1>6, <1>8, <2>6, <2>7, <2>9, <2>10 DEF IInv
<1> QED BY <1>9, <1>10

\* The turn of a step message: the others are idle or wait at the gate.
LEMMA StepTurn ==
  ASSUME IInv, NEW k \in 1..Len(jobs), NEW s \in Steps, NEW at, Turn(k, s, at)
  PROVE  /\ k = 1 /\ HasJob /\ Without(k) = <<>> /\ jobs = <<TheJob>> /\ TheJob.kind = "resume" /\ IsOf(s)
         /\ steps[s].at = at /\ ~Live /\ ~IsOf(Loop) /\ ~host.deciding
         /\ \A t \in Steps : t # s => ~IsOf(t) /\ steps[t].at \in {"idle", "gate"}
         /\ \A i \in 1..Len(host.waiters) : host.waiters[i] \in Steps /\ host.waiters[i] # s
         /\ world.pending = "open" => world.asked # 1
<1>1. k = 1 /\ HasJob /\ Without(k) = <<>> /\ jobs = <<TheJob>> /\ TheJob.kind = "resume" /\ IsOf(s) /\ steps[s].at = at
  BY NextJob DEF IInv, Turn, IsOf, TheJob
<1>2. ~Live /\ ~IsOf(Loop) /\ ~host.deciding
  BY <1>1, AStep DEF IInv, StepInv, Live, IsOf
<1>3. \A t \in Steps : t # s => ~IsOf(t)
  BY <1>1 DEF IsOf
<1>4. \A t \in Steps : t # s => steps[t].at \in {"idle", "gate"}
  BY <1>3 DEF IInv, StepInv, TypeOK, StepState
<1>5. \A i \in 1..Len(host.waiters) : host.waiters[i] \in Steps /\ host.waiters[i] # s
  BY <1>1 DEF IInv, GateInv, TypeOK, Host
<1> QED BY <1>1, <1>2, <1>3, <1>4, <1>5 DEF IInv, RequestInv

\* A step that releases nobody leaves the waiters behind their gate.
LEMMA StepReleases ==
  ASSUME IInv, NEW r, r.on = recorder.on, Gated(recorder, host.quotaPaused) => Gated(r, host.quotaPaused)
  PROVE  Released(host, r) = <<>> /\ Synced(host, r).waiters = host.waiters
<1>1. host.waiters # <<>> => Gated(r, host.quotaPaused)
  BY DEF IInv, GateInv
<1>2. host \in Host
  BY DEF IInv, TypeOK
<1>3. Released(host, r) = <<>>
  BY <1>1, ReleasedWho
<1>4. Synced(host, r).waiters = host.waiters
  <2>1. Synced(host, r).waiters = IF r.on /\ ~Gated(r, host.quotaPaused) THEN <<>> ELSE host.waiters
    BY <1>2, SyncedFields
  <2> QED BY <1>1, <2>1
<1> QED BY <1>3, <1>4

\* step(): the top of its loop.
LEMMA InvStepTop ==
  ASSUME IInv, NEW k \in 1..Len(jobs), NEW s \in Steps, StepTop(k, s)
  PROVE  IInv'
<1>1. /\ host \in Host /\ TimersOk(host, world.run) /\ UNCHANGED <<setting, world, space>>
      /\ steps \in [Steps -> StepState] /\ recorder \in Recorder
  BY DEF IInv, TypeOK, TimerInv, StepTop
<1>2. /\ k = 1 /\ HasJob /\ Without(k) = <<>> /\ jobs = <<TheJob>> /\ TheJob.kind = "resume" /\ IsOf(s)
      /\ steps[s].at = "top" /\ ~Live /\ ~IsOf(Loop) /\ ~host.deciding
      /\ \A t \in Steps : t # s => ~IsOf(t) /\ steps[t].at \in {"idle", "gate"}
      /\ \A i \in 1..Len(host.waiters) : host.waiters[i] \in Steps /\ host.waiters[i] # s
      /\ world.pending = "open" => world.asked # 1
  BY StepTurn DEF StepTop
<1>3. WorldInv'
  BY <1>1 DEF IInv, WorldInv, Counted
<1>4. CASE steps[s].left = 0
  <2>1. steps' = [steps EXCEPT ![s] = IdleStep] /\ Sync(host, recorder, <<>>)
    BY <1>2, <1>4 DEF StepTop
  <2>2. Released(host, recorder) = <<>> /\ Synced(host, recorder).waiters = host.waiters
    BY StepReleases
  <2>3. jobs' = <<>> /\ host' = Synced(host, recorder) /\ recorder' = recorder
    BY <2>1, <2>2, Joined DEF Sync
  <2>4. /\ host' \in Host /\ host'.waiters = host.waiters /\ host'.headless = host.headless /\ host'.done = host.done
        /\ ~host'.deciding /\ TimersOk(host', world.run) /\ host'.quotaPaused = host.quotaPaused
    <3>1. /\ host' \in Host /\ host'.quotaPaused = host.quotaPaused /\ host'.headless = host.headless /\ host'.done = host.done /\ host'.mode = host.mode
          /\ host'.deciding = host.deciding /\ host'.running = host.running /\ host'.timers = host.timers
      BY <1>1, <2>3, SyncedFields
    <3>2. host'.waiters = host.waiters
      BY <2>2, <2>3
    <3> QED BY <1>1, <1>2, <3>1, <3>2 DEF TimersOk
  <2>6. /\ \A t \in Steps : steps'[t].at \in {"idle", "gate"} /\ (t # s => steps'[t] = steps[t])
        /\ ~HasJob' /\ ~Live' /\ \A t : ~IsOf(t)'
    BY <1>1, <1>2, <2>1, <2>3 DEF IdleStep, HasJob, Live, IsOf
  <2>5. TimerInv' /\ BacklogInv'
    BY <1>1, <2>3, <2>4, <2>6, SameBacklog DEF TimerInv
  <2>7. RequestInv' /\ StepInv'
    BY <1>1, <1>2, <2>4, <2>6 DEF RequestInv, StepInv
  <2>8. GateInv'
    BY <1>2, <2>3, <2>4, <2>6 DEF IInv, GateInv, PastGate
  <2>9. IdleStep \in StepState
    BY DEF IdleStep, StepState
  <2>10. TypeOK'
    BY <1>1, <2>1, <2>3, <2>4, <2>9 DEF IInv, TypeOK
  <2> QED BY <1>3, <2>5, <2>7, <2>8, <2>10 DEF IInv
<1>5. CASE steps[s].left # 0 /\ Gated(recorder, host.quotaPaused)
  <2>1. steps' = [steps EXCEPT ![s].at = "gate"] /\ host' = [host EXCEPT !.waiters = Append(@, s)] /\ jobs' = <<>>
        /\ UNCHANGED recorder
    BY <1>2, <1>5 DEF StepTop
  <2> DEFINE q == Append(host.waiters, s)
  <2>2. q \in Seq(Steps) /\ q # <<>> /\ \A i \in 1..Len(q) : q[i] = s \/ \E n \in 1..Len(host.waiters) : q[i] = host.waiters[n]
    <3>1. host.waiters \in Seq(Steps)
      BY <1>1 DEF Host
    <3>2. ASSUME NEW x \in Seq(Steps), NEW i \in 1..Len(Append(x, s))
          PROVE  Append(x, s)[i] = s \/ \E n \in 1..Len(x) : Append(x, s)[i] = x[n]
      OBVIOUS
    <3>3. \A x \in Seq(Steps) : Append(x, s) \in Seq(Steps) /\ Append(x, s) # <<>>
      OBVIOUS
    <3> QED BY <3>1, <3>2, <3>3
  <2>3. host' = [host EXCEPT !.waiters = q]
    BY <2>1
  <2> HIDE DEF q
  <2>4. /\ host' \in Host /\ host'.waiters = q /\ host'.headless = host.headless /\ host'.done = host.done
        /\ ~host'.deciding /\ host'.mode = host.mode /\ host'.running = host.running /\ host'.timers = host.timers
        /\ host'.quotaPaused = host.quotaPaused
    BY <1>1, <1>2, <2>2, <2>3 DEF Host
  <2>6. /\ steps'[s].at = "gate" /\ \A t \in Steps : t # s => steps'[t] = steps[t]
        /\ steps' \in [Steps -> StepState]
    BY <1>1, <1>2, <1>5, <2>1 DEF StepState
  <2>5. TimerInv' /\ BacklogInv'
    BY <1>1, <2>1, <2>4, <2>6, SameBacklog DEF TimerInv, TimersOk
  <2>7. ~HasJob' /\ ~Live' /\ \A t : ~IsOf(t)'
    BY <2>1 DEF HasJob, Live, IsOf
  <2>8. RequestInv' /\ StepInv'
    BY <1>1, <1>2, <2>4, <2>6, <2>7 DEF RequestInv, StepInv
  <2>9. GateInv'
    <3>1. \A t \in Steps : ~PastGate(t)'
      BY <1>2, <2>6, <2>7 DEF PastGate
    <3>2. \A i \in 1..Len(q) : steps'[q[i]].at = "gate"
      BY <1>2, <2>2, <2>6 DEF IInv, GateInv
    <3> QED BY <1>5, <2>1, <2>4, <2>7, <3>1, <3>2 DEF GateInv
  <2>10. TypeOK'
    BY <1>1, <2>1, <2>4, <2>6 DEF IInv, TypeOK
  <2> QED BY <1>3, <2>5, <2>8, <2>9, <2>10 DEF IInv
<1>6. CASE steps[s].left # 0 /\ ~Gated(recorder, host.quotaPaused)
  <2>1. steps' = [steps EXCEPT ![s].at = "ask"] /\ UNCHANGED <<host, jobs, recorder>>
    BY <1>6 DEF StepTop
  <2>2. /\ steps'[s].at = "ask" /\ \A t \in Steps : t # s => steps'[t] = steps[t]
        /\ steps' \in [Steps -> StepState]
    BY <1>1, <1>2, <1>6, <2>1 DEF StepState
  <2>3. HasJob' = HasJob /\ TheJob' = TheJob /\ Live' = Live /\ \A t \in Steps \cup {Loop} : IsOf(t)' = IsOf(t)
    BY <1>1, <2>1 DEF HasJob, TheJob, Live, IsFor, IsOf
  <2>4. RequestInv'
    BY <1>1, <2>3 DEF IInv, RequestInv
  <2>5. StepInv'
    BY <1>1, <1>2, <2>1, <2>2, <2>3 DEF StepInv
  <2>7. GateInv'
    BY <1>2, <1>6, <2>1, <2>2, <2>3 DEF IInv, GateInv
  <2>6. TimerInv' /\ BacklogInv'
    BY <1>1, <2>1, <2>2, SameBacklog DEF TimerInv
  <2>8. TypeOK'
    BY <1>1, <2>1, <2>2 DEF IInv, TypeOK
  <2> QED BY <1>3, <2>4, <2>5, <2>6, <2>7, <2>8 DEF IInv
<1> QED BY <1>4, <1>5, <1>6

\* step(): past the gate, the minds are asked if a request is open.
LEMMA InvStepAsk ==
  ASSUME IInv, NEW k \in 1..Len(jobs), NEW s \in Steps, StepAsk(k, s)
  PROVE  IInv'
<1>1. /\ host \in Host /\ TimersOk(host, world.run) /\ UNCHANGED <<setting, host, recorder, space>>
      /\ steps \in [Steps -> StepState] /\ world \in World /\ Counted(world)
  BY CountedWorld DEF IInv, TypeOK, TimerInv, StepAsk
<1>2. /\ k = 1 /\ HasJob /\ Without(k) = <<>> /\ jobs = <<TheJob>> /\ TheJob.kind = "resume" /\ IsOf(s)
      /\ steps[s].at \in {"ask", "gate"} /\ ~Live /\ ~IsOf(Loop) /\ ~host.deciding
      /\ \A t \in Steps : t # s => ~IsOf(t) /\ steps[t].at \in {"idle", "gate"}
      /\ \A i \in 1..Len(host.waiters) : host.waiters[i] \in Steps /\ host.waiters[i] # s
      /\ world.pending = "open" => world.asked # 1
  BY StepTurn DEF StepAsk
<1>3. ~Gated(recorder, host.quotaPaused)
  BY <1>2 DEF IInv, GateInv, PastGate
<1>4. steps' = [steps EXCEPT ![s].at = "tick"]
  BY DEF StepAsk
<1>5. /\ steps'[s].at = "tick" /\ \A t \in Steps : t # s => steps'[t] = steps[t]
      /\ steps' \in [Steps -> StepState]
  BY <1>1, <1>2, <1>4 DEF StepState
<1>6. (\A t \in Steps : t # s => ~IsOf(t)') => GateInv'
  BY <1>1, <1>2, <1>3, <1>5 DEF IInv, GateInv
<1>7. BacklogInv'
  <2>1. recorder.backlog < High /\ recorder.backlog <= High
    BY <1>3, HostAssumption DEF IInv, BacklogInv, FlowOk, Gated, NoRecorder, Recorder
  <2> QED BY <1>1, <2>1 DEF IInv, BacklogInv, FlowOk, NoRecorder
<1>8. CASE ~MustAsk(world)
  <2>1. UNCHANGED <<world, jobs>>
    BY <1>8 DEF StepAsk
  <2>2. HasJob' = HasJob /\ TheJob' = TheJob /\ Live' = Live /\ \A t \in Steps \cup {Loop} : IsOf(t)' = IsOf(t)
    BY <2>1 DEF HasJob, TheJob, Live, IsFor, IsOf
  <2>3. world.pending # "open"
    BY <1>1, <1>8 DEF MustAsk, Counted
  <2>4. WorldInv' /\ TimerInv'
    BY <1>1, <2>1 DEF IInv, WorldInv, Counted, TimerInv
  <2>5. RequestInv' /\ StepInv'
    BY <1>1, <1>2, <1>5, <2>1, <2>2, <2>3 DEF IInv, RequestInv, StepInv
  <2>6. TypeOK'
    BY <1>1, <1>5, <2>1 DEF IInv, TypeOK
  <2> QED BY <1>2, <1>6, <1>7, <2>2, <2>4, <2>5, <2>6 DEF IInv
<1>9. CASE MustAsk(world)
  <2> DEFINE j == DecideJob(s)
  <2>1. world.pending = "open" /\ world.asked = 0
    BY <1>1, <1>2, <1>9 DEF MustAsk, Counted, World
  <2>2. world' = [world EXCEPT !.asked = @ + 1] /\ jobs' = <<j>>
    BY <1>2, <1>9, <2>1, Joined DEF StepAsk, Asked
  <2>3. j \in Job /\ j.kind = "decide" /\ j.by = s /\ j.run = world.run /\ j.since = world.since /\ j.open /\ s # Loop
    BY <1>1, <2>1, AStep DEF DecideJob, Job, World
  <2> HIDE DEF j
  <2>4. HasJob' /\ TheJob' = j
    BY <2>2, Joined DEF HasJob, TheJob
  <2>5. /\ world' \in World /\ world'.run = world.run /\ world'.asked = 1 /\ world'.pending = "open"
        /\ world'.since = world.since /\ world'.unanswered = world.unanswered /\ world'.failed = world.failed
    BY <1>1, <2>1, <2>2 DEF World
  <2>6. WorldInv' /\ TimerInv'
    BY <1>1, <2>1, <2>5 DEF WorldInv, Counted, TimerInv
  <2>7. Live'
    BY <2>3, <2>4, <2>5 DEF Live, IsFor
  <2>8. RequestInv'
    BY <2>3, <2>4, <2>5, <2>7 DEF RequestInv, World
  <2>11. \A t \in Steps \cup {Loop} : IsOf(t)' <=> t = s
    BY <2>3, <2>4 DEF IsOf
  <2>9. StepInv'
    BY <1>1, <1>2, <1>5, <2>3, <2>4, <2>7, <2>11 DEF StepInv
  <2>10. TypeOK'
    <3>1. jobs' = <<jobs'[1]>> /\ jobs'[1] \in Job
      BY <2>2, <2>3, Joined
    <3> QED BY <1>1, <1>5, <2>5, <3>1 DEF IInv, TypeOK
  <2> QED BY <1>6, <1>7, <2>6, <2>8, <2>9, <2>10, <2>11 DEF IInv
<1> QED BY <1>8, <1>9

\* step(): its tick is neither refused nor failed, nor run past the gate.
LEMMA InvStepTick ==
  ASSUME IInv, NEW k \in 1..Len(jobs), NEW s \in Steps, StepTick(k, s)
  PROVE  /\ IInv' /\ ~Refuses(world) /\ ~Fails(world)
         /\ setting.atOnce => ~Gated(recorder, host.quotaPaused)
<1>1. /\ host \in Host /\ TimersOk(host, world.run) /\ UNCHANGED <<setting, space>>
      /\ steps \in [Steps -> StepState] /\ world \in World /\ Counted(world) /\ recorder \in Recorder /\ FlowOk(recorder)
  BY CountedWorld DEF IInv, TypeOK, TimerInv, BacklogInv, StepTick
<1>2. /\ k = 1 /\ HasJob /\ Without(k) = <<>> /\ jobs = <<TheJob>> /\ TheJob.kind = "resume" /\ IsOf(s)
      /\ steps[s].at = "tick" /\ ~Live /\ ~IsOf(Loop) /\ ~host.deciding
      /\ \A t \in Steps : t # s => ~IsOf(t) /\ steps[t].at \in {"idle", "gate"}
      /\ \A i \in 1..Len(host.waiters) : host.waiters[i] \in Steps /\ host.waiters[i] # s
      /\ world.pending = "open" => world.asked # 1
  BY StepTurn DEF StepTick
<1>3. (setting.atOnce => ~Gated(recorder, host.quotaPaused)) /\ world.pending # "open"
  BY <1>2 DEF IInv, GateInv, PastGate, StepInv
<1>4. ~Refuses(world) /\ ~Fails(world)
  BY <1>3, CountedWorld
<1>5. PICK asks \in BOOLEAN : (asks => world.run # 0) /\ world' = Ticked(world, 1, asks)
  BY <1>4 DEF StepTick
<1>6. world' \in World /\ Counted(world') /\ world'.run = world.run /\ world'.asked = 0
  <2>1. world.unanswered = 0
    BY <1>1, <1>3 DEF Counted
  <2> QED BY <1>1, <1>5, <2>1, TickedCounted
<1>7. steps' = [steps EXCEPT ![s] = [at |-> "top", left |-> @.left - 1]] /\ Sync(host, Collected(recorder, 1), jobs)
  BY <1>4 DEF StepTick
<1> DEFINE r == Collected(recorder, 1)
<1>8. Released(host, r) = <<>> /\ Synced(host, r).waiters = host.waiters /\ jobs \o <<>> = jobs
  <2>1. r.on = recorder.on /\ (Gated(recorder, host.quotaPaused) => Gated(r, host.quotaPaused))
    BY <1>1, CollectedFlow DEF Gated
  <2> QED BY <1>2, <2>1, StepReleases, Joined
<1>9. jobs' = jobs /\ host' = Synced(host, r) /\ recorder' = r
  BY <1>7, <1>8 DEF Sync
<1>10. FlowOk(r) /\ r.on = recorder.on /\ r.backlog = IF recorder.on THEN recorder.backlog + 1 ELSE recorder.backlog
  BY <1>1, CollectedFlow
<1> HIDE DEF r
<1>11. /\ host' \in Host /\ host'.waiters = host.waiters /\ host'.headless = host.headless /\ host'.done = host.done
       /\ ~host'.deciding /\ TimersOk(host', world.run) /\ host'.quotaPaused = host.quotaPaused
  <2>1. /\ host' \in Host /\ host'.headless = host.headless /\ host'.done = host.done /\ host'.mode = host.mode
        /\ host'.deciding = host.deciding /\ host'.running = host.running /\ host'.timers = host.timers
        /\ host'.quotaPaused = host.quotaPaused
    BY <1>1, <1>9, SyncedFields
  <2>2. host'.waiters = host.waiters
    BY <1>8, <1>9
  <2> QED BY <1>1, <1>2, <2>1, <2>2 DEF TimersOk
<1>12. WorldInv' /\ TimerInv'
  BY <1>6, <1>11 DEF WorldInv, Counted, TimerInv
<1>16. /\ steps'[s].at = "top" /\ steps' \in [Steps -> StepState]
       /\ \A t \in Steps : t # s => steps'[t] = steps[t]
  <2> DEFINE n == steps[s].left - 1
  <2>1. n \in Nat
    BY <1>1, <1>2 DEF StepState
  <2>2. steps' = [steps EXCEPT ![s] = [at |-> "top", left |-> n]]
    BY <1>7
  <2> HIDE DEF n
  <2> QED BY <1>1, <1>2, <2>1, <2>2 DEF StepState
<1>13. BacklogInv'
  <2>1. recorder.backlog \in Nat /\ recorder.backlog <= High /\ (~host.done => recorder.backlog < High)
    BY <1>1, <1>2 DEF Recorder, IInv, BacklogInv
  <2>2. recorder'.backlog <= recorder.backlog + 1 /\ recorder'.backlog \in Nat
    BY <1>9, <1>10, <2>1 DEF FlowOk, Recorder
  <2>3. \A t \in Steps : steps'[t].at # "tick"
    BY <1>2, <1>16
  <2>4. host'.headless => recorder'.on
    BY <1>9, <1>10, <1>11 DEF IInv, BacklogInv
  <2> QED BY <1>9, <1>10, <1>11, <2>1, <2>2, <2>3, <2>4, HostAssumption DEF BacklogInv
<1>14. HasJob' = HasJob /\ TheJob' = TheJob /\ ~Live' /\ \A t \in Steps \cup {Loop} : IsOf(t)' = IsOf(t)
  BY <1>2, <1>9 DEF HasJob, TheJob, Live, IsOf
<1>15. RequestInv'
  BY <1>2, <1>6, <1>14 DEF IInv, RequestInv
<1>17. StepInv' /\ GateInv'
  <2>1. StepInv'
    BY <1>2, <1>11, <1>14, <1>16 DEF StepInv
  <2>2. host'.waiters # <<>> => Gated(recorder', host'.quotaPaused)
    <3>1. Gated(recorder, host.quotaPaused) => Gated(r, host.quotaPaused)
      BY <1>1, CollectedFlow DEF Gated, r
    <3> QED BY <1>9, <1>11, <3>1 DEF IInv, GateInv
  <2>3. \A t \in Steps : ~PastGate(t)'
    BY <1>2, <1>14, <1>16 DEF PastGate
  <2> QED BY <1>2, <1>11, <1>14, <1>16, <2>1, <2>2, <2>3 DEF IInv, GateInv
<1>18. TypeOK'
  BY <1>1, <1>6, <1>9, <1>10, <1>11, <1>16 DEF IInv, TypeOK, FlowOk
<1> QED BY <1>3, <1>4, <1>12, <1>13, <1>15, <1>17, <1>18 DEF IInv

(***************************************************************************)
(* However many callers meet                                               *)
(***************************************************************************)
HostOk(h) == h \in Host /\ (h.done => ~h.running)

\* No function of the host makes a run play that is over.
LEMMA HostStaysOk ==
  ASSUME NEW h, HostOk(h)
  PROVE  /\ HostOk(Cleared(h)) /\ Cleared(h).running = h.running /\ Cleared(h).done = h.done
         /\ HostOk(Paused(h)) /\ ~Paused(h).running
         /\ HostOk(Played(h)) /\ HostOk(Finished(h)) /\ HostOk(Decided(h))
         /\ \A r : HostOk(Synced(h, r)) /\ Synced(h, r).done = h.done /\ Synced(h, r).running = h.running
<1>1. h \in Host
  BY DEF HostOk
<1>2. HostOk(Cleared(h)) /\ Cleared(h).running = h.running /\ Cleared(h).done = h.done
  BY <1>1, HostMoves DEF HostOk, Keeps
<1>3. HostOk(Paused(h)) /\ ~Paused(h).running
  BY <1>1, HostMoves DEF HostOk, Keeps
<1>4. HostOk(Played(h))
  BY <1>1, HostMoves DEF HostOk, Keeps, Played
<1>5. HostOk(Finished(h))
  <2> DEFINE p == Paused(h)
  <2>1. p \in Host /\ ~p.running /\ Finished(h) = [p EXCEPT !.done = TRUE]
    BY <1>3, Zenon DEF HostOk, Finished
  <2> HIDE DEF p
  <2> QED BY <2>1 DEF HostOk, Host
<1>6. HostOk(Decided(h))
  BY <1>1 DEF HostOk, Host, Decided
<1>7. ASSUME NEW r PROVE HostOk(Synced(h, r)) /\ Synced(h, r).done = h.done /\ Synced(h, r).running = h.running
  <2>1. Synced(h, r) \in Host /\ Synced(h, r).done = h.done /\ Synced(h, r).running = h.running
    BY <1>1, SyncedFields
  <2> QED BY <2>1 DEF HostOk
<1> QED BY <1>2, <1>3, <1>4, <1>5, <1>6, <1>7

\* Ticks move a world on by their number, whatever its count of answers is ...
LEMMA AnyTicked ==
  ASSUME NEW w \in AnyWorld, NEW n \in Nat, NEW asks \in BOOLEAN
  PROVE  LET t == Ticked(w, n, asks) IN
         t \in AnyWorld /\ t.run = w.run /\ t.tick = w.tick + n
<1>1. CASE n = 0
  BY <1>1 DEF Ticked, AnyWorld
<1>2. CASE n # 0
  <2> DEFINE p == IF asks THEN "open" ELSE "none"
             c == IF asks THEN w.tick + n ELSE 0
             u == IF asks THEN w.unanswered + 1 ELSE w.unanswered
  <2>1. p \in {"none", "open"} /\ c \in Nat /\ u \in Int /\ w.tick + n \in Nat
    BY DEF AnyWorld
  <2> DEFINE x == [w EXCEPT !.tick = w.tick + n, !.pending = p, !.since = c]
  <2>2. Ticked(w, n, asks) = [x EXCEPT !.asked = 0, !.unanswered = u]
    BY <1>2, Zenon DEF Ticked
  <2>3. x \in AnyWorld /\ x.run = w.run /\ x.tick = w.tick + n
    <3> HIDE DEF p, c
    <3> QED BY <2>1 DEF AnyWorld
  <2> DEFINE y == [x EXCEPT !.asked = 0]
  <2> HIDE DEF p, c, u, x
  <2>4. y \in AnyWorld /\ y.run = w.run /\ y.tick = w.tick + n
    BY <2>3 DEF AnyWorld
  <2>5. Ticked(w, n, asks) = [y EXCEPT !.unanswered = u]
    BY <2>2
  <2> HIDE DEF y
  <2>6. [y EXCEPT !.unanswered = u] \in AnyWorld
    BY <2>1, <2>4 DEF AnyWorld
  <2>7. [y EXCEPT !.unanswered = u].run = y.run /\ [y EXCEPT !.unanswered = u].tick = y.tick
    BY <2>4 DEF AnyWorld
  <2> QED BY <2>4, <2>5, <2>6, <2>7
<1> QED BY <1>1, <1>2

\* ... and minds that are asked, answer or fail leave its tick alone.
LEMMA AnyAsked ==
  ASSUME NEW w \in AnyWorld, NEW j
  PROVE  \A x \in {Asked(w), Answered(w, j), Unanswered(w, j)} :
           x \in AnyWorld /\ x.run = w.run /\ x.tick = w.tick
<1>1. Asked(w) \in AnyWorld /\ Asked(w).run = w.run /\ Asked(w).tick = w.tick
  BY DEF Asked, AnyWorld
<1>2. Unanswered(w, j) \in AnyWorld /\ Unanswered(w, j).run = w.run /\ Unanswered(w, j).tick = w.tick
  BY DEF Unanswered, AnyWorld
<1>3. Answered(w, j) \in AnyWorld /\ Answered(w, j).run = w.run /\ Answered(w, j).tick = w.tick
  <2>1. CASE ~IsFor(j, w)
    BY <2>1 DEF Answered
  <2>2. CASE IsFor(j, w)
    <3> DEFINE p == IF w.pending = "open" /\ w.since = j.since THEN "answered" ELSE w.pending
    <3>1. p \in {"none", "open", "answered"} /\ w.unanswered - 1 \in Int
      BY DEF AnyWorld
    <3>2. Answered(w, j) = [w EXCEPT !.unanswered = w.unanswered - 1, !.pending = p]
      BY <2>2 DEF Answered
    <3> HIDE DEF p
    <3> QED BY <3>1, <3>2 DEF AnyWorld
  <2> QED BY <2>1, <2>2
<1> QED BY <1>1, <1>2, <1>3

\* A poll ticks through an open gate, and only a run that plays.
LEMMA AnyPoll ==
  ASSUME AnyInv, Polls
  PROVE  /\ HostOk(host') /\ world' \in AnyWorld /\ UNCHANGED <<setting, steps>> /\ (met => met')
         /\ world'.run = world.run
         /\ world'.tick > world.tick => ~Gated(recorder, host.quotaPaused) /\ ~host.done
<1>1. HostOk(host) /\ host \in Host /\ world \in AnyWorld /\ world.tick \in Int
  BY DEF AnyInv, HostOk, AnyWorld
<1>2. ASSUME NEW due \in 0..MaxPerPoll, Poll(due)
      PROVE  /\ HostOk(host') /\ world' \in AnyWorld /\ UNCHANGED <<setting, steps>> /\ (met => met')
             /\ world'.run = world.run
             /\ world'.tick > world.tick => ~Gated(recorder, host.quotaPaused) /\ ~host.done
  <2> DEFINE held  == host.deciding \/ Gated(recorder, host.quotaPaused)
             stuck == held \/ ~DriverReady \/ Refuses(world) \/ Fails(world)
             throws(ran) == ran < due /\ ~held /\ (ran = 0 => DriverReady) /\ (ran > 0 => host.mode = "realtime")
             w(ran, asks) == Ticked(world, ran, asks)
             h(ran, asks) == [host EXCEPT !.deciding = @ \/ Awaits(w(ran, asks))]
             r(ran) == IF ran > 0 THEN Collected(recorder, ran) ELSE recorder
  <2>1. host.running /\ UNCHANGED <<setting, steps>>
    BY <1>2 DEF Poll
  <2>2. PICK ran \in 0..due, asks \in BOOLEAN :
          /\ stuck => ran = 0
          /\ IF throws(ran)
             THEN /\ host' = Cleared(host)
                  /\ world' = [w(ran, asks) EXCEPT !.failed = @ \/ Fails(w(ran, asks))]
                  /\ UNCHANGED <<recorder, jobs, met>>
             ELSE /\ host' = Synced(h(ran, asks), r(ran)) /\ recorder' = r(ran)
                  /\ AwaitDecisions(w(ran, asks), jobs \o Released(host, r(ran)))
    BY <1>2, Zenon DEF Poll
  <2> DEFINE v == w(ran, asks)
  <2>3. v \in AnyWorld /\ v.run = world.run /\ v.tick = world.tick + ran /\ ran \in Nat
    BY <1>1, HostAssumption, AnyTicked
  <2>4. world.tick + ran > world.tick => ran # 0
    BY <1>1, <2>3
  <2>5. ~host.done
    BY <1>1, <2>1 DEF HostOk
  <2>6. CASE throws(ran)
    <3>1. host' = Cleared(host) /\ world' = [v EXCEPT !.failed = @ \/ Fails(v)] /\ met' = met
      BY <2>2, <2>6
    <3> DEFINE f == v.failed \/ Fails(v)
    <3>2. f \in BOOLEAN /\ world' = [v EXCEPT !.failed = f]
      BY <3>1
    <3> HIDE DEF v, f
    <3>3. world' \in AnyWorld /\ world'.run = v.run /\ world'.tick = v.tick
      BY <2>3, <3>2 DEF AnyWorld
    <3> QED BY <1>1, <2>1, <2>2, <2>3, <2>4, <2>5, <3>1, <3>3, HostStaysOk
  <2>7. CASE ~throws(ran)
    <3>1. host' = Synced(h(ran, asks), r(ran)) /\ AwaitDecisions(v, jobs \o Released(host, r(ran)))
      BY <2>2, <2>7
    <3> DEFINE g == h(ran, asks)
    <3>2. Awaits(v) \in BOOLEAN
      BY DEF Awaits
    <3> HIDE DEF v
    <3>3. world' \in {v, Asked(v)} /\ (met => met')
      BY <3>1 DEF AwaitDecisions, Meet
    <3>4. world' \in AnyWorld /\ world'.run = v.run /\ world'.tick = v.tick
      BY <2>3, <3>3, AnyAsked
    <3>5. HostOk(g)
      BY <1>1, <3>2, AwaitingHost DEF HostOk, v
    <3> HIDE DEF g
    <3>6. HostOk(host')
      BY <3>1, <3>5, HostStaysOk DEF g
    <3> QED BY <2>1, <2>2, <2>3, <2>4, <2>5, <3>3, <3>4, <3>6
  <2> QED BY <2>6, <2>7
<1>3. ASSUME HeadlessPoll
      PROVE  /\ HostOk(host') /\ world' \in AnyWorld /\ UNCHANGED <<setting, steps>> /\ (met => met')
             /\ world'.run = world.run
             /\ world'.tick > world.tick => ~Gated(recorder, host.quotaPaused) /\ ~host.done
  <2> DEFINE w(ran, asks) == Ticked(world, ran, asks)
             r(ran) == Collected(recorder, ran)
             h(ran, asks) == [Synced(host, r(ran)) EXCEPT !.deciding = @ \/ Awaits(w(ran, asks))]
  <2>1. host.running /\ UNCHANGED <<setting, steps>>
    BY <1>3 DEF HeadlessPoll
  <2>2. CASE HeadlessThrows
    <3> DEFINE f == world.failed \/ Fails(world)
    <3>1. f \in BOOLEAN /\ world' = [world EXCEPT !.failed = f] /\ host' = Cleared(host) /\ met' = met
      BY <2>2 DEF HeadlessThrows
    <3> HIDE DEF f
    <3>2. world' \in AnyWorld /\ world'.run = world.run /\ world'.tick = world.tick
      BY <1>1, <3>1 DEF AnyWorld
    <3> QED BY <1>1, <2>1, <3>1, <3>2, HostStaysOk
  <2>3. CASE ~HeadlessThrows
    <3>1. PICK ran \in 0..MaxPerPoll, asks \in BOOLEAN :
            /\ ran > 0 <=> MayStep
            /\ AwaitDecisions(w(ran, asks), jobs \o Released(host, r(ran)))
            /\ host' \in {Finished(h(ran, asks)), h(ran, asks)}
      <4>1. PICK ran \in 0..MaxPerPoll, asks \in BOOLEAN : HeadlessRuns(ran, asks)
        BY <1>3, <2>3 DEF HeadlessPoll
      <4>2. /\ ran > 0 <=> MayStep
            /\ AwaitDecisions(w(ran, asks), jobs \o Released(host, r(ran)))
            /\ host' = Finished(h(ran, asks)) \/ host' = h(ran, asks)
        BY <4>1, Zenon DEF HeadlessRuns
      <4> QED BY <4>2, Zenon
    <3> DEFINE v == w(ran, asks)  y == Synced(host, r(ran))  g == h(ran, asks)
    <3>2. v \in AnyWorld /\ v.run = world.run /\ v.tick = world.tick + ran /\ ran \in Nat
      BY <1>1, HostAssumption, AnyTicked
    <3>3. world.tick + ran > world.tick => ran > 0
      BY <1>1, <3>2
    <3>4. ran > 0 => ~Gated(recorder, host.quotaPaused) /\ ~host.done
      BY <1>1, <2>1, <3>1 DEF HostOk, MayStep
    <3>5. Awaits(v) \in BOOLEAN /\ HostOk(y)
      BY <1>1, HostStaysOk DEF Awaits
    <3>6. g = [y EXCEPT !.deciding = @ \/ Awaits(v)]
      BY Zenon
    <3>7. AwaitDecisions(v, jobs \o Released(host, r(ran))) /\ host' \in {Finished(g), g}
      BY <3>1
    <3> HIDE DEF v, y, g
    <3>8. world' \in {v, Asked(v)} /\ (met => met')
      BY <3>7 DEF AwaitDecisions, Meet
    <3>9. world' \in AnyWorld /\ world'.run = v.run /\ world'.tick = v.tick
      BY <3>2, <3>8, AnyAsked
    <3>10. HostOk(g)
      BY <3>5, <3>6, AwaitingHost DEF HostOk
    <3>11. HostOk(host')
      BY <3>7, <3>10, HostStaysOk
    <3> QED BY <2>1, <3>2, <3>3, <3>4, <3>8, <3>9, <3>11
  <2> QED BY <2>2, <2>3
<1> QED BY <1>2, <1>3 DEF Polls

\* A job ticks the world as a step message only.
LEMMA AnyJob ==
  ASSUME AnyInv, Jobs
  PROVE  /\ HostOk(host') /\ world' \in AnyWorld /\ UNCHANGED setting /\ (met => met')
         /\ steps' \in [Steps -> [at : {"idle", "top", "gate", "ask", "tick"}, left : Int]]
         /\ world'.tick > world.tick =>
              \E k \in 1..Len(jobs), s \in Steps : StepTick(k, s) /\ steps[s].at = "tick" /\ steps'[s].at = "top"
<1>1. /\ HostOk(host) /\ host \in Host /\ world \in AnyWorld /\ world.tick \in Int
      /\ steps \in [Steps -> [at : {"idle", "top", "gate", "ask", "tick"}, left : Int]]
  BY DEF AnyInv, HostOk, AnyWorld
<1>2. PICK k \in 1..Len(jobs) :
        \/ MindsAnswer(k) \/ MindsFail(k)
        \/ \E s \in Steps : StepTop(k, s) \/ StepAsk(k, s) \/ StepTick(k, s)
  BY DEF Jobs
<1>3. ~(world.tick > world.tick)
  BY <1>1
<1>4. CASE MindsAnswer(k)
  <2>1. world' = Answered(world, jobs[k]) /\ host' \in {host, Decided(host)} /\ UNCHANGED <<setting, steps, met>>
    BY <1>4 DEF MindsAnswer
  <2>2. world' \in AnyWorld /\ world'.tick = world.tick
    BY <1>1, <2>1, AnyAsked
  <2>3. HostOk(host')
    BY <1>1, <2>1, HostStaysOk
  <2> QED BY <1>1, <1>3, <2>1, <2>2, <2>3
<1>5. CASE MindsFail(k)
  <2>1. world' = Unanswered(world, jobs[k]) /\ host' \in {host, Paused(Decided(host))} /\ UNCHANGED <<setting, met>>
        /\ (UNCHANGED steps \/ steps' = [steps EXCEPT ![jobs[k].by] = IdleStep])
    BY <1>5 DEF MindsFail
  <2>2. steps' \in [Steps -> [at : {"idle", "top", "gate", "ask", "tick"}, left : Int]]
    BY <1>1, <2>1 DEF IdleStep
  <2>3. world' \in AnyWorld /\ world'.tick = world.tick
    BY <1>1, <2>1, AnyAsked
  <2>4. HostOk(Decided(host))
    BY <1>1, HostStaysOk
  <2>5. HostOk(host')
    BY <1>1, <2>1, <2>4, HostStaysOk
  <2> QED BY <1>3, <2>1, <2>2, <2>3, <2>5
<1>6. ASSUME NEW s \in Steps, StepTop(k, s)
      PROVE  /\ HostOk(host') /\ UNCHANGED <<setting, world>> /\ (met => met')
             /\ steps' \in [Steps -> [at : {"idle", "top", "gate", "ask", "tick"}, left : Int]]
  <2>1. /\ UNCHANGED <<setting, world>>
        /\ steps' \in {[steps EXCEPT ![s] = IdleStep], [steps EXCEPT ![s].at = "gate"], [steps EXCEPT ![s].at = "ask"]}
        /\ host' \in {host, Synced(host, recorder), [host EXCEPT !.waiters = Append(@, s)]}
        /\ met => met'
    BY <1>6 DEF StepTop, Sync, Meet
  <2>2. steps' \in [Steps -> [at : {"idle", "top", "gate", "ask", "tick"}, left : Int]]
    BY <1>1, <2>1 DEF IdleStep
  <2>3. HostOk([host EXCEPT !.waiters = Append(@, s)])
    <3> DEFINE q == Append(host.waiters, s)
    <3>1. q \in Seq(Steps)
      BY <1>1 DEF Host
    <3> HIDE DEF q
    <3>2. HostOk([host EXCEPT !.waiters = q])
      BY <1>1, <3>1 DEF HostOk, Host
    <3> QED BY <3>2 DEF q
  <2>4. HostOk(Synced(host, recorder))
    BY <1>1, HostStaysOk
  <2>5. HostOk(host')
    BY <1>1, <2>1, <2>3, <2>4
  <2> QED BY <2>1, <2>2, <2>5
<1>7. ASSUME NEW s \in Steps, StepAsk(k, s)
      PROVE  /\ UNCHANGED <<setting, host, met>> /\ world' \in AnyWorld /\ world'.tick = world.tick
             /\ steps' \in [Steps -> [at : {"idle", "top", "gate", "ask", "tick"}, left : Int]]
  <2>1. /\ UNCHANGED <<setting, host, met>> /\ world' \in {world, Asked(world)}
        /\ steps' = [steps EXCEPT ![s].at = "tick"]
    BY <1>7 DEF StepAsk
  <2>2. steps' \in [Steps -> [at : {"idle", "top", "gate", "ask", "tick"}, left : Int]]
    BY <1>1, <2>1
  <2> QED BY <1>1, <2>1, <2>2, AnyAsked
<1>8. ASSUME NEW s \in Steps, StepTick(k, s)
      PROVE  /\ HostOk(host') /\ world' \in AnyWorld /\ UNCHANGED setting /\ (met => met')
             /\ steps' \in [Steps -> [at : {"idle", "top", "gate", "ask", "tick"}, left : Int]]
             /\ world'.tick > world.tick => steps[s].at = "tick" /\ steps'[s].at = "top"
  <2>1. UNCHANGED setting /\ steps[s].at = "tick"
    BY <1>8 DEF StepTick, Turn
  <2>2. CASE Refuses(world) \/ Fails(world)
    <3>1. /\ world' = [world EXCEPT !.failed = @ \/ Fails(world)] /\ steps' = [steps EXCEPT ![s] = IdleStep]
          /\ UNCHANGED <<host, met>>
      BY <1>8, <2>2 DEF StepTick
    <3> DEFINE f == world.failed \/ Fails(world)
    <3>2. f \in BOOLEAN /\ world' = [world EXCEPT !.failed = f]
      BY <3>1
    <3> HIDE DEF f
    <3>3. world' \in AnyWorld /\ world'.tick = world.tick
      BY <1>1, <3>2 DEF AnyWorld
    <3>4. steps' \in [Steps -> [at : {"idle", "top", "gate", "ask", "tick"}, left : Int]]
      BY <1>1, <3>1 DEF IdleStep
    <3> QED BY <1>1, <1>3, <2>1, <3>1, <3>3, <3>4
  <2>3. CASE ~(Refuses(world) \/ Fails(world))
    <3>1. PICK asks \in BOOLEAN : world' = Ticked(world, 1, asks)
      BY <1>8, <2>3 DEF StepTick
    <3> DEFINE n == steps[s].left - 1
    <3>2. /\ steps' = [steps EXCEPT ![s] = [at |-> "top", left |-> n]]
          /\ host' = Synced(host, Collected(recorder, 1)) /\ (met => met')
      BY <1>8, <2>3 DEF StepTick, Sync, Meet
    <3>3. n \in Int
      BY <1>1
    <3> HIDE DEF n
    <3>4. steps'[s].at = "top" /\ steps' \in [Steps -> [at : {"idle", "top", "gate", "ask", "tick"}, left : Int]]
      BY <1>1, <3>2, <3>3
    <3>5. world' \in AnyWorld
      BY <1>1, <3>1, AnyTicked
    <3> QED BY <1>1, <2>1, <3>2, <3>4, <3>5, HostStaysOk
  <2> QED BY <2>2, <2>3
<1>9. CASE \E s \in Steps : StepTop(k, s)
  BY <1>1, <1>3, <1>6, <1>9
<1>10. CASE \E s \in Steps : StepAsk(k, s)
  BY <1>1, <1>3, <1>7, <1>10
<1>11. CASE \E s \in Steps : StepTick(k, s)
  BY <1>8, <1>11
<1> QED BY <1>2, <1>4, <1>5, <1>9, <1>10, <1>11

\* Messages tick no world.
LEMMA AnyMessage ==
  ASSUME AnyInv, Researcher \/ Storage
  PROVE  /\ HostOk(host') /\ UNCHANGED setting /\ (met => met')
         /\ steps' \in [Steps -> [at : {"idle", "top", "gate", "ask", "tick"}, left : Int]]
         /\ world' = world \/ world' = NewWorld(world.run + 1)
<1>1. /\ HostOk(host) /\ host \in Host /\ host.running \in BOOLEAN /\ setting \in Settings
      /\ steps \in [Steps -> [at : {"idle", "top", "gate", "ask", "tick"}, left : Int]]
  BY DEF AnyInv, HostOk, Host
<1> DEFINE p == IF host.running THEN Paused(host) ELSE host
<1>2. HostOk(p) /\ ~p.running
  BY <1>1, HostStaysOk
<1>3. CASE \E recorded \in BOOLEAN, headless \in BOOLEAN, mode \in setting.modes : Load(recorded, headless, mode)
  <2>1. PICK recorded \in BOOLEAN, headless \in BOOLEAN, mode \in setting.modes : Load(recorded, headless, mode)
    BY <1>3
  <2>2. /\ UNCHANGED setting /\ (met => met') /\ world' = NewWorld(world.run + 1)
        /\ steps' = [s \in Steps |-> IF steps[s].at = "gate" THEN IdleStep ELSE steps[s]]
    BY <2>1 DEF Load
  <2>3. host' = [p EXCEPT !.waiters = <<>>, !.quotaPaused = FALSE, !.wasPlaying = FALSE,
                          !.mode = mode, !.headless = headless, !.done = FALSE]
    BY <2>1, Zenon DEF Load
  <2>4. mode \in {"lockstep", "realtime"} /\ <<>> \in Seq(Steps)
    BY <1>1, HostAssumption
  <2> HIDE DEF p
  <2>5. HostOk(host')
    BY <1>2, <2>3, <2>4 DEF HostOk, Host
  <2> QED BY <1>1, <2>2, <2>5 DEF IdleStep
<1>4. CASE Play \/ Pause \/ Rejected
  <2>1. host' \in {Played(host), Paused(host)} /\ UNCHANGED <<setting, world, steps, met>>
    BY <1>4 DEF Play, Pause, Rejected
  <2> QED BY <1>1, <2>1, HostStaysOk
<1>5. CASE Stop
  <2>1. host' = Finished(host) /\ UNCHANGED <<setting, world, steps, met>>
    BY <1>5 DEF Stop
  <2> QED BY <1>1, <2>1, HostStaysOk
<1>6. CASE LiveView
  <2> DEFINE g == IF host.running THEN Rearmed(host) ELSE host
  <2>1. host' = [g EXCEPT !.headless = FALSE] /\ UNCHANGED <<setting, world, steps, met>>
    BY <1>6, Zenon DEF LiveView
  <2>2. HostOk(g)
    <3> DEFINE c == Cleared(host)
    <3>1. HostOk(c) /\ Rearmed(host) = [c EXCEPT !.timers = c.timers + 1]
      BY <1>1, HostStaysOk, Zenon DEF Rearmed
    <3> HIDE DEF c
    <3>2. HostOk(Rearmed(host))
      BY <3>1 DEF HostOk, Host
    <3> QED BY <1>1, <3>2
  <2> HIDE DEF g
  <2>3. HostOk(host')
    BY <2>1, <2>2 DEF HostOk, Host
  <2> QED BY <1>1, <2>1, <2>3
<1>7. CASE \E mode \in setting.modes : SetMode(mode)
  <2>1. PICK mode \in setting.modes : host' = [host EXCEPT !.mode = mode] /\ UNCHANGED <<setting, world, steps, met>>
    BY <1>7 DEF SetMode
  <2>2. mode \in {"lockstep", "realtime"}
    BY <1>1, HostAssumption
  <2>3. HostOk(host')
    BY <1>1, <2>1, <2>2 DEF HostOk, Host
  <2> QED BY <1>1, <2>1, <2>3
<1>8. CASE \E s \in Steps, count \in setting.counts : StepMessage(s, count)
  <2>1. PICK s \in Steps, count \in setting.counts : StepMessage(s, count)
    BY <1>8
  <2>2. /\ host' = p /\ UNCHANGED <<setting, world>> /\ (met => met') /\ count \in Nat
        /\ steps' = [steps EXCEPT ![s] = [at |-> "top", left |-> count]]
    BY <1>1, <2>1, HostAssumption DEF StepMessage, Meet
  <2>3. steps' \in [Steps -> [at : {"idle", "top", "gate", "ask", "tick"}, left : Int]]
    BY <1>1, <2>2
  <2> QED BY <1>2, <2>2, <2>3
<1>9. CASE HeaderStored
  <2>1. PICK r : host' = Synced(host, r) /\ UNCHANGED <<setting, world, steps>> /\ (met => met')
    BY <1>9 DEF HeaderStored, Sync, Meet
  <2> QED BY <1>1, <2>1, HostStaysOk
<1>10. CASE \E n \in 1..(High + MaxPerPoll) : Persisted(n)
  <2>1. PICK r : host' = Synced(host, r) /\ UNCHANGED <<setting, world, steps>> /\ (met => met')
    BY <1>10 DEF Persisted, Sync, Meet
  <2> QED BY <1>1, <2>1, HostStaysOk
<1>11. CASE QuotaPaused
  <2>1. /\ UNCHANGED <<setting, world, steps, met>>
        /\ host' = host \/ host' = [p EXCEPT !.quotaPaused = TRUE, !.wasPlaying = host.running]
    BY <1>11, Zenon DEF QuotaPaused
  <2> HIDE DEF p
  <2>2. HostOk([p EXCEPT !.quotaPaused = TRUE, !.wasPlaying = host.running])
    BY <1>1, <1>2 DEF HostOk, Host
  <2> QED BY <1>1, <2>1, <2>2
<1>12. CASE QuotaOk
  <2> DEFINE h == [host EXCEPT !.quotaPaused = FALSE, !.wasPlaying = FALSE]
             g == IF host.wasPlaying THEN Played(h) ELSE h
  <2>1. /\ UNCHANGED <<setting, world, steps>> /\ (met => met')
        /\ host' = host \/ host' = Synced(g, recorder)
    BY <1>12, Zenon DEF QuotaOk, Sync, Meet
  <2>2. HostOk(h)
    BY <1>1 DEF HostOk, Host
  <2> HIDE DEF h
  <2>3. HostOk(g)
    BY <2>2, HostStaysOk
  <2> QED BY <1>1, <2>1, <2>3, HostStaysOk
<1> HIDE DEF p
<1>13. CASE Researcher
  BY <1>3, <1>4, <1>5, <1>6, <1>7, <1>8, <1>13 DEF Researcher
<1>14. CASE Storage
  BY <1>4, <1>9, <1>10, <1>11, <1>12, <1>14 DEF Storage
<1> QED BY <1>13, <1>14

\* No step forgets that callers met, makes a run play that is over or ends a type.
LEMMA AnyNext ==
  ASSUME AnyInv, Next
  PROVE  AnyInv' /\ (met => met')
<1>1. CASE Researcher \/ Storage
  <2>1. world.run + 1 \in Nat /\ world.run + 1 # 0
    BY DEF AnyInv, AnyWorld
  <2>2. NewWorld(world.run + 1) \in AnyWorld
    BY <2>1 DEF NewWorld, AnyWorld
  <2> QED BY <1>1, <2>2, AnyMessage DEF AnyInv, HostOk
<1>2. CASE Polls
  BY <1>2, AnyPoll DEF AnyInv, HostOk
<1>3. CASE Jobs
  BY <1>3, AnyJob DEF AnyInv, HostOk
<1> QED BY <1>1, <1>2, <1>3 DEF Next

(***************************************************************************)
(* The theorems                                                            *)
(***************************************************************************)
\* Every step preserves the invariant, until callers meet.
LEMMA InvNext ==
  ASSUME IInv, ~met', Next
  PROVE  IInv'
<1>1. CASE Researcher
  BY <1>1, InvLoad, InvPlay, InvStop, InvLiveView, InvSetMode, InvStepMessage DEF Researcher
<1>2. CASE Storage
  BY <1>2, InvHeaderStored, InvQuotaPaused, InvQuotaOk, InvPlay, InvPersisted DEF Storage
<1>3. CASE Polls
  BY <1>3, InvPoll, InvHeadlessPoll DEF Polls
<1>4. CASE Jobs
  BY <1>4, InvMindsAnswer, InvMindsFail, InvStepTop, InvStepAsk, InvStepTick DEF Jobs
<1> QED BY <1>1, <1>2, <1>3, <1>4 DEF Next

\* So does a stutter.
LEMMA InvStutter ==
  ASSUME HostInv, UNCHANGED vars
  PROVE  HostInv'
<1>1. UNCHANGED <<setting, host, world, recorder, steps, jobs, space, met>>
  BY DEF vars
<1>2. AnyInv'
  BY <1>1 DEF HostInv, AnyInv
<1>3. ASSUME IInv PROVE IInv'
  <2>1. TypeOK' /\ TimerInv'
    BY <1>1, <1>3 DEF IInv, TypeOK, TimerInv, TimersOk
  <2> QED BY <1>1, <1>3, <2>1, SameJobs, SameGate, SameBacklog DEF IInv
<1> QED BY <1>1, <1>2, <1>3 DEF HostInv

\* The worker starts in the invariant.
LEMMA HostInit ==
  ASSUME Init
  PROVE  HostInv
<1>1. IInv
  BY InvInit
<1>2. world \in AnyWorld
  BY DEF Init, NewWorld, AnyWorld
<1>3. steps \in [Steps -> [at : {"idle", "top", "gate", "ask", "tick"}, left : Int]]
  BY DEF Init, IdleStep
<1> QED BY <1>1, <1>2, <1>3 DEF HostInv, AnyInv, IInv, TypeOK, TimerInv, TimersOk

\* The invariant holds: until two callers meet, what the host does in one
\* callback agrees with what it waits for in the others.
THEOREM Invariant == Spec => []HostInv
<1>1. ASSUME HostInv, Next PROVE HostInv'
  BY <1>1, AnyNext, InvNext DEF HostInv
<1> QED BY <1>1, HostInit, InvStutter, PTL DEF Spec

\* The backlog never exceeds the high mark by more than one poll's ticks, though
\* no record is dropped (RunRecorder's marks and the gate of sim-host.ts), before
\* callers meet.
THEOREM BacklogStaysBounded == Spec => []BacklogIsBounded
<1>1. HostInv => BacklogIsBounded
  BY DEF HostInv, IInv, BacklogInv, BacklogIsBounded
<1> QED BY <1>1, Invariant, PTL

\* A lockstep run that plays is driven by exactly one timer and a paused one by
\* none, whatever plays, pauses, loads, steps, quota messages and failures come,
\* before callers meet.
THEOREM OneTimer == Spec => []RunningHasOneTimer
<1>1. HostInv => RunningHasOneTimer
  BY DEF HostInv, IInv, TypeOK, TimerInv, TimersOk, RunningHasOneTimer
<1> QED BY <1>1, Invariant, PTL

\* Minds are asked once for a request, late answers touch no other run, and the
\* counter the lockstep wait reads is exact, before callers meet.
THEOREM RequestsCounted == Spec => []RequestsAreCounted
<1>1. HostInv => RequestsAreCounted
  BY DEF HostInv, IInv, WorldInv, Counted, RequestsAreCounted
<1> QED BY <1>1, Invariant, PTL

\* A tick is a poll's, of a run that plays and through an open gate, or a step
\* message's.
LEMMA TickWho ==
  ASSUME AnyInv, Next, Ticks
  PROVE  \/ ~Gated(recorder, host.quotaPaused) /\ ~host.done
         \/ \E k \in 1..Len(jobs), s \in Steps : StepTick(k, s) /\ steps[s].at = "tick" /\ steps'[s].at = "top"
<1>1. world'.run = world.run /\ world'.tick > world.tick /\ world.run \in Nat /\ ~(world.tick > world.tick)
  BY DEF Ticks, AnyInv, AnyWorld
<1>2. CASE Researcher \/ Storage
  BY <1>1, <1>2, AnyMessage DEF NewWorld
<1>3. CASE Polls
  BY <1>1, <1>3, AnyPoll
<1>4. CASE Jobs
  BY <1>1, <1>4, AnyJob
<1> QED BY <1>2, <1>3, <1>4 DEF Next

\* Whatever callers there are, the loop runs no tick before the header is stored,
\* while the writer is behind, while the storage is full or after the end. A step
\* message does neither before callers meet, but for minds that take their time,
\* and ends in step_failed only after.
THEOREM TicksWhenItMay == Spec => HostTicksWhenItMay
<1> DEFINE A == /\ Ticks /\ ~MayTick => StepTicks /\ (met \/ ~setting.atOnce)
                /\ Ticks /\ host.done => StepTicks
                /\ \A k \in 1..Len(jobs), s \in Steps : StepTick(k, s) /\ ~met => ~Refuses(world) /\ ~Fails(world)
<1>1. ASSUME HostInv, Next PROVE A
  <2>1. \A k \in 1..Len(jobs), s \in Steps : StepTick(k, s) /\ ~met =>
          ~Refuses(world) /\ ~Fails(world) /\ (setting.atOnce => ~Gated(recorder, host.quotaPaused))
    BY <1>1, InvStepTick DEF HostInv
  <2>2. MayTick <=> ~Gated(recorder, host.quotaPaused)
    BY DEF MayTick, Gated
  <2>3. ASSUME Ticks
        PROVE  \/ MayTick /\ ~host.done
               \/ StepTicks /\ (MayTick \/ met \/ ~setting.atOnce)
    <3>1. CASE ~Gated(recorder, host.quotaPaused) /\ ~host.done
      BY <2>2, <3>1
    <3>2. CASE \E k \in 1..Len(jobs), s \in Steps : StepTick(k, s) /\ steps[s].at = "tick" /\ steps'[s].at = "top"
      BY <2>1, <2>2, <3>2 DEF StepTicks
    <3> QED BY <1>1, <2>3, <3>1, <3>2, TickWho DEF HostInv
  <2> QED BY <2>1, <2>3
<1>2. HostInv /\ [Next]_vars => [A]_vars
  BY <1>1
<1> HIDE DEF A
<1>3. Spec => [][A]_vars
  BY <1>2, Invariant, PTL DEF Spec
<1> QED BY <1>3 DEF HostTicksWhenItMay, A
=============================================================================
