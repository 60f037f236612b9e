------------------------------ MODULE SimHost ------------------------------
(***************************************************************************)
(* The host of the simulation worker, apps/lab/src/sim/sim-host.ts: the    *)
(* timer that drives the run, the researcher's controls, the wait for      *)
(* minds, and the gate that holds a recorded run back until its header is  *)
(* stored, while the writer is behind and while the storage is full.       *)
(*                                                                         *)
(* The worker is single threaded: a message, a timer or an answer of the   *)
(* storage worker is one synchronous event, and the promise jobs it leaves *)
(* (`jobs`, in order) run before the next one. The minds of the repository *)
(* answer in such jobs (atOnce); the Brain port also allows slower ones.   *)
(*                                                                         *)
(* Wall time is left out: a poll owes any number of ticks up to a bound.   *)
(* The world is what the host sees of it (World.tla): its tick and whether *)
(* the minds, taken together, hold a request. The recorder is its header,  *)
(* its backlog and its marks; every tick writes one record.                *)
(***************************************************************************)
EXTENDS Integers, Sequences

CONSTANTS
  Settings,    \* of a session: whether minds answer before the next event (atOnce) and the
               \* time modes its runs are loaded in, and the ticks asked for in one step
               \* message (counts) and run (ticks), as bounds
  MaxSteps,    \* bound: step messages in progress
  MaxPerPoll,  \* LOCKSTEP_MAX_PER_POLL, REALTIME_MAX_PER_POLL, HEADLESS_MAX_PER_POLL
  High, Low,   \* the marks of the backlog
  EndTick,     \* the end condition of headless runs
  MaxRuns      \* bound: runs loaded

ASSUME HostAssumption ==
  /\ \A x \in Settings : /\ x.atOnce \in BOOLEAN /\ x.modes \subseteq {"lockstep", "realtime"}
                         /\ x.counts \subseteq Nat \ {0} /\ x.ticks \in Nat
  /\ MaxSteps \in Nat /\ MaxPerPoll \in Nat \ {0, 1}
  /\ Low \in Nat /\ High \in Nat /\ Low < High
  /\ EndTick \in Nat /\ MaxRuns \in Nat

Loop  == 0               \* who asked for decisions: the loop ...
Steps == 1..MaxSteps     \* ... or a step message

VARIABLES
  setting,   \* of the session
  host,      \* the host's own variables
  world,     \* the world being run (run 0: the dummy world)
  recorder,  \* the recorder of the loaded run
  steps,     \* the step messages in progress
  jobs,      \* promise jobs, in order
  space,     \* what the storage worker last announced of its quota
  met        \* two callers were under way at once (history)

vars == <<setting, host, world, recorder, steps, jobs, space, met>>

(***************************************************************************)
(* The world                                                               *)
(***************************************************************************)
\* `since` tells one request from the next; `asked` counts the answers under
\* way or in for the pending one.
World == [run : Nat, tick : Nat, pending : {"none", "open", "answered"},
          since : Nat, asked : Nat, unanswered : Int, failed : BOOLEAN]

NewWorld(run) ==
  [run |-> run, tick |-> 0, pending |-> IF run = 0 THEN "none" ELSE "open",
   since |-> 0, asked |-> 0, unanswered |-> IF run = 0 THEN 0 ELSE 1, failed |-> FALSE]

\* step() refuses: decisions are outstanding, or an earlier tick failed. It
\* fails: a request has no answer although none is counted as outstanding.
Refuses(w) == w.failed \/ w.unanswered > 0
Fails(w)   == ~Refuses(w) /\ w.pending = "open"

\* n ticks, the last of which may ask the minds again.
Ticked(w, n, asks) ==
  IF n = 0 THEN w
  ELSE [w EXCEPT !.tick = @ + n, !.pending = IF asks THEN "open" ELSE "none",
                 !.since = IF asks THEN w.tick + n ELSE 0, !.asked = 0,
                 !.unanswered = IF asks THEN @ + 1 ELSE @]

\* decide() asks the minds of the open request ...
Asked(w) == IF w.pending = "open" THEN [w EXCEPT !.asked = @ + 1] ELSE w

DecideJob(by) == [kind |-> "decide", by |-> by, run |-> world.run, since |-> world.since,
                  open |-> world.pending = "open"]

\* ... and stores its answer, if that world is still the one being run.
\* (AnsweredBlindly: the request is not looked at.)
IsFor(j, w) == j.run = w.run /\ j.open

AnsweredBlindly(w, j) == [w EXCEPT !.pending = "answered", !.unanswered = @ - 1]
Answered(w, j) ==
  IF ~IsFor(j, w) THEN w
  ELSE [w EXCEPT !.unanswered = @ - 1,
                 !.pending = IF @ = "open" /\ w.since = j.since THEN "answered" ELSE @]
Unanswered(w, j) ==
  IF IsFor(j, w) /\ w.pending # "none" /\ w.since = j.since THEN [w EXCEPT !.asked = @ - 1] ELSE w

(***************************************************************************)
(* The recorder                                                            *)
(***************************************************************************)
Recorder == [on : BOOLEAN, header : BOOLEAN, waiting : BOOLEAN, backlog : Nat]

NoRecorder  == [on |-> FALSE, header |-> FALSE, waiting |-> FALSE, backlog |-> 0]

\* Above the high mark the run waits, until the backlog is at the low mark.
\* (WaitsForEver: the low mark is never looked at.)
WaitsForEver(r) == r.waiting \/ r.backlog >= High
Waits(r) == IF r.waiting THEN r.backlog > Low ELSE r.backlog >= High

Collected(r, n) ==
  LET c == [r EXCEPT !.backlog = @ + n]
  IN IF r.on THEN [c EXCEPT !.waiting = Waits(c)] ELSE r

\* A recorder that gathered what genesis emitted.
NewRecorder == Collected([NoRecorder EXCEPT !.on = TRUE], 1)

\* The run may not step. (IgnoresBacklog: it looks at the rest only.)
IgnoresBacklog(r, quota) == r.on /\ (~r.header \/ quota)
Gated(r, quota) == r.on /\ (~r.header \/ r.waiting \/ quota)

(***************************************************************************)
(* The host                                                                *)
(***************************************************************************)
\* `timers` counts the armed loop timers; `waiters` are the step messages
\* that wait at the gate.
Host == [running : BOOLEAN, timers : Nat, deciding : BOOLEAN,
         mode : {"lockstep", "realtime"}, headless : BOOLEAN, done : BOOLEAN,
         quotaPaused : BOOLEAN, wasPlaying : BOOLEAN, waiters : Seq(Steps)]

IdleStep == [at |-> "idle", left |-> 0]

\* clearTimer forgets the last timer armed, if it has not fired.
Cleared(h) == [h EXCEPT !.timers = IF @ > 0 THEN @ - 1 ELSE 0]

Paused(h) == [Cleared(h) EXCEPT !.running = FALSE]

Started(h) == [h EXCEPT !.running = TRUE, !.timers = @ + 1]

\* play() does nothing for a playing run, or one that is over.
Played(h) == IF h.running \/ h.done THEN h ELSE Started(h)

\* syncRecordingState: an open gate lets everyone through who waits at it.
Resume(s) == [kind |-> "resume", by |-> s, run |-> 0, since |-> 0, open |-> FALSE]

Synced(h, r) == IF r.on /\ ~Gated(r, h.quotaPaused) THEN [h EXCEPT !.waiters = <<>>] ELSE h

\* (ReleasesNobody: the waiters are forgotten.)
ReleasesNobody(h, r) == <<>>
Released(h, r) ==
  IF r.on /\ ~Gated(r, h.quotaPaused)
  THEN [k \in 1..Len(h.waiters) |-> Resume(h.waiters[k])] ELSE <<>>

\* Two callers are under way at once. The code has no guard against it: a step
\* message does not look whether the loop or another one waits.
Meet(js) == met' = (met \/ Len(js) > 1)

\* syncRecordingState with the recorder's and the host's new state.
Sync(h, r, js) ==
  /\ host' = Synced(h, r) /\ recorder' = r
  /\ jobs' = js \o Released(h, r) /\ Meet(js \o Released(h, r))

\* The worker takes the next event: no promise job is left (those of minds
\* that take their time aside).
NextEvent ==
  IF setting.atOnce THEN jobs = <<>>
  ELSE \A k \in 1..Len(jobs) : jobs[k].kind = "decide"

Init ==
  /\ setting \in Settings
  /\ host = Played([running |-> FALSE, timers |-> 0, deciding |-> FALSE,
       mode |-> "lockstep", headless |-> FALSE, done |-> FALSE,
       quotaPaused |-> FALSE, wasPlaying |-> FALSE, waiters |-> <<>>])
  /\ world = NewWorld(0)
  /\ recorder = NoRecorder
  /\ steps = [s \in Steps |-> IdleStep]
  /\ jobs = <<>>
  /\ space = "ok"
  /\ met = FALSE

(***************************************************************************)
(* The researcher                                                          *)
(***************************************************************************)
\* A headless run is always recorded and never realtime; refused otherwise. A step
\* message whose minds are asked goes on with the new run.
Load(recorded, headless, mode) ==
  /\ NextEvent /\ world.run < MaxRuns
  /\ headless => recorded /\ mode = "lockstep"
  /\ world' = NewWorld(world.run + 1)
  /\ recorder' = IF recorded THEN NewRecorder ELSE NoRecorder
  /\ host' = [(IF host.running THEN Paused(host) ELSE host) EXCEPT
                !.waiters = <<>>, !.quotaPaused = FALSE, !.wasPlaying = FALSE,
                !.mode = mode, !.headless = headless, !.done = FALSE]
  /\ steps' = [s \in Steps |-> IF steps[s].at = "gate" THEN IdleStep ELSE steps[s]]
  /\ met' = (met \/ \E k \in 1..Len(jobs) : jobs[k].by # Loop)
  /\ UNCHANGED <<setting, jobs, space>>

Play ==
  /\ NextEvent
  /\ host' = Played(host)
  /\ UNCHANGED <<setting, world, recorder, steps, jobs, space, met>>

Pause ==
  /\ NextEvent
  /\ host' = Paused(host)
  /\ UNCHANGED <<setting, world, recorder, steps, jobs, space, met>>

\* step(count): pauses, then runs up to its first wait as the next job. Of the
\* free names it takes the first.
StepMessage(s, count) ==
  /\ NextEvent /\ steps[s].at = "idle" /\ \A r \in 1..(s - 1) : steps[r].at # "idle"
  /\ host' = IF host.running THEN Paused(host) ELSE host
  /\ steps' = [steps EXCEPT ![s] = [at |-> "top", left |-> count]]
  /\ jobs' = <<Resume(s)>> \o jobs /\ Meet(<<Resume(s)>> \o jobs)
  /\ UNCHANGED <<setting, world, recorder, space>>

\* The end of a headless run: its end snapshot is written.
Finished(h)    == [Paused(h) EXCEPT !.done = TRUE]
EndOfRecord(r) == Collected(r, 1)

Stop ==
  /\ NextEvent /\ host.headless /\ ~host.done /\ world.run # 0
  /\ host' = Finished(host)
  /\ recorder' = EndOfRecord(recorder)
  /\ UNCHANGED <<setting, world, steps, jobs, space, met>>

\* (RearmedTwice: the pending timer is not cleared.)
RearmedTwice(h) == [h EXCEPT !.timers = @ + 1]
Rearmed(h)      == [Cleared(h) EXCEPT !.timers = @ + 1]

LiveView ==
  /\ NextEvent /\ host.headless
  /\ host' = [(IF host.running THEN Rearmed(host) ELSE host) EXCEPT !.headless = FALSE]
  /\ UNCHANGED <<setting, world, recorder, steps, jobs, space, met>>

\* Only the dummy world takes another time mode.
SetMode(mode) ==
  /\ NextEvent /\ world.run = 0
  /\ host' = [host EXCEPT !.mode = mode]
  /\ UNCHANGED <<setting, world, recorder, steps, jobs, space, met>>

(***************************************************************************)
(* The storage worker                                                      *)
(***************************************************************************)
HeaderStored ==
  /\ NextEvent /\ recorder.on /\ ~recorder.header
  /\ Sync(host, [recorder EXCEPT !.header = TRUE], jobs)
  /\ UNCHANGED <<setting, world, steps, space>>

Persisted(n) ==
  /\ NextEvent /\ recorder.header /\ recorder.backlog >= n
  /\ LET r == [recorder EXCEPT !.backlog = @ - n]
     IN Sync(host, [r EXCEPT !.waiting = Waits(r)], jobs)
  /\ UNCHANGED <<setting, world, steps, space>>

QuotaPaused ==
  /\ NextEvent /\ space = "ok" /\ space' = "paused"
  /\ IF recorder.on
     THEN host' = [(IF host.running THEN Paused(host) ELSE host) EXCEPT
                     !.quotaPaused = TRUE, !.wasPlaying = host.running]
     ELSE UNCHANGED host
  /\ UNCHANGED <<setting, world, recorder, steps, jobs, met>>

QuotaOk ==
  /\ NextEvent /\ space = "paused" /\ space' = "ok"
  /\ IF recorder.on
     THEN LET h == [host EXCEPT !.quotaPaused = FALSE, !.wasPlaying = FALSE]
          IN Sync(IF host.wasPlaying THEN Played(h) ELSE h, recorder, jobs)
     ELSE UNCHANGED <<host, recorder, jobs, met>>
  /\ UNCHANGED <<setting, world, steps>>

\* A refused batch pauses the run, whichever run it was of.
Rejected ==
  /\ NextEvent /\ host.running
  /\ host' = Paused(host)
  /\ UNCHANGED <<setting, world, recorder, steps, jobs, space, met>>

(***************************************************************************)
(* The loop                                                                *)
(***************************************************************************)
\* awaitDecisions, when the new world w holds a request.
Awaits(w) == w.unanswered > 0 /\ ~host.deciding

LoopAsks(w) == [DecideJob(Loop) EXCEPT !.since = w.since, !.open = w.pending = "open"]

AwaitDecisions(w, js) ==
  LET after == IF Awaits(w) THEN Append(js, LoopAsks(w)) ELSE js
  IN /\ world' = IF Awaits(w) THEN Asked(w) ELSE w
     /\ jobs' = after /\ Meet(after)

\* The lockstep driver stops a batch at a request; the realtime driver does
\* not look.
DriverReady == host.mode = "lockstep" => world.unanswered = 0

\* One poll that owes `due` ticks and runs `ran` of them. A tick the world
\* refuses or fails throws out of the loop, which is then not armed again.
Poll(due) ==
  /\ NextEvent /\ host.running /\ host.timers > 0 /\ ~host.headless
  /\ world.tick + due <= setting.ticks
  /\ LET held == host.deciding \/ Gated(recorder, host.quotaPaused)
         stuck == held \/ ~DriverReady \/ Refuses(world) \/ Fails(world)
     IN \E ran \in 0..due, asks \in BOOLEAN :
          /\ asks => ran > 0 /\ world.run # 0
          /\ stuck => ran = 0
          /\ ran < due => stuck \/ asks
          /\ LET throws == ran < due /\ ~held /\ (ran = 0 => DriverReady)
                             /\ (ran > 0 => host.mode = "realtime")
                 w == Ticked(world, ran, asks)
                 h == [host EXCEPT !.deciding = @ \/ Awaits(w)]
             IN IF throws
                THEN /\ host' = Cleared(host)
                     /\ world' = [w EXCEPT !.failed = @ \/ Fails(w)]
                     /\ UNCHANGED <<recorder, jobs, met>>
                ELSE LET r == IF ran > 0 THEN Collected(recorder, ran) ELSE recorder
                     IN /\ host' = Synced(h, r) /\ recorder' = r
                        /\ AwaitDecisions(w, jobs \o Released(host, r))
  /\ UNCHANGED <<setting, steps, space>>

\* One poll of a headless run: the backlog is judged tick by tick, and the
\* end condition ends it. A tick the world refuses or fails throws here too.
ReachedEnd(w) == w.tick >= EndTick

MayStep ==
  /\ ~host.deciding /\ world.unanswered = 0
  /\ ~Gated(recorder, host.quotaPaused) /\ ~ReachedEnd(world)

HeadlessThrows ==
  /\ MayStep /\ (Refuses(world) \/ Fails(world))
  /\ host' = Cleared(host)
  /\ world' = [world EXCEPT !.failed = @ \/ Fails(world)]
  /\ UNCHANGED <<recorder, jobs, met>>

HeadlessRuns(ran, asks) ==
  /\ world.tick + ran <= setting.ticks
  /\ asks => ran > 0
  /\ ran > 0 <=> MayStep
  /\ ran > 0 => /\ ~Refuses(world) /\ ~Fails(world)
                /\ ~ReachedEnd(Ticked(world, ran - 1, FALSE))
                /\ recorder.backlog + ran - 1 < High
  /\ LET w == Ticked(world, ran, asks)
         r == Collected(recorder, ran)
         h == [Synced(host, r) EXCEPT !.deciding = @ \/ Awaits(w)]
     IN /\ AwaitDecisions(w, jobs \o Released(host, r))
        /\ IF ReachedEnd(w)
           THEN host' = Finished(h) /\ recorder' = EndOfRecord(r)
           ELSE host' = h /\ recorder' = r

HeadlessPoll ==
  /\ NextEvent /\ host.running /\ host.timers > 0 /\ host.headless
  /\ HeadlessThrows \/ \E ran \in 0..MaxPerPoll, asks \in BOOLEAN : HeadlessRuns(ran, asks)
  /\ UNCHANGED <<setting, steps, space>>

(***************************************************************************)
(* Promise jobs                                                            *)
(***************************************************************************)
\* The k-th job is next: jobs run in order, slow minds answer in any.
IsNext(k) ==
  /\ k \in 1..Len(jobs)
  /\ k = 1 \/ /\ ~setting.atOnce
              /\ jobs[k].kind = "decide" \/ \A i \in 1..(k - 1) : jobs[i].kind = "decide"

Without(k) == SubSeq(jobs, 1, k - 1) \o SubSeq(jobs, k + 1, Len(jobs))

\* The minds answered: the loop goes on, or the step that asked.
\* (StaysDeciding: the loop is not told.)
StaysDeciding(h) == h
Decided(h)       == [h EXCEPT !.deciding = FALSE]

MindsAnswer(k) ==
  /\ IsNext(k) /\ jobs[k].kind = "decide"
  /\ world' = Answered(world, jobs[k])
  /\ IF jobs[k].by = Loop
     THEN host' = Decided(host) /\ jobs' = Without(k)
     ELSE jobs' = Append(Without(k), Resume(jobs[k].by)) /\ UNCHANGED host
  /\ UNCHANGED <<setting, recorder, steps, space, met>>

\* A mind failed: the run pauses, or the step ends with an error.
MindsFail(k) ==
  /\ IsNext(k) /\ jobs[k].kind = "decide"
  /\ world' = Unanswered(world, jobs[k])
  /\ jobs' = Without(k)
  /\ IF jobs[k].by = Loop
     THEN host' = Paused(Decided(host)) /\ UNCHANGED steps
     ELSE steps' = [steps EXCEPT ![jobs[k].by] = IdleStep] /\ UNCHANGED host
  /\ UNCHANGED <<setting, recorder, space, met>>

\* The step message whose turn it is.
Turn(k, s, at) ==
  IsNext(k) /\ jobs[k].kind = "resume" /\ jobs[k].by = s /\ steps[s].at = at

\* At the top of a step: it ends, waits at the gate or goes on.
StepTop(k, s) ==
  /\ Turn(k, s, "top")
  /\ IF steps[s].left = 0
     THEN /\ steps' = [steps EXCEPT ![s] = IdleStep]
          /\ Sync(host, recorder, Without(k))
     ELSE IF Gated(recorder, host.quotaPaused)
     THEN /\ steps' = [steps EXCEPT ![s].at = "gate"]
          /\ host' = [host EXCEPT !.waiters = Append(@, s)]
          /\ jobs' = Without(k)
          /\ UNCHANGED <<recorder, met>>
     ELSE /\ steps' = [steps EXCEPT ![s].at = "ask"]
          /\ UNCHANGED <<host, jobs, recorder, met>>
  /\ UNCHANGED <<setting, world, space>>

\* The gate opened; the decisions of the next tick are asked for.
\* (AsksNobody: the step does not wait for minds.)
AsksNobody(w) == FALSE
MustAsk(w)    == w.unanswered > 0

StepAsk(k, s) ==
  /\ Turn(k, s, "ask") \/ Turn(k, s, "gate")
  /\ steps' = [steps EXCEPT ![s].at = "tick"]
  /\ IF MustAsk(world)
     THEN world' = Asked(world) /\ jobs' = Append(Without(k), DecideJob(s))
     ELSE UNCHANGED <<world, jobs>>
  /\ UNCHANGED <<setting, host, recorder, space, met>>

\* scheduler.step(): a tick the world refuses ends the step with an error.
StepTick(k, s) ==
  /\ Turn(k, s, "tick")
  /\ world.tick < setting.ticks
  /\ IF Refuses(world) \/ Fails(world)
     THEN /\ world' = [world EXCEPT !.failed = @ \/ Fails(world)]
          /\ steps' = [steps EXCEPT ![s] = IdleStep]
          /\ jobs' = Without(k)
          /\ UNCHANGED <<host, recorder, met>>
     ELSE /\ \E asks \in BOOLEAN :
               /\ asks => world.run # 0
               /\ world' = Ticked(world, 1, asks)
          /\ steps' = [steps EXCEPT ![s] = [at |-> "top", left |-> @.left - 1]]
          /\ Sync(host, Collected(recorder, 1), jobs)
  /\ UNCHANGED <<setting, space>>

Researcher ==
  \/ \E recorded \in BOOLEAN, headless \in BOOLEAN, mode \in setting.modes : Load(recorded, headless, mode)
  \/ Play \/ Pause \/ Stop \/ LiveView
  \/ \E mode \in setting.modes : SetMode(mode)
  \/ \E s \in Steps, count \in setting.counts : StepMessage(s, count)

Storage ==
  \/ HeaderStored \/ QuotaPaused \/ QuotaOk \/ Rejected
  \/ \E n \in 1..(High + MaxPerPoll) : Persisted(n)

Polls == HeadlessPoll \/ \E due \in 0..MaxPerPoll : Poll(due)

Jobs ==
  \E k \in 1..Len(jobs) :
    \/ MindsAnswer(k) \/ MindsFail(k)
    \/ \E s \in Steps : StepTop(k, s) \/ StepAsk(k, s) \/ StepTick(k, s)

Next == Researcher \/ Storage \/ Polls \/ Jobs

Spec == Init /\ [][Next]_vars

\* Timers fire and wall time passes, so that a poll comes to owe ticks;
\* promise jobs run; the storage worker stores headers, saves what it gets
\* and, the researcher freeing space, says so. Events wait in the worker's
\* queue while jobs run, hence strong fairness.
FairSpec ==
  /\ Spec
  /\ SF_vars(Polls)
  /\ WF_vars(Jobs) /\ SF_vars(HeaderStored) /\ SF_vars(QuotaOk)
  /\ SF_vars(\E n \in 1..(High + MaxPerPoll) : Persisted(n))
=============================================================================
