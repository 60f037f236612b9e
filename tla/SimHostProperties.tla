------------------------- MODULE SimHostProperties -------------------------
(***************************************************************************)
(* What the host of the simulation must never get wrong, and what its      *)
(* comments and tests say of it.                                           *)
(***************************************************************************)
EXTENDS SimHost

\* A tick of the run that was being run.
Ticks == world'.run = world.run /\ world'.tick > world.tick

\* A playing run is driven by exactly one timer and a paused one by none:
\* with none it would hang while it says it runs (play() would refuse), with
\* two it would run at twice its speed. (A realtime tick that the world refuses
\* leaves a run without one; so does a world two callers made fail.)
RunningHasOneTimer ==
  host.mode = "lockstep" /\ ~met => host.timers = IF host.running THEN 1 ELSE 0

\* The gate, in the terms of its doc comment: "the header is not stored, the
\* writer is behind (backlog above its high mark) or the storage quota is
\* near".
MayTick == recorder.on => recorder.header /\ ~recorder.waiting /\ ~host.quotaPaused

\* The tick is one of a step message, which looked at the gate some jobs ago.
StepTicks == \E s \in Steps : steps[s].at = "tick" /\ steps'[s].at = "top"

\* The loop, live or headless, never runs a tick past the gate or of a run that is
\* over. A step message does so only after another was let through with it or while
\* its minds took their time; and until callers meet none makes the world run a
\* tick it refuses or fails in: no step ends in step_failed, no run in a failed world.
HostTicksWhenItMay ==
  [][/\ Ticks /\ ~MayTick => StepTicks /\ (met \/ ~setting.atOnce)
     /\ Ticks /\ host.done => StepTicks
     /\ \A k \in 1..Len(jobs), s \in Steps : StepTick(k, s) /\ ~met => ~Refuses(world) /\ ~Fails(world)]_vars

\* The backlog stays bounded without a record ever being dropped: at most one
\* poll's ticks are run past the high mark, until callers meet.
BacklogIsBounded == met \/ recorder.backlog <= High + MaxPerPoll - 1

\* Nothing of an earlier run moves the next one: late answers neither answer
\* the new run's request (what is answered was asked of its own minds) nor
\* touch its count; no request is asked twice or forgotten. Until callers meet.
RequestsAreCounted ==
  ~met => /\ world.asked <= 1
          /\ world.unanswered = (IF world.pending = "open" THEN 1 ELSE 0)
          /\ world.pending = "answered" => world.asked = 1
          /\ ~world.failed

\* What the doc comment of World.decide says: "stateful minds are never asked
\* twice for the same request". Two callers of it ask twice.
NeverAskedTwice == world.asked <= 1

\* A run that is playing goes on, is paused or is over, whatever it waits for:
\* minds, its header, the writer or space. (Realtime apart and worlds two callers
\* made fail, see RunningHasOneTimer.)
PlayingRunsGoOn ==
  []<>(~host.running \/ host.mode = "realtime" \/ world.tick = setting.ticks \/ met)

\* A step message that is held back is let go, others beside it or not: it ends, or
\* its run reaches the bound. (A mind asked beside others may take for ever.)
StepsEnd ==
  \A s \in Steps : []<>(\/ steps[s].at = "idle" \/ world.tick = setting.ticks
                        \/ met /\ ~setting.atOnce)

\* Nothing hangs, whatever minds, storage and researcher do: neither a run nor a step.
NothingHangs == PlayingRunsGoOn /\ StepsEnd
=============================================================================
