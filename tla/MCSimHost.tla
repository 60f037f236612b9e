----------------------------- MODULE MCSimHost -----------------------------
(***************************************************************************)
(* The simulation host for TLC: sessions whose minds answer at once, and   *)
(* sessions with slow minds, asked by the loop for several ticks or by the *)
(* loop and two step messages for the first.                               *)
(***************************************************************************)
EXTENDS SimHostProperties

QuickMinds  == [atOnce |-> TRUE, modes |-> {"lockstep", "realtime"}, counts |-> {2}, ticks |-> 3]
SlowMinds   == [atOnce |-> FALSE, modes |-> {"lockstep"}, counts |-> {}, ticks |-> 3]
SlowAndStep == [SlowMinds EXCEPT !.counts = {1}, !.ticks = 1]
Sessions    == {QuickMinds, SlowMinds, SlowAndStep}

\* What happens without any mind taking its time.
QuickOnly == {QuickMinds}
=============================================================================
