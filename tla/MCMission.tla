---------------------------- MODULE MCMission ----------------------------
EXTENDS MissionProperties

CONSTANTS t1, t2

Set(tag, d)  == [op |-> "set", tag |-> tag, delay |-> d]
Cancel(tag)  == [op |-> "cancel", tag |-> tag, delay |-> 0]
Dec(n, ops) == [action |-> n, timers |-> ops]

\* Minds that move, and minds that use timers: set (also again, and with a delay
\* out of range), cancel (also what is not set), over the limits of both kinds.
Minds ==
  {Dec("none", <<>>), Dec("task", <<>>), Dec("home", <<>>),
   Dec("none", <<Set(t1, 1), Set(t2, 2)>>),
   Dec("task", <<Set(t2, 3), Set(t1, 2)>>),
   Dec("none", <<Cancel(t1), Set(t2, 0), Set(t1, 1)>>)}

\* A mission of three steps, one with the same step twice, or no mission.
Errands == {<<"task", "home", "task">>, <<"task", "task">>, <<>>}
=============================================================================
