---------------------------- MODULE MCRecording ----------------------------
EXTENDS RecordingProperties

T(emits, snapshot, changes, metrics) ==
  [emits |-> emits, snapshot |-> snapshot, changes |-> changes, metrics |-> metrics]

\* A tick that emits nothing; one with a record; one with a snapshot of the
\* same beliefs and a record the profile drops; one with a snapshot of changed
\* beliefs; one with metric samples and nothing else.
Nothing     == T(<<>>, FALSE, FALSE, FALSE)
ARecord     == T(<<TRUE>>, FALSE, FALSE, FALSE)
SameBeliefs == T(<<FALSE>>, TRUE, FALSE, FALSE)
NewBeliefs  == T(<<TRUE>>, TRUE, TRUE, FALSE)
Samples     == T(<<>>, FALSE, FALSE, TRUE)

Records    == {Nothing, ARecord}
Everything == {ARecord, SameBeliefs, NewBeliefs, Samples}
=============================================================================
