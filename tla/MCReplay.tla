----------------------------- MODULE MCReplay -----------------------------
EXTENDS ReplayProperties

\* Four ticks with one record, two, none and three; a keyframe at 0 and at 2.
Records   == [t \in 0..3 |-> <<1, 3, 3, 6>>[t + 1]]
Keyframes == [t \in 0..3 |-> IF t < 2 THEN 0 ELSE 2]

\* A chunk known from the start, one near it known later, and one far away.
Map == [c \in {"here", "near", "far"} |->
          CASE c = "here" -> 0 [] c = "near" -> 2 [] c = "far" -> 1]
=============================================================================
