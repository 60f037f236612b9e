----------------------------- MODULE RecordedRun -----------------------------
(***************************************************************************)
(* What the recording promises, without workers, queues or transactions:   *)
(* what is saved of a run is always the whole of its beginning. The head   *)
(* that is announced says how far that goes, it only moves forward, and it *)
(* moves together with what is saved.                                      *)
(***************************************************************************)
EXTENDS Integers

CONSTANT Records  \* trace records: [seq : Nat, ...]

VARIABLES
  emitted,  \* the records of the run that its profile keeps
  saved,    \* those that are stored
  head      \* the seq up to which, it is announced, the run is stored

vars == <<emitted, saved, head>>

Init ==
  /\ emitted \subseteq Records
  /\ saved = {}
  /\ head = -1

\* The run goes on: no record is older than one that may be saved.
Emit ==
  /\ emitted' \in SUBSET Records
  /\ emitted \subseteq emitted'
  /\ \A r \in emitted' \ emitted : r.seq > head /\ \A e \in emitted : e.seq < r.seq
  /\ UNCHANGED <<saved, head>>

Save ==
  /\ head' >= head
  /\ saved' = {r \in emitted : r.seq <= head'}
  /\ UNCHANGED emitted

Next == Emit \/ Save

Spec == Init /\ [][Next]_vars
=============================================================================
