----------------------------- MODULE ReplayGuard -----------------------------
(***************************************************************************)
(* What an anti-replay filter promises its caller, without bitmap, newest  *)
(* number or counters: a number is accepted exactly when it was never      *)
(* accepted before and is less than one window older than every number     *)
(* accepted so far.                                                        *)
(***************************************************************************)
EXTENDS Integers

CONSTANTS
  SeqNumbers,  \* the sequence numbers a caller may present
  Windows      \* the window sizes a filter may be built with

VARIABLES
  window,      \* the size this filter was built with
  accepted,    \* every number accepted since the last reset
  result       \* the last call and what it returned

vars == <<window, accepted, result>>

Fresh(seq) == seq \notin accepted
Recent(seq) == \A a \in accepted : a - seq < window

Init ==
  /\ window \in Windows
  /\ accepted = {}
  /\ result = [call |-> "new", seq |-> 0, ok |-> TRUE]

Accept(seq) ==
  /\ Fresh(seq) /\ Recent(seq)
  /\ accepted' = accepted \cup {seq}
  /\ result' = [call |-> "validate", seq |-> seq, ok |-> TRUE]
  /\ UNCHANGED window

Reject(seq) ==
  /\ ~(Fresh(seq) /\ Recent(seq))
  /\ result' = [call |-> "validate", seq |-> seq, ok |-> FALSE]
  /\ UNCHANGED <<window, accepted>>

Forget ==
  /\ accepted' = {}
  /\ result' = [call |-> "reset", seq |-> 0, ok |-> TRUE]
  /\ UNCHANGED window

Next ==
  \/ \E seq \in SeqNumbers : Accept(seq) \/ Reject(seq)
  \/ Forget

Spec == Init /\ [][Next]_vars

=============================================================================
