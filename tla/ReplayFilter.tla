---------------------------- MODULE ReplayFilter ----------------------------
(***************************************************************************)
(* One ReplayFilter (src/src/protocol/mod.rs) called with arbitrary        *)
(* sequence numbers in arbitrary order: duplicates, gaps, late and far     *)
(* ahead numbers, and resets.                                              *)
(***************************************************************************)
EXTENDS ReplayWindow, FiniteSets

CONSTANTS
  RequestedSizes,  \* arguments with_window_size is called with, any u64
  MaxCalls         \* bound: calls between two resets (the u64 total_seen)

ASSUME FilterAssumption == RequestedSizes \subseteq Nat /\ MaxCalls \in Nat

VARIABLES
  filter,    \* the struct
  accepted,  \* history: the numbers accepted since construction or reset
  result     \* history: the last call and its Result

vars == <<filter, accepted, result>>

Results ==
  [call : {"new", "validate", "reset"}, seq : Seqs, ok : BOOLEAN]

Init ==
  /\ \E n \in RequestedSizes : filter = with_window_size(n)
  /\ accepted = {}
  /\ result = [call |-> "new", seq |-> 0, ok |-> TRUE]

ValidateAndRecord(seq) ==
  /\ filter.total_seen < MaxCalls
  /\ filter' = validate_and_record(filter, seq)
  /\ accepted' = IF accepts(filter, seq) THEN accepted \cup {seq} ELSE accepted
  /\ result' = [call |-> "validate", seq |-> seq, ok |-> accepts(filter, seq)]

Reset ==
  /\ filter' = reset(filter)
  /\ accepted' = {}
  /\ result' = [call |-> "reset", seq |-> 0, ok |-> TRUE]

Next ==
  \/ \E seq \in Seqs : ValidateAndRecord(seq)
  \/ Reset

Spec == Init /\ [][Next]_vars

-----------------------------------------------------------------------------
(* Properties *)

\* Type invariant of ReplayFilter: the window size stays within 1..128 whatever
\* size was asked for, and no bit lies outside the u128.
TypeOK ==
  /\ filter \in ReplayFilters
  /\ accepted \in SUBSET Seqs
  /\ result \in Results

\* No number is accepted twice between two resets: total_accepted counts calls
\* that returned Ok, accepted holds the distinct numbers among them.  The bitmap
\* forgets numbers as it slides, so this depends on the window check covering
\* exactly what the bitmap has lost.  total_seen is the sum of the other two.
AcceptedOnce ==
  /\ filter.total_accepted = Cardinality(accepted)
  /\ filter.total_seen = filter.total_accepted + filter.total_rejected

\* has_seen answers for the whole history although only one window of it is
\* kept: true exactly for the numbers accepted before and for those below
\* min_valid_seq.
HasSeenExact ==
  \A seq \in Seqs :
    has_seen(filter, seq) <=> seq \in accepted \/ seq < min_valid_seq(filter)

Guard == INSTANCE ReplayGuard
           WITH SeqNumbers <- Seqs, Windows <- 1 .. BitmapBits,
                window <- filter.window_size

\* The bitmap filter implements ReplayGuard: every verdict of
\* validate_and_record is the one the full history of accepted numbers gives;
\* neither a replay gets through nor is a fresh number in the window refused.
ImplementsGuard == Guard!Spec

-----------------------------------------------------------------------------
(* The inductive invariant *)

\* last_seq is the newest accepted number, and before the first call the
\* filter is blank.
NewestIsLast ==
  /\ filter.initialized <=> accepted # {}
  /\ filter.initialized =>
       /\ filter.last_seq \in accepted
       /\ \A a \in accepted : a <= filter.last_seq
  /\ ~filter.initialized => filter.bitmap = {}

\* Inside the window the bitmap is the history, bit by bit.  Bits at or above
\* window_size may be set as well; nothing reads them.
BitmapIsHistory ==
  filter.initialized =>
    \A d \in 0 .. filter.window_size - 1 :
      d \in filter.bitmap <=> filter.last_seq - d \in accepted

\* TypeOK, the two facts above, and the counters: preserved by every call.
IInv ==
  /\ TypeOK
  /\ NewestIsLast
  /\ BitmapIsHistory
  /\ IsFiniteSet(accepted)
  /\ AcceptedOnce

=============================================================================
