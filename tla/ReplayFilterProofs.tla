------------------------- MODULE ReplayFilterProofs -------------------------
(***************************************************************************)
(* The properties of module ReplayFilter for every bitmap width, every     *)
(* range of sequence numbers and every requested window size.              *)
(***************************************************************************)
EXTENDS ReplayFilter, ReplayWindowLemmas, FiniteSetTheorems, TLAPS

USE WindowAssumption, FilterAssumption

\* A filter as the constructor returns it satisfies the inductive invariant.
LEMMA InitIInv == Init => IInv
  <1>. SUFFICES ASSUME Init PROVE IInv
    OBVIOUS
  <1>1. PICK n \in RequestedSizes : filter = with_window_size(n)
    BY DEF Init
  <1>2. clamp(n, 1, BitmapBits) \in 1 .. BitmapBits
    BY ClampedSize
  <1>3. TypeOK
    BY <1>1, <1>2 DEF Init, TypeOK, with_window_size, EmptyFilter, ReplayFilters,
                      Seqs, Bits, Results
  <1>4. IsFiniteSet({}) /\ Cardinality({}) = 0
    BY FS_EmptySet
  <1>. QED
    BY <1>1, <1>3, <1>4 DEF Init, IInv, NewestIsLast, BitmapIsHistory, AcceptedOnce,
                            with_window_size, EmptyFilter

\* reset keeps the inductive invariant: the history is forgotten with the bitmap.
LEMMA ResetIInv == IInv /\ Reset => IInv'
  <1>. SUFFICES ASSUME IInv, Reset PROVE IInv'
    OBVIOUS
  <1>1. TypeOK'
    BY DEF IInv, Reset, TypeOK, reset, EmptyFilter, ReplayFilters, Seqs, Bits, Results
  <1>2. IsFiniteSet({}) /\ Cardinality({}) = 0
    BY FS_EmptySet
  <1>. QED
    BY <1>1, <1>2 DEF Reset, IInv, NewestIsLast, BitmapIsHistory, AcceptedOnce,
                      reset, EmptyFilter

\* On the states of the inductive invariant the window check and the bitmap
\* give the verdict of the full history.
LEMMA VerdictIsHistory ==
  ASSUME IInv, NEW seq \in Seqs
  PROVE  accepts(filter, seq) <=>
           seq \notin accepted /\ \A a \in accepted : a - seq < filter.window_size
  <1>. USE DEF IInv, TypeOK, ReplayFilters, Seqs
  <1>1. CASE ~filter.initialized
    BY <1>1 DEF accepts, NewestIsLast
  <1>2. CASE filter.initialized /\ seq > filter.last_seq
    <2>1. seq \notin accepted
      BY <1>2 DEF NewestIsLast
    <2>2. ASSUME NEW a \in accepted PROVE a - seq < filter.window_size
      BY <1>2 DEF NewestIsLast
    <2>. QED
      BY <1>2, <2>1, <2>2 DEF accepts
  <1>3. CASE filter.initialized /\ seq <= filter.last_seq
    <2>1. filter.last_seq \in accepted /\ \A a \in accepted : a <= filter.last_seq
      BY <1>3 DEF NewestIsLast
    <2>2. CASE filter.last_seq - seq >= filter.window_size
      BY <1>3, <2>1, <2>2 DEF accepts, OutsideWindow
    <2>3. CASE filter.last_seq - seq < filter.window_size
      <3>1. \A a \in accepted : a - seq < filter.window_size
        BY <1>3, <2>1, <2>3
      <3>2. filter.last_seq - seq \in filter.bitmap <=> seq \in accepted
        <4>1. filter.last_seq - seq \in 0 .. filter.window_size - 1
          BY <1>3, <2>3
        <4>2. filter.last_seq - (filter.last_seq - seq) = seq
          BY <1>3
        <4>. QED
          BY <1>3, <4>1, <4>2 DEF BitmapIsHistory
      <3>3. accepts(filter, seq) <=> ~(filter.last_seq - seq \in filter.bitmap)
        BY <1>3, <2>3 DEF accepts, OutsideWindow, BitIsSet
      <3>. QED
        BY <3>1, <3>2, <3>3
    <2>. QED
      BY <1>3, <2>2, <2>3
  <1>. QED
    BY <1>1, <1>2, <1>3

\* validate_and_record keeps the inductive invariant: one case for a refused
\* number, and for an accepted one the first, an advancing and a late number.
LEMMA ValidateIInv ==
  ASSUME IInv, NEW seq \in Seqs, ValidateAndRecord(seq)
  PROVE  IInv'
  <1>. USE DEF IInv, ValidateAndRecord
  <1>1. TypeOK'
    <2>1. filter' \in ReplayFilters
      BY ValidateType DEF TypeOK
    <2>2. accepted' \in SUBSET Seqs
      BY DEF TypeOK
    <2>3. result' \in Results
      <3>1. accepts(filter, seq) \in BOOLEAN
        BY DEF accepts
      <3>. QED
        BY <3>1 DEF Results
    <2>. QED
      BY <2>1, <2>2, <2>3 DEF TypeOK
  <1>2. CASE ~accepts(filter, seq)
    BY <1>1, <1>2 DEF validate_and_record, NewestIsLast, BitmapIsHistory, AcceptedOnce,
                      TypeOK, ReplayFilters
  <1>3. CASE accepts(filter, seq)
    <2>1. seq \notin accepted /\ accepted' = accepted \cup {seq}
      BY <1>3, VerdictIsHistory
    <2>2. IsFiniteSet(accepted') /\ Cardinality(accepted') = Cardinality(accepted) + 1
      BY <2>1, FS_AddElement
    <2>3. AcceptedOnce'
      BY <1>3, <2>2 DEF AcceptedOnce, validate_and_record, mark, TypeOK, ReplayFilters
    <2>4. NewestIsLast'
      BY <1>3, <2>1 DEF NewestIsLast, validate_and_record, mark, TypeOK, ReplayFilters, Seqs
    <2>5. BitmapIsHistory'
      <3>1. CASE ~filter.initialized
        <4>1. accepted' = {seq} /\ filter'.last_seq = seq /\ filter'.bitmap = {0}
          BY <1>3, <2>1, <3>1 DEF NewestIsLast, validate_and_record, mark, TypeOK, ReplayFilters
        <4>2. filter'.window_size \in Nat
          BY <1>1 DEF TypeOK, ReplayFilters
        <4>. QED
          BY <4>1, <4>2 DEF BitmapIsHistory, Seqs
      <3>2. CASE filter.initialized /\ seq > filter.last_seq
        <4>1. /\ filter'.last_seq = seq
              /\ filter'.bitmap = slide(filter, seq)
              /\ filter'.window_size = filter.window_size
          BY <1>3, <3>2 DEF validate_and_record, mark, TypeOK, ReplayFilters
        <4>2. \A a \in accepted : a <= filter.last_seq
          BY <3>2 DEF NewestIsLast
        <4>3. SUFFICES ASSUME NEW d \in 0 .. filter.window_size - 1
                       PROVE  d \in slide(filter, seq) <=> seq - d \in accepted'
          BY <4>1 DEF BitmapIsHistory
        <4>4. filter.last_seq \in Nat /\ seq \in Nat /\ filter.window_size \in 1 .. BitmapBits
              /\ accepted \subseteq Nat
          BY DEF TypeOK, ReplayFilters, Seqs
        <4>5. CASE d = 0
          BY <2>1, <4>4, <4>5 DEF slide
        <4>6. CASE d # 0 /\ d < seq - filter.last_seq
          <5>1. seq - d \notin accepted'
            BY <2>1, <4>2, <4>4, <4>6
          <5>2. d - (seq - filter.last_seq) \notin filter.bitmap
            BY <4>4, <4>6 DEF TypeOK, ReplayFilters, Bits
          <5>. QED
            BY <4>4, <4>6, <5>1, <5>2 DEF slide, ShiftLeft
        <4>7. CASE d # 0 /\ d >= seq - filter.last_seq
          <5>1. d - (seq - filter.last_seq) \in 0 .. filter.window_size - 1
            BY <3>2, <4>4, <4>7
          <5>2. d - (seq - filter.last_seq) \in filter.bitmap
                  <=> filter.last_seq - (d - (seq - filter.last_seq)) \in accepted
            BY <3>2, <5>1 DEF BitmapIsHistory
          <5>3. filter.last_seq - (d - (seq - filter.last_seq)) = seq - d
            BY <4>4
          <5>4. d \in slide(filter, seq) <=> d - (seq - filter.last_seq) \in filter.bitmap
            BY <3>2, <4>4, <4>7 DEF slide, ShiftLeft, Bits
          <5>5. seq - d \in accepted' <=> seq - d \in accepted
            BY <2>1, <4>4, <4>7
          <5>. QED
            BY <5>2, <5>3, <5>4, <5>5
        <4>. QED
          BY <4>4, <4>5, <4>6, <4>7
      <3>3. CASE filter.initialized /\ seq <= filter.last_seq
        <4>1. /\ filter'.last_seq = filter.last_seq
              /\ filter'.bitmap = filter.bitmap \cup {filter.last_seq - seq}
              /\ filter'.window_size = filter.window_size
          BY <1>3, <3>3 DEF validate_and_record, mark, TypeOK, ReplayFilters, Seqs
        <4>2. SUFFICES ASSUME NEW d \in 0 .. filter.window_size - 1
                       PROVE  d \in filter'.bitmap <=> filter.last_seq - d \in accepted'
          BY <4>1 DEF BitmapIsHistory
        <4>3. d = filter.last_seq - seq <=> filter.last_seq - d = seq
          BY DEF TypeOK, ReplayFilters, Seqs
        <4>4. d \in filter.bitmap <=> filter.last_seq - d \in accepted
          BY <3>3 DEF BitmapIsHistory
        <4>. QED
          BY <2>1, <4>1, <4>3, <4>4
      <3>. QED
        BY <3>1, <3>2, <3>3 DEF TypeOK, ReplayFilters, Seqs
    <2>. QED
      BY <1>1, <2>2, <2>3, <2>4, <2>5
  <1>. QED
    BY <1>2, <1>3

\* The inductive invariant holds in every reachable state of the filter.
THEOREM InductiveInvariant == Spec => []IInv
  <1>1. IInv /\ [Next]_vars => IInv'
    <2>. SUFFICES ASSUME IInv, [Next]_vars PROVE IInv'
      OBVIOUS
    <2>1. ASSUME NEW seq \in Seqs, ValidateAndRecord(seq) PROVE IInv'
      BY <2>1, ValidateIInv
    <2>2. CASE Reset
      BY <2>2, ResetIInv
    <2>3. CASE UNCHANGED vars
      BY <2>3 DEF vars, IInv, TypeOK, NewestIsLast, BitmapIsHistory, AcceptedOnce
    <2>. QED
      BY <2>1, <2>2, <2>3 DEF Next
  <1>. QED
    BY <1>1, InitIInv, PTL DEF Spec

\* The window size stays in range and the bitmap inside its width, for every
\* requested size and every sequence of calls.
THEOREM TypeCorrect == Spec => []TypeOK
  <1>1. IInv => TypeOK
    BY DEF IInv
  <1>. QED
    BY <1>1, InductiveInvariant, PTL

\* validate_and_record never returns Ok twice for one number between two resets.
THEOREM NoNumberAcceptedTwice == Spec => []AcceptedOnce
  <1>1. IInv => AcceptedOnce
    BY DEF IInv
  <1>. QED
    BY <1>1, InductiveInvariant, PTL

\* has_seen agrees with the full history of accepted numbers.
THEOREM HasSeenIsHistory == Spec => []HasSeenExact
  <1>1. IInv => HasSeenExact
    <2>. SUFFICES ASSUME IInv, NEW seq \in Seqs
                  PROVE  has_seen(filter, seq) <=>
                           seq \in accepted \/ seq < min_valid_seq(filter)
      BY DEF HasSeenExact
    <2>. USE DEF IInv, TypeOK, ReplayFilters, Seqs
    <2>1. CASE ~filter.initialized
      BY <2>1 DEF has_seen, min_valid_seq, NewestIsLast
    <2>2. CASE filter.initialized /\ seq > filter.last_seq
      <3>1. seq \notin accepted
        BY <2>2 DEF NewestIsLast
      <3>2. ~(seq < min_valid_seq(filter))
        BY <2>2 DEF min_valid_seq, saturating_sub
      <3>. QED
        BY <2>2, <3>1, <3>2 DEF has_seen
    <2>3. CASE filter.initialized /\ seq <= filter.last_seq
      <3>1. seq < min_valid_seq(filter) <=> filter.last_seq - seq >= filter.window_size
        BY <2>3 DEF min_valid_seq, saturating_sub
      <3>2. CASE filter.last_seq - seq >= filter.window_size
        BY <2>3, <3>1, <3>2 DEF has_seen
      <3>3. CASE filter.last_seq - seq < filter.window_size
        <4>1. filter.last_seq - seq \in 0 .. filter.window_size - 1
          BY <2>3, <3>3
        <4>2. filter.last_seq - (filter.last_seq - seq) = seq
          BY <2>3
        <4>3. filter.last_seq - seq \in filter.bitmap <=> seq \in accepted
          BY <2>3, <4>1, <4>2 DEF BitmapIsHistory
        <4>. QED
          BY <2>3, <3>1, <3>3, <4>3 DEF has_seen
      <3>. QED
        BY <2>3, <3>2, <3>3
    <2>. QED
      BY <2>1, <2>2, <2>3
  <1>. QED
    BY <1>1, InductiveInvariant, PTL

\* The bitmap filter implements ReplayGuard, the promise stated on the full
\* history: initial states map to initial states, a call to Accept, Reject or
\* Forget.
THEOREM FilterImplementsGuard == Spec => ImplementsGuard
  <1>1. Init => Guard!Init
    <2>. SUFFICES ASSUME Init PROVE Guard!Init
      OBVIOUS
    <2>1. PICK n \in RequestedSizes : filter = with_window_size(n)
      BY DEF Init
    <2>. QED
      BY <2>1, ClampedSize DEF Init, Guard!Init, with_window_size, EmptyFilter
  <1>2. IInv /\ [Next]_vars => [Guard!Next]_Guard!vars
    <2>. SUFFICES ASSUME IInv, [Next]_vars PROVE [Guard!Next]_Guard!vars
      OBVIOUS
    <2>1. ASSUME NEW seq \in Seqs, ValidateAndRecord(seq) PROVE Guard!Next
      <3>1. filter'.window_size = filter.window_size
        BY <2>1, ValidateType DEF ValidateAndRecord, IInv, TypeOK
      <3>2. accepts(filter, seq) <=> Guard!Fresh(seq) /\ Guard!Recent(seq)
        BY VerdictIsHistory DEF Guard!Fresh, Guard!Recent
      <3>3. CASE accepts(filter, seq)
        <4>1. Guard!Accept(seq)
          BY <2>1, <3>1, <3>2, <3>3 DEF ValidateAndRecord, Guard!Accept
        <4>. QED
          BY <4>1 DEF Guard!Next
      <3>4. CASE ~accepts(filter, seq)
        <4>1. /\ result' = [call |-> "validate", seq |-> seq, ok |-> accepts(filter, seq)]
              /\ accepted' = accepted
          BY <2>1, <3>4 DEF ValidateAndRecord
        <4>2. accepts(filter, seq) = FALSE
          BY <3>4 DEF accepts
        <4>3. Guard!Reject(seq)
          BY <3>1, <3>2, <3>4, <4>1, <4>2 DEF Guard!Reject
        <4>. QED
          BY <4>3 DEF Guard!Next
      <3>. QED
        BY <3>3, <3>4
    <2>2. CASE Reset
      <3>1. Guard!Forget
        BY <2>2 DEF Reset, reset, EmptyFilter, Guard!Forget
      <3>. QED
        BY <3>1 DEF Guard!Next
    <2>3. CASE UNCHANGED vars
      BY <2>3 DEF vars, Guard!vars
    <2>. QED
      BY <2>1, <2>2, <2>3 DEF Next
  <1>. QED
    BY <1>1, <1>2, InductiveInvariant, PTL DEF Spec, ImplementsGuard, Guard!Spec

=============================================================================
