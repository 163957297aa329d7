------------------------- MODULE ReplayWindowLemmas -------------------------
(***************************************************************************)
(* Facts about the operators of module ReplayWindow, for every bitmap      *)
(* width and every range of sequence numbers.                              *)
(***************************************************************************)
EXTENDS ReplayWindow, TLAPS

USE WindowAssumption

\* The constructor clamps any requested size into the bitmap's width.
LEMMA ClampedSize ==
  ASSUME NEW n \in Nat
  PROVE  clamp(n, 1, BitmapBits) \in 1 .. BitmapBits
  BY DEF clamp

\* The counters of a filter may be replaced by any other naturals.
LEMMA CountersType ==
  ASSUME NEW f \in ReplayFilters, NEW s \in Nat, NEW n \in Nat
  PROVE  /\ [f EXCEPT !.total_seen = s, !.total_accepted = n] \in ReplayFilters
         /\ [f EXCEPT !.total_seen = s, !.total_rejected = n] \in ReplayFilters
         /\ [f EXCEPT !.total_seen = s, !.total_accepted = n].window_size = f.window_size
         /\ [f EXCEPT !.total_seen = s, !.total_rejected = n].window_size = f.window_size
  BY DEF ReplayFilters

\* A filter stays a filter through validate_and_record.
LEMMA ValidateType ==
  ASSUME NEW f \in ReplayFilters, NEW seq \in Seqs
  PROVE  /\ validate_and_record(f, seq) \in ReplayFilters
         /\ validate_and_record(f, seq).window_size = f.window_size
  <1>1. slide(f, seq) \in SUBSET Bits
    BY DEF slide, ShiftLeft, Bits, ReplayFilters
  <1>2. ASSUME accepts(f, seq), f.initialized, seq <= f.last_seq
        PROVE  f.last_seq - seq \in Bits
    BY <1>2 DEF accepts, OutsideWindow, Bits, ReplayFilters, Seqs
  <1>3. 0 \in Bits
    BY DEF Bits
  <1>4. ASSUME accepts(f, seq)
        PROVE  mark(f, seq) \in ReplayFilters /\ mark(f, seq).window_size = f.window_size
    <2>1. CASE ~f.initialized
      BY <1>3, <2>1 DEF mark, ReplayFilters
    <2>2. CASE f.initialized /\ seq > f.last_seq
      BY <1>1, <2>2 DEF mark, ReplayFilters
    <2>3. CASE f.initialized /\ ~(seq > f.last_seq)
      <3>1. f.last_seq - seq \in Bits
        BY <1>2, <1>4, <2>3 DEF ReplayFilters, Seqs
      <3>2. f.bitmap \cup {f.last_seq - seq} \in SUBSET Bits
        BY <3>1 DEF ReplayFilters
      <3>3. mark(f, seq) = [f EXCEPT !.bitmap = f.bitmap \cup {f.last_seq - seq}]
        BY <2>3 DEF mark
      <3>. QED
        BY <3>2, <3>3 DEF ReplayFilters
    <2>. QED
      BY <2>1, <2>2, <2>3
  <1>5. CASE accepts(f, seq)
    <2>. DEFINE m == mark(f, seq)
                s == m.total_seen + 1
                n == m.total_accepted + 1
    <2>1. validate_and_record(f, seq) = [m EXCEPT !.total_seen = s, !.total_accepted = n]
      BY <1>5 DEF validate_and_record
    <2>2. m \in ReplayFilters /\ m.window_size = f.window_size
      BY <1>4, <1>5
    <2>3. s \in Nat /\ n \in Nat
      BY <2>2 DEF ReplayFilters
    <2>. HIDE DEF m, s, n
    <2>4. /\ [m EXCEPT !.total_seen = s, !.total_accepted = n] \in ReplayFilters
          /\ [m EXCEPT !.total_seen = s, !.total_accepted = n].window_size = m.window_size
      BY <2>2, <2>3, CountersType
    <2>. QED
      BY <2>1, <2>2, <2>4
  <1>6. CASE ~accepts(f, seq)
    <2>. DEFINE s == f.total_seen + 1
                n == f.total_rejected + 1
    <2>1. validate_and_record(f, seq) = [f EXCEPT !.total_seen = s, !.total_rejected = n]
      BY <1>6 DEF validate_and_record
    <2>2. s \in Nat /\ n \in Nat
      BY DEF ReplayFilters
    <2>. HIDE DEF s, n
    <2>3. /\ [f EXCEPT !.total_seen = s, !.total_rejected = n] \in ReplayFilters
          /\ [f EXCEPT !.total_seen = s, !.total_rejected = n].window_size = f.window_size
      BY <2>2, CountersType
    <2>. QED
      BY <2>1, <2>3
  <1>. QED
    BY <1>5, <1>6

\* A number above the newest one, or the first of all, becomes the newest.
LEMMA NewestRecorded ==
  ASSUME NEW f \in ReplayFilters, NEW seq \in Seqs, f.initialized => seq > f.last_seq
  PROVE  /\ accepts(f, seq)
         /\ validate_and_record(f, seq).initialized
         /\ validate_and_record(f, seq).last_seq = seq
  <1>1. accepts(f, seq)
    BY DEF accepts
  <1>2. f.initialized \in BOOLEAN
    BY DEF ReplayFilters
  <1>3. mark(f, seq).initialized /\ mark(f, seq).last_seq = seq
    BY <1>2 DEF mark, ReplayFilters
  <1>. DEFINE m == mark(f, seq)
  <1>4. m \in [ window_size : 1 .. BitmapBits, bitmap : SUBSET Bits, last_seq : Seqs,
                initialized : BOOLEAN, total_seen : Nat, total_accepted : Nat,
                total_rejected : Nat ]
    <2>1. slide(f, seq) \in SUBSET Bits /\ 0 \in Bits
      BY DEF slide, ShiftLeft, Bits, ReplayFilters
    <2>2. CASE ~f.initialized
      BY <2>1, <2>2 DEF mark, ReplayFilters
    <2>3. CASE f.initialized
      BY <2>1, <2>3 DEF mark, ReplayFilters
    <2>. QED
      BY <2>2, <2>3
  <1>5. validate_and_record(f, seq)
          = [m EXCEPT !.total_seen = m.total_seen + 1, !.total_accepted = m.total_accepted + 1]
    BY <1>1 DEF validate_and_record
  <1>. HIDE DEF m
  <1>6. /\ [m EXCEPT !.total_seen = m.total_seen + 1,
                     !.total_accepted = m.total_accepted + 1].initialized = m.initialized
        /\ [m EXCEPT !.total_seen = m.total_seen + 1,
                     !.total_accepted = m.total_accepted + 1].last_seq = m.last_seq
    BY <1>4
  <1>. QED
    BY <1>1, <1>3, <1>5, <1>6 DEF m

=============================================================================
