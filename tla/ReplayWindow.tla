---------------------------- MODULE ReplayWindow ----------------------------
(***************************************************************************)
(* The anti-replay sliding window of src/src/protocol/mod.rs as a value:   *)
(* struct ReplayFilter and its methods as operators on a record.  Module   *)
(* ReplayFilter drives one filter as a state machine; module Tunnel keeps  *)
(* one inside the server's session.                                        *)
(*                                                                         *)
(* The u128 bitmap is the set of its one-bits.                             *)
(***************************************************************************)
EXTENDS Integers

CONSTANTS
  BitmapBits,  \* width of the bitmap and upper clamp of the window size (128)
  MaxSeq       \* largest sequence number (u64::MAX)

ASSUME WindowAssumption == BitmapBits \in Nat \ {0} /\ MaxSeq \in Nat

Seqs == 0 .. MaxSeq
Bits == 0 .. BitmapBits - 1

ReplayFilters ==
  [ window_size    : 1 .. BitmapBits,
    bitmap         : SUBSET Bits,
    last_seq       : Seqs,
    initialized    : BOOLEAN,
    total_seen     : Nat,
    total_accepted : Nat,
    total_rejected : Nat ]

clamp(n, lo, hi) == IF n < lo THEN lo ELSE IF n > hi THEN hi ELSE n

EmptyFilter(size) ==
  [ window_size |-> size, bitmap |-> {}, last_seq |-> 0, initialized |-> FALSE,
    total_seen |-> 0, total_accepted |-> 0, total_rejected |-> 0 ]

\* Variant: the constructor keeps the size it was asked for.
with_window_size_unclamped(n) == EmptyFilter(n)

with_window_size(n) == EmptyFilter(clamp(n, 1, BitmapBits))

\* reset keeps the window size and clears everything else.
reset(f) == EmptyFilter(f.window_size)

-----------------------------------------------------------------------------
(* validate_and_record *)

\* Variant: the oldest number still inside the window is one too far back.
OutsideWindow_lenient(f, seq) ==
  seq <= f.last_seq /\ f.last_seq - seq > f.window_size

\* `diff >= self.window_size` on the branch seq <= last_seq.
OutsideWindow(f, seq) ==
  seq <= f.last_seq /\ f.last_seq - seq >= f.window_size

\* `self.bitmap & (1u128 << diff) != 0`.
BitIsSet(f, seq) == f.last_seq - seq \in f.bitmap

\* The call returns Ok.
accepts(f, seq) ==
  \/ ~f.initialized
  \/ seq > f.last_seq
  \/ ~OutsideWindow(f, seq) /\ ~BitIsSet(f, seq)

\* `bitmap <<= d`: bits shifted past the top of the u128 are lost.
ShiftLeft(bitmap, d) == { b \in Bits : b - d \in bitmap }

\* Variant: moving the window forward forgets to mark the new number.
slide_unmarked(f, seq) ==
  LET diff == seq - f.last_seq
  IN  IF diff < f.window_size THEN ShiftLeft(f.bitmap, diff) ELSE {0}

\* The bitmap once seq > last_seq has become the newest number.
slide(f, seq) ==
  LET diff == seq - f.last_seq
  IN  IF diff < f.window_size THEN ShiftLeft(f.bitmap, diff) \cup {0} ELSE {0}

\* What an accepted number leaves in the bitmap and in last_seq.
mark(f, seq) ==
  IF ~f.initialized
    THEN [f EXCEPT !.last_seq = seq, !.bitmap = {0}, !.initialized = TRUE]
  ELSE IF seq > f.last_seq
    THEN [f EXCEPT !.last_seq = seq, !.bitmap = slide(f, seq)]
  ELSE [f EXCEPT !.bitmap = @ \cup {f.last_seq - seq}]

\* The filter after the call, counters included.
validate_and_record(f, seq) ==
  IF accepts(f, seq)
    THEN [mark(f, seq) EXCEPT !.total_seen = @ + 1, !.total_accepted = @ + 1]
    ELSE [f EXCEPT !.total_seen = @ + 1, !.total_rejected = @ + 1]

-----------------------------------------------------------------------------
(* Queries *)

\* Variant: has_seen compares with the window size off by one.
has_seen_lenient(f, seq) ==
  /\ f.initialized
  /\ seq <= f.last_seq
  /\ f.last_seq - seq > f.window_size \/ f.last_seq - seq \in f.bitmap

has_seen(f, seq) ==
  /\ f.initialized
  /\ seq <= f.last_seq
  /\ f.last_seq - seq >= f.window_size \/ f.last_seq - seq \in f.bitmap

saturating_sub(a, b) == IF a < b THEN 0 ELSE a - b

min_valid_seq(f) ==
  IF f.initialized
    THEN saturating_sub(f.last_seq, saturating_sub(f.window_size, 1))
    ELSE 0

=============================================================================
