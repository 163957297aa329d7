--------------------------- MODULE SessionMetrics ---------------------------
(* The counters of struct SessionMetrics (src/src/stats.rs).               *)
EXTENDS Integers

NoTraffic == [bytes_sent |-> 0, bytes_received |-> 0, frames_sent |-> 0, frames_received |-> 0]

record_tx(m, bytes) == [m EXCEPT !.bytes_sent = @ + bytes, !.frames_sent = @ + 1]

\* Variant: the frame is not counted.
record_rx_bytes_only(m, bytes) == [m EXCEPT !.bytes_received = @ + bytes]

record_rx(m, bytes) == [m EXCEPT !.bytes_received = @ + bytes, !.frames_received = @ + 1]

=============================================================================
