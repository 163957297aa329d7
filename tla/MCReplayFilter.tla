--------------------------- MODULE MCReplayFilter ---------------------------
(* ReplayFilter with a small bitmap and few sequence numbers. *)
EXTENDS ReplayFilter

=============================================================================
