--------------------------- MODULE MCReceivePath ---------------------------
(* ReceivePath with a window shorter than the stream.                       *)
EXTENDS ReceivePath

=============================================================================
