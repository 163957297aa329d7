---------------------------- MODULE FrameChannel ----------------------------
(***************************************************************************)
(* What write_to and read_from promise the two ends of a connection: a     *)
(* FIFO channel of whole frames.  The first `good` frames arrive as they   *)
(* were sent; after them the channel delivers nothing, or, once it is      *)
(* garbled, anything that is a frame.                                      *)
(***************************************************************************)
EXTENDS Integers, Sequences

CONSTANTS
  Frames,     \* the frames of at most MAX_FRAME_SIZE bytes
  Wraps(_)    \* the length of the frame does not fit the length prefix

VARIABLES sent, received, good, garbled, writer, ended

vars == <<sent, received, good, garbled, writer, ended>>

Init ==
  /\ sent = <<>> /\ received = <<>>
  /\ good = 0 /\ garbled = FALSE
  /\ writer = "open" /\ ended = FALSE

\* A frame that does not fit is neither good itself nor is any after it.
Send(f) ==
  /\ writer = "open"
  /\ sent' = Append(sent, f)
  /\ good' = IF good = Len(sent) /\ f \in Frames THEN good + 1 ELSE good
  /\ garbled' = (garbled \/ Wraps(f))
  /\ UNCHANGED <<received, writer, ended>>

Receive(f) ==
  /\ ~ended
  /\ \/ Len(received) < good /\ f = sent[Len(received) + 1]
     \/ Len(received) >= good /\ garbled /\ f \in Frames
  /\ received' = Append(received, f)
  /\ UNCHANGED <<sent, good, garbled, writer, ended>>

\* Bytes under way are altered: frames not yet received are no longer good.
Garble ==
  /\ garbled' = TRUE
  /\ good' \in (Len(received) .. good) \cup {good}
  /\ UNCHANGED <<sent, received, writer, ended>>

\* The writer shuts the connection down, or it is reset.
Finish ==
  /\ writer = "open" /\ writer' \in {"closed", "reset"}
  /\ UNCHANGED <<sent, received, good, garbled, ended>>

\* The reader is told of an error: after a shutdown at most the last frame is
\* missing, on an open connection only what is not good.
End ==
  /\ ~ended /\ ended'
  /\ \/ writer = "reset"
     \/ writer = "closed" /\ Len(received) >= good - 1
     \/ writer = "open" /\ good < Len(sent) /\ Len(received) >= good
  /\ UNCHANGED <<sent, received, good, garbled, writer>>

\* The frame sent or received is the one the history gains.
Next ==
  \/ \E i \in DOMAIN sent' : Send(sent'[i])
  \/ \E i \in DOMAIN received' : Receive(received'[i])
  \/ Garble \/ Finish \/ End

Spec == Init /\ [][Next]_vars

=============================================================================
