--------------------------- MODULE MCFrameStream ---------------------------
EXTENDS FrameStream

MCFrame(msg_type, nonce, payload) == [msg_type |-> msg_type, nonce |-> nonce, payload |-> payload]

\* Empty, at the limit of 4 bytes, one byte more, and so long that its length
\* wraps round to that of an empty frame; the payload of the last holds what
\* looks like a frame.
MCOutgoing ==
  { MCFrame(5, 1, <<>>), MCFrame(3, 6, <<3>>), MCFrame(4, 0, <<1, 1>>),
    MCFrame(3, 2, <<3, 5, 0, 1, 4, 1>>) }

=============================================================================
