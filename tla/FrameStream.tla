---------------------------- MODULE FrameStream ----------------------------
(***************************************************************************)
(* One direction of a connection as the byte stream it is: write_to on one *)
(* end, read_from in a loop on the other (src/src/protocol/mod.rs).  TCP   *)
(* moves bytes in chunks of any size, so a frame is written and read over  *)
(* many steps, and the writer may go away between two of them.             *)
(***************************************************************************)
EXTENDS FrameCodec

CONSTANTS
  Outgoing,     \* the frames the writer sends
  MaxFrames,    \* bound: frames sent
  AlteredTo,    \* bound: what a byte altered under way turns into
  MaxAltered    \* bound: bytes altered under way

ASSUME StreamAssumption ==
  /\ Outgoing \subseteq WireFrames /\ MaxFrames \in Nat
  /\ AlteredTo \subseteq Bytes /\ MaxAltered \in Nat

VARIABLES
  outbox,             \* what write_all has not written yet of the current frame
  writer,             \* "open", or how the writer's end of the connection went away
  wire,               \* the bytes under way
  reader,             \* "reading" until read_from returns an error
  len_buf, raw_data,  \* what read_exact has filled of the two buffers
  sent, received,     \* history: the frames of write_to and of read_from
  altered             \* history: the stream offsets of the bytes altered

writerVars == <<outbox, writer, sent>>
readerVars == <<reader, len_buf, raw_data, received>>
vars == <<writerVars, wire, readerVars, altered>>

Init ==
  /\ outbox = <<>> /\ writer = "open" /\ sent = <<>>
  /\ wire = <<>>
  /\ reader = "reading" /\ len_buf = <<>> /\ raw_data = <<>> /\ received = <<>>
  /\ altered = {}

Drop(bytes, k) == SubSeq(bytes, k + 1, Len(bytes))

-----------------------------------------------------------------------------
(* The writer *)

\* write_to does not look at the length of the frame.
WriteTo(f) ==
  /\ writer = "open" /\ outbox = <<>> /\ Len(sent) < MaxFrames
  /\ outbox' = serialize(f)
  /\ sent' = Append(sent, f)
  /\ UNCHANGED <<writer, wire, readerVars, altered>>

\* Variant: write in place of write_all.
WriteSome_once ==
  /\ writer = "open"
  /\ \E k \in 1 .. Len(outbox) : wire' = wire \o SubSeq(outbox, 1, k)
  /\ outbox' = <<>>
  /\ UNCHANGED <<writer, sent, readerVars, altered>>

\* write_all hands the kernel as much as it takes.
WriteSome ==
  /\ writer = "open"
  /\ \E k \in 1 .. Len(outbox) :
       wire' = wire \o SubSeq(outbox, 1, k) /\ outbox' = Drop(outbox, k)
  /\ UNCHANGED <<writer, sent, readerVars, altered>>

\* The stream is dropped, between two frames or, by the client's timeout, in
\* the middle of one; what was written still arrives.
WriterCloses ==
  /\ writer = "open" /\ writer' = "closed"
  /\ UNCHANGED <<outbox, sent, wire, readerVars, altered>>

-----------------------------------------------------------------------------
(* The network *)

\* A reset discards any number of the bytes under way.
ConnectionReset ==
  /\ writer = "open" /\ writer' = "reset"
  /\ \E k \in 0 .. Len(wire) : wire' = SubSeq(wire, 1, k)
  /\ UNCHANGED <<outbox, sent, readerVars, altered>>

\* The stream offset of the last byte of the i-th frame.
EndOf(i) == FoldLeft(LAMBDA n, f : n + Len(serialize(f)), 0, SubSeq(sent, 1, i))

\* Something between the two ends alters a byte.
ByteAltered ==
  /\ Cardinality(altered) < MaxAltered /\ writer # "reset"
  /\ \E i \in DOMAIN wire, b \in AlteredTo :
       /\ wire[i] # b
       /\ wire' = [wire EXCEPT ![i] = b]
       /\ altered' = altered \cup {EndOf(Len(sent)) - Len(outbox) - Len(wire) + i}
  /\ UNCHANGED <<writerVars, readerVars>>

-----------------------------------------------------------------------------
(* The reader *)

\* What one read of read_exact may return of the bytes still missing.
Chunk(missing) == 1 .. Min({missing, Len(wire)})

\* Variant: the limit itself is refused.
AcceptsLength_limit(frame_len) == frame_len >= HeaderLen /\ frame_len < MAX_FRAME_SIZE

\* Variant: no limit.
AcceptsLength_any(frame_len) == frame_len >= HeaderLen

AcceptsLength(frame_len) == frame_len >= HeaderLen /\ frame_len <= MAX_FRAME_SIZE

\* The length prefix, checked before any byte of the frame is asked for.
ReadPrefix ==
  /\ reader = "reading"
  /\ \E k \in Chunk(PrefixLen - Len(len_buf)) :
       len_buf' = len_buf \o SubSeq(wire, 1, k) /\ wire' = Drop(wire, k)
  /\ reader' = IF Len(len_buf') = PrefixLen /\ ~AcceptsLength(from_be_bytes(len_buf'))
                 THEN "err" ELSE reader
  /\ UNCHANGED <<raw_data, received, writerVars, altered>>

\* The rest of the frame; the last byte completes it.
ReadBody ==
  LET frame_len == from_be_bytes(len_buf)
  IN  /\ reader = "reading" /\ Len(len_buf) = PrefixLen
      /\ \E k \in Chunk(frame_len - Len(raw_data)) :
           LET data == raw_data \o SubSeq(wire, 1, k)
           IN  /\ wire' = Drop(wire, k)
               /\ \/ /\ Len(data) < frame_len
                     /\ raw_data' = data
                     /\ UNCHANGED <<reader, len_buf, received>>
                  \/ /\ Len(data) = frame_len /\ data[1] \in MessageTypes
                     /\ received' = Append(received, parts(data))
                     /\ len_buf' = <<>> /\ raw_data' = <<>>
                     /\ UNCHANGED reader
                  \/ /\ Len(data) = frame_len /\ data[1] \notin MessageTypes
                     /\ reader' = "err" /\ raw_data' = data
                     /\ UNCHANGED <<len_buf, received>>
      /\ UNCHANGED <<writerVars, altered>>

\* Variant: the end of the stream is only noticed between two frames.
ReadFails_between ==
  /\ reader = "reading" /\ wire = <<>> /\ writer # "open"
  /\ len_buf = <<>>
  /\ reader' = "err"
  /\ UNCHANGED <<len_buf, raw_data, received, writerVars, wire, altered>>

\* read_exact finds the end of the stream, or the reset, inside a frame or
\* between two: the same error.
ReadFails ==
  /\ reader = "reading" /\ wire = <<>> /\ writer # "open"
  /\ reader' = "err"
  /\ UNCHANGED <<len_buf, raw_data, received, writerVars, wire, altered>>

-----------------------------------------------------------------------------

Writer == WriteSome \/ WriterCloses \/ \E f \in Outgoing : WriteTo(f)
Reader == ReadPrefix \/ ReadBody \/ ReadFails
Network == ConnectionReset \/ ByteAltered

Next == Writer \/ Reader \/ Network

Spec == Init /\ [][Next]_vars

\* tokio polls a task whose socket is ready; nothing obliges the writer to send
\* another frame or to close.
FairSpec == Spec /\ WF_vars(WriteSome) /\ WF_vars(Reader)

-----------------------------------------------------------------------------
(* Properties *)

\* Type invariant of FrameStream: the buffers hold bytes, and the one allocated
\* for the frame has a legal frame's size, whatever the prefix said.
TypeOK ==
  /\ writer \in {"open", "closed", "reset"} /\ reader \in {"reading", "err"}
  /\ \A bytes \in {outbox, wire, len_buf, raw_data} : bytes \in Seq(Bytes)
  /\ Len(len_buf) <= PrefixLen
  /\ reader = "reading" /\ Len(len_buf) = PrefixLen =>
       from_be_bytes(len_buf) \in Len(raw_data) + 1 .. MAX_FRAME_SIZE

\* The frames within the size limit.
Frames == { f \in WireFrames : HeaderLen + Len(f.payload) <= MAX_FRAME_SIZE }

\* The length is cut by the cast `as u32`.
Wraps(f) == HeaderLen + Len(f.payload) >= Weight[PrefixLen]

\* The frames sent up to the first that is too long or was altered.
Good ==
  Max({ n \in 0 .. Len(sent) :
          \A i \in 1 .. n : sent[i] \in Frames /\ \A offset \in altered : offset > EndOf(i) })

Channel ==
  INSTANCE FrameChannel WITH good <- Good, ended <- reader = "err",
    garbled <- altered # {} \/ \E i \in DOMAIN sent : Wraps(sent[i])

\* However the bytes are chunked, wherever the writer stops and whichever byte
\* is altered, the two ends have a channel of whole frames: no frame is torn,
\* merged or moved, what is received before the first altered or oversized frame
\* is what was sent, and the reader gives up only where the channel may end.
ImplementsChannel == Channel!Spec

\* The two parsers agree: read_from hands out a frame exactly when from_bytes
\* accepts the bytes it consumed, and the same frame; and where it gives up
\* nothing that follows on the wire would have made from_bytes accept them.
ParsersAgree ==
  [][LET taken == Len(wire) - Len(wire')
         Parsed(n) == from_bytes(len_buf \o raw_data \o SubSeq(wire, 1, n))
     IN  taken > 0 /\ Reader =>
           /\ received' # received => Last(received') = Parsed(taken)
           /\ received' = received =>
                \A n \in taken .. IF reader' = "err" THEN Len(wire) ELSE taken :
                  Parsed(n) = Err
    ]_vars

\* A frame that was sent is received while the connection stands, without the
\* writer having to send anything more.
SentArrives ==
  \A n \in 1 .. MaxFrames :
    Good >= n ~> Len(received) >= n \/ Good < n \/ writer # "open"

\* The reader does not outlive the writer's end of the connection, even when an
\* altered prefix made it wait for bytes that do not exist.
ReaderReleased == writer # "open" ~> reader = "err"

=============================================================================
