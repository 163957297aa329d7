---------------------------- MODULE RequestReply ----------------------------
(***************************************************************************)
(* What one connection promises the two programs that use it, whatever the *)
(* TCP link under it does: requests served in order and once each, one at  *)
(* a time, and every answer shown to be the answer to its request.  Either *)
(* end may close at any moment, together with its last step or without     *)
(* one; nothing is asked, served or shown by an end that is not open.      *)
(***************************************************************************)
EXTENDS Integers, Sequences

CONSTANTS
  Requests,      \* what can be asked
  AnswerTo(_)    \* what the server answers

VARIABLES
  client, server,   \* "new", "open" after the handshake, "closed"
  asked, served,    \* the requests sent and those served
  shown             \* the answers handed to the user

vars == <<client, server, asked, served, shown>>

Init ==
  /\ client = "new" /\ server = "new"
  /\ asked = <<>> /\ served = <<>> /\ shown = <<>>

Stays(end) == {end, "closed"}

\* The server is the first to finish the handshake.
ServerOpens ==
  /\ server = "new" /\ server' = "open"
  /\ UNCHANGED <<client, asked, served, shown>>

ClientOpens ==
  /\ client = "new" /\ server # "new"
  /\ client' = "open"
  /\ UNCHANGED <<server, asked, served, shown>>

Ask(request) ==
  /\ client = "open" /\ Len(asked) = Len(shown)
  /\ request \in Requests
  /\ asked' = Append(asked, request)
  /\ client' \in Stays(client)
  /\ UNCHANGED <<server, served, shown>>

Serve ==
  /\ server = "open" /\ Len(served) < Len(asked)
  /\ served' = Append(served, asked[Len(served) + 1])
  /\ server' \in Stays(server)
  /\ UNCHANGED <<client, asked, shown>>

Show ==
  /\ client = "open" /\ Len(shown) < Len(served)
  /\ shown' = Append(shown, AnswerTo(served[Len(shown) + 1]))
  /\ client' \in Stays(client)
  /\ UNCHANGED <<server, asked, served>>

Close ==
  /\ client' \in Stays(client) /\ server' \in Stays(server)
  /\ UNCHANGED <<asked, served, shown>>

Next ==
  \/ ServerOpens \/ ClientOpens \/ Serve \/ Show \/ Close
  \/ \E i \in DOMAIN asked' : Ask(asked'[i])

Spec == Init /\ [][Next]_vars

=============================================================================
