------------------------------ MODULE Listener ------------------------------
(***************************************************************************)
(* TunnelServer::run and the connection counter it shares with the session *)
(* tasks (src/src/server.rs).  run takes &self and binds a socket of its   *)
(* own, so a server may be run more than once, as with port 0; every       *)
(* call is an accept loop of its own on the one counter.  A session is     *)
(* what module Tunnel describes; here it runs for as long as it likes and  *)
(* then ends.                                                              *)
(*                                                                         *)
(* Every access to the counter is Relaxed.  Increments and decrements read *)
(* the newest value, but the load of an accept loop may return any value   *)
(* the counter has had since that loop last saw it.                        *)
(***************************************************************************)
EXTENDS Integers, Sequences, FiniteSets

CONSTANTS
  Loops,        \* the calls of run
  Connections,  \* the connections that clients open
  Limits,       \* max_connections: <<>> for None, <<n>> for Some(n)
  UsizeMax,     \* the largest value of the counter
  MaxResets     \* bound: calls of reset_connections

ASSUME ListenerAssumption ==
  /\ IsFiniteSet(Loops) /\ IsFiniteSet(Connections) /\ Connections # {}
  /\ UsizeMax \in Nat /\ Cardinality(Connections) < UsizeMax
  /\ MaxResets \in Nat
  /\ Limits \subseteq Seq(Nat) /\ \A max \in Limits : Len(max) <= 1

VARIABLES
  limit,               \* the configured limit
  active_connections,  \* the counter
  stale,    \* per loop: older values of the counter it may still read, newest last
  loop,     \* per loop: where it is
  current,  \* per loop: the connection it is dealing with
  port,     \* the loop whose address a connection is made to
  status,   \* what became of each connection
  resets    \* calls of reset_connections so far

counterVars == <<active_connections, stale>>
loopVars == <<loop, current>>
vars == <<limit, counterVars, loopVars, port, status, resets>>

\* Variant: one connection too many is let in.
AtLimit_lenient(active) == limit # <<>> /\ active > limit[1]

AtLimit(active) == limit # <<>> /\ active >= limit[1]

is_at_capacity == AtLimit(active_connections)

Init ==
  /\ limit \in Limits
  /\ active_connections = 0 /\ stale = [l \in Loops |-> <<>>]
  /\ loop = [l \in Loops |-> "new"]
  /\ current = [l \in Loops |-> CHOOSE c \in Connections : TRUE]  \* not read before accept
  /\ port \in [Connections -> Loops]
  /\ status = [c \in Connections |-> "new"]
  /\ resets = 0

\* The counter changes; loops other than those in `seeing` need not notice.
CounterBecomes(n, seeing) ==
  /\ active_connections' = n
  /\ stale' = [l \in Loops |->
                 IF l \in seeing THEN <<>> ELSE Append(stale[l], active_connections)]

Moves(l, from, to) == loop[l] = from /\ loop' = [loop EXCEPT ![l] = to]

Becomes(c, what) == status' = [status EXCEPT ![c] = what]

\* run binds its socket, or returns the error.
Bind(l) ==
  /\ Moves(l, "new", "accept") \/ Moves(l, "new", "err")
  /\ UNCHANGED <<limit, counterVars, current, port, status, resets>>

Started == { l \in Loops : loop[l] \notin {"new", "err"} }

\* A client connects; the kernel queues the connection.
Connect(c) ==
  /\ status[c] = "new" /\ port[c] \in Started
  /\ Becomes(c, "queued")
  /\ UNCHANGED <<limit, counterVars, loopVars, port, resets>>

\* An accept that returns an error (out of file descriptors, say) is logged and tried
\* again; it leaves the connection in the queue, and every variable as it is.
Accept(l, c) ==
  /\ status[c] = "queued" /\ port[c] = l
  /\ Moves(l, "accept", "load")
  /\ current' = [current EXCEPT ![l] = c]
  /\ Becomes(c, "accepted")
  /\ UNCHANGED <<limit, counterVars, port, resets>>

\* The load and the comparison with max; at the limit the socket is dropped.
Load(l) ==
  /\ \E i \in 1 .. Len(stale[l]) + 1 :
       LET active == Append(stale[l], active_connections)[i]
       IN  /\ stale' = [stale EXCEPT ![l] = SubSeq(stale[l], i, Len(stale[l]))]
           /\ \/ AtLimit(active) /\ Moves(l, "load", "accept") /\ Becomes(current[l], "refused")
              \/ ~AtLimit(active) /\ Moves(l, "load", "add") /\ UNCHANGED status
  /\ UNCHANGED <<limit, active_connections, current, port, resets>>

\* counter.fetch_add(1).
Add(l) ==
  /\ Moves(l, "add", "spawn")
  /\ CounterBecomes((active_connections + 1) % (UsizeMax + 1), {l})
  /\ Becomes(current[l], "counted")
  /\ UNCHANGED <<limit, current, port, resets>>

\* Variant: the loop awaits the session instead of spawning a task for it.
Spawn_awaited(l) ==
  /\ Moves(l, "spawn", "session")
  /\ Becomes(current[l], "live")
  /\ UNCHANGED <<limit, counterVars, current, port, resets>>

Spawn(l) ==
  /\ Moves(l, "spawn", "accept")
  /\ Becomes(current[l], "live")
  /\ UNCHANGED <<limit, counterVars, current, port, resets>>

\* handle_client_with_prologue returns, with Ok or with an error.
SessionEnds(c) ==
  /\ status[c] = "live"
  /\ Becomes(c, "ended ok") \/ Becomes(c, "ended err")
  /\ UNCHANGED <<limit, counterVars, loopVars, port, resets>>

\* Variant: a session that ended with an error keeps its slot.
Release_unless_error(c) ==
  /\ status[c] \in {"ended ok", "ended err"}
  /\ Becomes(c, "released")
  /\ IF status[c] = "ended ok"
       THEN CounterBecomes((active_connections - 1) % (UsizeMax + 1), {})
       ELSE UNCHANGED counterVars
  /\ UNCHANGED <<limit, loopVars, port, resets>>

\* counter.fetch_sub(1), which wraps below zero.
Release(c) ==
  /\ status[c] \in {"ended ok", "ended err"}
  /\ Becomes(c, "released")
  /\ CounterBecomes((active_connections - 1) % (UsizeMax + 1), {})
  /\ UNCHANGED <<limit, loopVars, port, resets>>

\* reset_connections, from whoever holds the server.
Reset ==
  /\ resets < MaxResets
  /\ CounterBecomes(0, {})
  /\ resets' = resets + 1
  /\ UNCHANGED <<limit, loopVars, port, status>>

Loop(l) == Bind(l) \/ Load(l) \/ Add(l) \/ Spawn(l) \/ \E c \in Connections : Accept(l, c)

Next ==
  \/ \E c \in Connections : Connect(c) \/ SessionEnds(c) \/ Release(c)
  \/ \E l \in Loops : Loop(l)
  \/ Reset

Spec == Init /\ [][Next]_vars

\* tokio runs the accept loops and every task that can go on, and accept does not fail
\* for ever while a connection is queued; clients come and sessions end as they like.
FairSpec ==
  Spec /\ (\A l \in Loops : WF_vars(Loop(l))) /\ \A c \in Connections : WF_vars(Release(c))

-----------------------------------------------------------------------------
(* Properties *)

Statuses == {"new", "queued", "accepted", "refused", "counted", "live",
             "ended ok", "ended err", "released"}

\* The types of the variables, for the proofs: Add, Release and Reset are modulo
\* UsizeMax + 1, so that the counter is a usize says nothing of the code.
TypeOK ==
  /\ limit \in Limits
  /\ active_connections \in 0 .. UsizeMax
  /\ stale \in [Loops -> Seq(0 .. UsizeMax)]
  /\ loop \in [Loops -> {"new", "err", "accept", "load", "add", "spawn"}]
  /\ current \in [Loops -> Connections]
  /\ port \in [Connections -> Loops]
  /\ status \in [Connections -> Statuses]
  /\ resets \in 0 .. MaxResets

\* The connections that hold a slot, from fetch_add to fetch_sub.
Holding == { c \in Connections : status[c] \in {"counted", "live", "ended ok", "ended err"} }

\* The counter is exactly the number of slots in use: no path through accept and
\* no end of a session loses or doubles one, however many loops count.
CounterExact == resets = 0 => active_connections = Cardinality(Holding)

\* What with_max_connections promises: never more sessions at once than the limit.
\* One accept loop keeps it although its load may return an old value and is not one
\* step with the increment; two do not.
LimitRespected == resets = 0 /\ limit # <<>> => Cardinality(Holding) <= limit[1]

\* What any number of accept loops on one counter leave of that: each loop but the first
\* may let one session too many in, so that while only one has run the limit holds, and
\* none lets in any when the limit is zero.
ExcessBounded ==
  resets = 0 /\ limit # <<>> =>
    Cardinality(Holding) <= IF limit[1] = 0 THEN 0 ELSE limit[1] + Cardinality(Started) - 1

\* A client that connects is taken or turned away however long the running
\* sessions last, unless accept fails for ever.
EveryClientAnswered ==
  \A c \in Connections :
    status[c] = "queued" ~> status[c] \in {"refused", "live", "ended ok", "ended err", "released"}

\* A server at capacity is serving somebody, so that capacity can come back.
FullMeansServing == is_at_capacity /\ limit[1] > 0 => Holding # {}

=============================================================================
