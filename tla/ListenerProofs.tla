--------------------------- MODULE ListenerProofs ---------------------------
(***************************************************************************)
(* The counter and the limit of module Listener for every set of accept    *)
(* loops and connections, every limit and every number of resets.          *)
(***************************************************************************)
EXTENDS Listener, FiniteSetTheorems, SequenceTheorems, TLAPS

USE ListenerAssumption

-----------------------------------------------------------------------------
(* The inductive invariant *)

Taken == {"counted", "live", "ended ok", "ended err"}

Busy == {"load", "add", "spawn"}

\* What a loop knows of the connection it is dealing with, which is its own.
CurrentStatus ==
  \A l \in Loops :
    loop[l] \in Busy =>
      /\ port[current[l]] = l
      /\ status[current[l]] = IF loop[l] = "spawn" THEN "counted" ELSE "accepted"

\* The loops that may still let a connection in: past the load, or able to load
\* a value below the limit.
Exposed ==
  { l \in Started :
      \/ loop[l] = "add"
      \/ active_connections < limit[1]
      \/ \E i \in DOMAIN stale[l] : stale[l][i] < limit[1] }

\* The slots in use and those that may still be taken.  A loop that sees its own
\* increment reach the limit is no longer exposed, and one whose increment stays
\* below it proves that there was room.
Bound == IF limit[1] = 0 THEN 0 ELSE limit[1] + Cardinality(Started) - 1

RoomForExposed ==
  resets = 0 /\ limit # <<>> => Cardinality(Holding) + Cardinality(Exposed) <= Bound

IInv ==
  /\ TypeOK
  /\ CurrentStatus
  /\ CounterExact
  /\ RoomForExposed

-----------------------------------------------------------------------------
(* Facts about the sets counted *)

\* Never more slots are in use than there are connections.
LEMMA HoldingBounded ==
  /\ IsFiniteSet(Holding)
  /\ Cardinality(Holding) \in Nat
  /\ Cardinality(Holding) < UsizeMax
  <1>1. Holding \subseteq Connections
    BY DEF Holding
  <1>2. /\ IsFiniteSet(Holding)
        /\ Cardinality(Holding) <= Cardinality(Connections)
    BY <1>1, FS_Subset
  <1>3. Cardinality(Holding) \in Nat /\ Cardinality(Connections) \in Nat
    BY <1>2, FS_CardinalityType
  <1>. QED
    BY <1>2, <1>3

\* The exposed loops are loops that were started.
LEMMA LoopsBounded ==
  /\ IsFiniteSet(Started) /\ Cardinality(Started) \in Nat
  /\ IsFiniteSet(Exposed) /\ Cardinality(Exposed) \in Nat
  /\ Cardinality(Exposed) <= Cardinality(Started)
  <1>1. Started \subseteq Loops /\ Exposed \subseteq Started
    BY DEF Started, Exposed
  <1>2. IsFiniteSet(Started)
    BY <1>1, FS_Subset
  <1>3. IsFiniteSet(Exposed) /\ Cardinality(Exposed) <= Cardinality(Started)
    BY <1>1, <1>2, FS_Subset
  <1>. QED
    BY <1>2, <1>3, FS_CardinalityType

\* A limit is a number.
LEMMA LimitTyped ==
  ASSUME TypeOK, limit # <<>>
  PROVE  limit[1] \in Nat
  <1>1. limit \in Seq(Nat)
    BY DEF TypeOK
  <1>. QED
    BY <1>1

\* The bound is a number, and allows for every started loop once the limit does
\* not forbid everything.
LEMMA BoundTyped ==
  ASSUME TypeOK, limit # <<>>
  PROVE  /\ Bound \in Int
         /\ limit[1] > 0 => Bound = limit[1] + Cardinality(Started) - 1
  BY LimitTyped, LoopsBounded DEF Bound

\* What the inductive invariant says bounds the excess over the limit.
LEMMA RoomBoundsExcess ==
  ASSUME TypeOK, RoomForExposed
  PROVE  ExcessBounded
  <1>. SUFFICES ASSUME resets = 0, limit # <<>>
                PROVE  Cardinality(Holding) <= Bound
    BY DEF ExcessBounded, Bound
  <1>. QED
    BY HoldingBounded, LoopsBounded, BoundTyped DEF RoomForExposed

\* A wrapped value is a value of the counter, and in range nothing wraps.
LEMMA Wraps ==
  ASSUME NEW x \in Int
  PROVE  /\ x % (UsizeMax + 1) \in 0 .. UsizeMax
         /\ x \in 0 .. UsizeMax => x % (UsizeMax + 1) = x
  OBVIOUS

\* A connection that stays on its side of Taken changes no slot.
LEMMA SameHolding ==
  ASSUME TypeOK, NEW c \in Connections, NEW s \in Statuses, Becomes(c, s),
         status[c] \in Taken <=> s \in Taken
  PROVE  status' \in [Connections -> Statuses] /\ Holding' = Holding
  BY DEF TypeOK, Holding, Taken, Becomes

\* A change of the counter keeps the types, and every value a loop may see
\* afterwards is the new one, the one it replaced, or one it could see before.
LEMMA CounterStep ==
  ASSUME TypeOK, NEW n \in 0 .. UsizeMax, NEW seeing, CounterBecomes(n, seeing)
  PROVE  /\ active_connections' = n
         /\ stale' \in [Loops -> Seq(0 .. UsizeMax)]
         /\ \A l \in Loops : l \in seeing => stale'[l] = <<>>
         /\ \A l \in Loops : \A i \in DOMAIN stale'[l] :
              \/ stale'[l][i] = active_connections
              \/ \E j \in DOMAIN stale[l] : stale'[l][i] = stale[l][j]
  <1>1. /\ active_connections' = n
        /\ stale' = [l \in Loops |->
                       IF l \in seeing THEN <<>> ELSE Append(stale[l], active_connections)]
    BY DEF CounterBecomes
  <1>2. ASSUME NEW l \in Loops
        PROVE  /\ stale'[l] \in Seq(0 .. UsizeMax)
               /\ \A i \in DOMAIN stale'[l] :
                    \/ stale'[l][i] = active_connections
                    \/ \E j \in DOMAIN stale[l] : stale'[l][i] = stale[l][j]
    <2>1. stale[l] \in Seq(0 .. UsizeMax) /\ active_connections \in 0 .. UsizeMax
      BY DEF TypeOK
    <2>2. CASE l \in seeing
      BY <1>1, <2>2
    <2>3. CASE l \notin seeing
      <3>1. stale'[l] = Append(stale[l], active_connections)
        BY <1>1, <2>3
      <3>. QED
        BY <2>1, <3>1
    <2>. QED
      BY <2>2, <2>3
  <1>. QED
    BY <1>1, <1>2

\* A counter that is not below the limit exposes no loop.
LEMMA NotExposed ==
  ASSUME TypeOK, limit # <<>>, NEW n \in 0 .. UsizeMax, NEW seeing,
         CounterBecomes(n, seeing), limit' = limit, Started' \subseteq Started,
         \A l \in Loops : loop'[l] = "add" => loop[l] = "add",
         n >= limit[1]
  PROVE  Exposed' \subseteq Exposed
  <1>. SUFFICES ASSUME NEW l \in Exposed' PROVE l \in Exposed
    OBVIOUS
  <1>1. l \in Started' /\ l \in Started /\ l \in Loops
    BY DEF Exposed, Started
  <1>2. active_connections' = n /\ ~(n < limit[1])
    BY CounterStep, LimitTyped
  <1>3. CASE loop'[l] = "add"
    BY <1>1, <1>3 DEF Exposed
  <1>4. ASSUME NEW i \in DOMAIN stale'[l], stale'[l][i] < limit[1]
        PROVE  l \in Exposed
    <2>1. \/ stale'[l][i] = active_connections
          \/ \E j \in DOMAIN stale[l] : stale'[l][i] = stale[l][j]
      BY <1>1, CounterStep
    <2>. QED
      BY <1>1, <1>4, <2>1 DEF Exposed
  <1>. QED
    BY <1>2, <1>3, <1>4 DEF Exposed

\* A step that takes no slot and exposes no loop keeps the room.
LEMMA RoomKept ==
  ASSUME TypeOK, RoomForExposed, limit' = limit, resets' = resets,
         Cardinality(Started') = Cardinality(Started),
         limit # <<>> => /\ Exposed' \subseteq Exposed
                         /\ Cardinality(Holding') <= Cardinality(Holding),
         Cardinality(Holding') \in Nat
  PROVE  RoomForExposed'
  <1>. SUFFICES ASSUME resets = 0, limit # <<>>
                PROVE  Cardinality(Holding') + Cardinality(Exposed') <= Bound'
    BY DEF RoomForExposed
  <1>1. Bound' = Bound /\ Bound \in Int
    BY BoundTyped DEF Bound
  <1>2. Cardinality(Exposed') <= Cardinality(Exposed) /\ Cardinality(Exposed') \in Nat
    BY LoopsBounded, FS_Subset, FS_CardinalityType
  <1>3. Cardinality(Holding) + Cardinality(Exposed) <= Bound
    BY DEF RoomForExposed
  <1>. QED
    BY <1>1, <1>2, <1>3, HoldingBounded, LoopsBounded

\* As long as fewer slots than the limit are in use there is room for every loop.
LEMMA RoomBelowLimit ==
  ASSUME TypeOK, limit' = limit,
         limit # <<>> => Cardinality(Holding') < limit[1],
         Cardinality(Holding') \in Nat,
         IsFiniteSet(Started'), Exposed' \subseteq Started'
  PROVE  RoomForExposed'
  <1>. SUFFICES ASSUME limit # <<>>
                PROVE  Cardinality(Holding') + Cardinality(Exposed') <= Bound'
    BY DEF RoomForExposed
  <1>1. limit[1] \in Nat /\ limit[1] # 0
    BY LimitTyped
  <1>2. Bound' = limit[1] + Cardinality(Started') - 1
    BY <1>1 DEF Bound
  <1>3. /\ Cardinality(Started') \in Nat /\ Cardinality(Exposed') \in Nat
        /\ Cardinality(Exposed') <= Cardinality(Started')
    BY FS_Subset, FS_CardinalityType
  <1>. QED
    BY <1>1, <1>2, <1>3

\* A loop keeps its connection while other loops and connections move.
LEMMA OwnConnection ==
  ASSUME TypeOK, CurrentStatus, NEW c \in Connections, NEW s, Becomes(c, s), port' = port,
         NEW k \in Loops, loop[k] \in Busy, loop'[k] = loop[k], current'[k] = current[k],
         status[c] \notin {"accepted", "counted"} \/ port[c] # k
  PROVE  /\ port'[current'[k]] = k
         /\ status'[current'[k]] = IF loop'[k] = "spawn" THEN "counted" ELSE "accepted"
  <1>1. /\ port[current[k]] = k
        /\ status[current[k]] = IF loop[k] = "spawn" THEN "counted" ELSE "accepted"
    BY DEF CurrentStatus
  <1>2. current[k] # c
    BY <1>1
  <1>3. status'[current[k]] = status[current[k]]
    BY <1>2 DEF Becomes, TypeOK
  <1>. QED
    BY <1>1, <1>3

\* The same for a step of loop l on its own connection.
LEMMA OthersKeepTheirs ==
  ASSUME TypeOK, CurrentStatus, NEW l \in Loops, NEW s, NEW to,
         loop' = [loop EXCEPT ![l] = to], port[current[l]] = l,
         Becomes(current[l], s), UNCHANGED <<current, port>>,
         to \in Busy => s = IF to = "spawn" THEN "counted" ELSE "accepted"
  PROVE  CurrentStatus'
  <1>. SUFFICES ASSUME NEW k \in Loops, loop'[k] \in Busy
                PROVE  /\ port'[current'[k]] = k
                       /\ status'[current'[k]] = IF loop'[k] = "spawn" THEN "counted"
                                                 ELSE "accepted"
    BY DEF CurrentStatus
  <1>1. CASE k = l
    <2>1. loop'[l] = to /\ current[l] \in Connections
      BY DEF TypeOK
    <2>2. status'[current[l]] = s
      BY <2>1 DEF Becomes, TypeOK
    <2>. QED
      BY <1>1, <2>1, <2>2
  <1>2. CASE k # l
    <2>1. loop'[k] = loop[k] /\ current[l] \in Connections
      BY <1>2 DEF TypeOK
    <2>. QED
      BY <1>2, <2>1, OwnConnection
  <1>. QED
    BY <1>1, <1>2

-----------------------------------------------------------------------------
(* One lemma per kind of step *)

LEMMA InitIInv == Init => IInv
  <1>. SUFFICES ASSUME Init PROVE IInv
    OBVIOUS
  <1>. USE DEF Init
  <1>1. TypeOK
    BY DEF TypeOK, Statuses
  <1>2. Holding = {} /\ Started = {} /\ CurrentStatus
    BY DEF Holding, Started, CurrentStatus, Busy
  <1>3. Exposed = {}
    BY <1>2 DEF Exposed
  <1>4. Cardinality(Holding) = 0 /\ Cardinality(Started) = 0 /\ Cardinality(Exposed) = 0
    BY <1>2, <1>3, FS_EmptySet
  <1>5. CounterExact
    BY <1>4 DEF CounterExact
  <1>6. RoomForExposed
    BY <1>1, <1>4, LimitTyped DEF RoomForExposed, Bound
  <1>. QED
    BY <1>1, <1>2, <1>5, <1>6 DEF IInv

\* A loop that starts is exposed, and allowed for.
LEMMA BindIInv ==
  ASSUME IInv, NEW l \in Loops, Bind(l)
  PROVE  IInv'
  <1>. USE DEF IInv
  <1>1. PICK to \in {"accept", "err"} : loop[l] = "new" /\ loop' = [loop EXCEPT ![l] = to]
    BY DEF Bind, Moves
  <1>2. UNCHANGED <<limit, active_connections, stale, current, port, status, resets>>
    BY DEF Bind, counterVars
  <1>3. TypeOK'
    BY <1>1, <1>2 DEF TypeOK
  <1>4. CurrentStatus'
    BY <1>1, <1>2 DEF CurrentStatus, Busy, TypeOK
  <1>5. Holding' = Holding /\ CounterExact'
    BY <1>2 DEF Holding, CounterExact
  <1>6. l \notin Started /\ l \notin Exposed
    BY <1>1 DEF Started, Exposed
  <1>7. RoomForExposed'
    <2>1. CASE to = "err"
      <3>1. Started' = Started /\ Exposed' = Exposed
        BY <1>1, <1>2, <2>1 DEF Started, Exposed, TypeOK
      <3>. QED
        BY <1>2, <1>5, <3>1, RoomKept, HoldingBounded
    <2>2. CASE to = "accept"
      <3>. SUFFICES ASSUME resets = 0, limit # <<>>
                    PROVE  Cardinality(Holding) + Cardinality(Exposed') <= Bound'
        BY <1>2, <1>5 DEF RoomForExposed
      <3>1. Started' = Started \cup {l}
        BY <1>1, <2>2 DEF Started, TypeOK
      <3>2. Cardinality(Started') = Cardinality(Started) + 1
        BY <1>6, <3>1, LoopsBounded, FS_AddElement
      <3>3. limit[1] \in Nat /\ active_connections \in Nat
        BY LimitTyped DEF TypeOK
      <3>4. CASE limit[1] = 0
        <4>1. l \notin Exposed'
          <5>1. loop'[l] = "accept" /\ stale' = stale /\ stale[l] \in Seq(0 .. UsizeMax)
            BY <1>1, <1>2, <2>2 DEF TypeOK
          <5>2. \A i \in DOMAIN stale[l] : stale[l][i] \in Nat
            BY <5>1
          <5>. QED
            BY <1>2, <3>3, <3>4, <5>1, <5>2 DEF Exposed
        <4>2. Exposed' \subseteq Exposed
          BY <1>1, <1>2, <3>1, <4>1 DEF Exposed, TypeOK
        <4>3. Cardinality(Exposed') <= Cardinality(Exposed) /\ Cardinality(Exposed') \in Nat
          BY <4>2, LoopsBounded, FS_Subset, FS_CardinalityType
        <4>4. Cardinality(Holding) + Cardinality(Exposed) <= 0 /\ Bound' = 0
          BY <1>2, <3>4 DEF RoomForExposed, Bound
        <4>. QED
          BY <4>3, <4>4, HoldingBounded, LoopsBounded
      <3>5. CASE limit[1] # 0
        <4>1. Exposed' \subseteq Exposed \cup {l}
          BY <1>1, <1>2, <3>1 DEF Exposed, TypeOK
        <4>2. /\ IsFiniteSet(Exposed \cup {l})
              /\ Cardinality(Exposed \cup {l}) = Cardinality(Exposed) + 1
          BY <1>6, LoopsBounded, FS_AddElement
        <4>3. Cardinality(Exposed') <= Cardinality(Exposed) + 1 /\ Cardinality(Exposed') \in Nat
          BY <4>1, <4>2, FS_Subset, FS_CardinalityType
        <4>4. /\ Cardinality(Holding) + Cardinality(Exposed) <= limit[1] + Cardinality(Started) - 1
              /\ Bound' = limit[1] + Cardinality(Started') - 1
          BY <1>2, <3>5 DEF RoomForExposed, Bound
        <4>. QED
          BY <3>2, <3>3, <4>3, <4>4, HoldingBounded, LoopsBounded
      <3>. QED
        BY <3>4, <3>5
    <2>. QED
      BY <1>1, <2>1, <2>2
  <1>. QED
    BY <1>3, <1>4, <1>5, <1>7

\* Steps that leave the counter and the slots alone: a client connects, is
\* accepted, or its session ends.
LEMMA OutsideIInv ==
  ASSUME IInv, NEW c \in Connections, NEW l \in Loops,
         Connect(c) \/ Accept(l, c) \/ SessionEnds(c)
  PROVE  IInv'
  <1>. USE DEF IInv
  <1>1. UNCHANGED <<limit, active_connections, stale, port, resets>>
    BY DEF Connect, Accept, SessionEnds, counterVars
  <1>2. PICK s \in Statuses : /\ Becomes(c, s)
                              /\ status[c] \in Taken <=> s \in Taken
                              /\ status[c] \notin {"accepted", "counted"}
    BY DEF Connect, Accept, SessionEnds, Statuses, Taken
  <1>3. Holding' = Holding /\ status' \in [Connections -> Statuses]
    BY <1>2, SameHolding
  <1>4. \/ UNCHANGED <<loop, current>>
        \/ /\ loop[l] = "accept" /\ loop' = [loop EXCEPT ![l] = "load"]
           /\ current' = [current EXCEPT ![l] = c] /\ port[c] = l /\ Becomes(c, "accepted")
    BY DEF Connect, Accept, SessionEnds, loopVars, Moves
  <1>5. /\ loop' \in [Loops -> {"new", "err", "accept", "load", "add", "spawn"}]
        /\ current' \in [Loops -> Connections]
        /\ \A k \in Loops : loop'[k] = "add" => loop[k] = "add"
        /\ Started' = Started
    BY <1>4 DEF TypeOK, Started
  <1>6. TypeOK'
    BY <1>1, <1>3, <1>5 DEF TypeOK
  <1>7. CurrentStatus'
    <2>. SUFFICES ASSUME NEW k \in Loops, loop'[k] \in Busy
                  PROVE  /\ port'[current'[k]] = k
                         /\ status'[current'[k]] = IF loop'[k] = "spawn" THEN "counted"
                                                   ELSE "accepted"
      BY DEF CurrentStatus
    <2>1. CASE loop'[k] = loop[k] /\ current'[k] = current[k]
      BY <1>1, <1>2, <2>1, OwnConnection
    <2>2. CASE ~(loop'[k] = loop[k] /\ current'[k] = current[k])
      <3>1. /\ k = l /\ loop'[k] = "load" /\ current'[k] = c
            /\ port[c] = l /\ Becomes(c, "accepted")
        BY <1>4, <2>2 DEF TypeOK
      <3>. QED
        BY <1>1, <3>1 DEF Becomes, TypeOK
    <2>. QED
      BY <2>1, <2>2
  <1>8. CounterExact'
    BY <1>1, <1>3 DEF CounterExact
  <1>9. Exposed' \subseteq Exposed
    BY <1>1, <1>5 DEF Exposed, Started
  <1>10. RoomForExposed'
    BY <1>1, <1>3, <1>5, <1>9, RoomKept, HoldingBounded
  <1>. QED
    BY <1>6, <1>7, <1>8, <1>10

\* A loop has a connection of its own while it is busy.
LEMMA OwnTyped ==
  ASSUME TypeOK, CurrentStatus, NEW l \in Loops, loop[l] \in Busy
  PROVE  current[l] \in Connections /\ port[current[l]] = l
  BY DEF TypeOK, CurrentStatus

\* The load lets a connection through only on a loop that was exposed.
LEMMA LoadIInv ==
  ASSUME IInv, NEW l \in Loops, Load(l)
  PROVE  IInv'
  <1>. USE DEF IInv
  <1>1. PICK i \in 1 .. Len(stale[l]) + 1 :
          /\ stale' = [stale EXCEPT ![l] = SubSeq(stale[l], i, Len(stale[l]))]
          /\ \/ /\ AtLimit(Append(stale[l], active_connections)[i])
                /\ Moves(l, "load", "accept") /\ Becomes(current[l], "refused")
             \/ /\ ~AtLimit(Append(stale[l], active_connections)[i])
                /\ Moves(l, "load", "add") /\ UNCHANGED status
    BY DEF Load
  <1>2. UNCHANGED <<limit, active_connections, current, port, resets>>
    BY DEF Load
  <1>3. loop[l] = "load"
    BY <1>1 DEF Moves
  <1>4. /\ current[l] \in Connections /\ port[current[l]] = l
        /\ status[current[l]] = "accepted"
    BY <1>3, OwnTyped DEF CurrentStatus, Busy
  <1>5. stale[l] \in Seq(0 .. UsizeMax) /\ Len(stale[l]) \in Nat
    BY DEF TypeOK
  <1>6. /\ SubSeq(stale[l], i, Len(stale[l])) \in Seq(0 .. UsizeMax)
        /\ \A k \in DOMAIN SubSeq(stale[l], i, Len(stale[l])) :
             \E j \in DOMAIN stale[l] : SubSeq(stale[l], i, Len(stale[l]))[k] = stale[l][j]
    <2>1. /\ \A k \in i .. Len(stale[l]) : stale[l][k] \in 0 .. UsizeMax
          /\ i \in 1 .. Len(stale[l]) + 1
      BY <1>5
    <2>2. /\ SubSeq(stale[l], i, Len(stale[l])) \in Seq(0 .. UsizeMax)
          /\ Len(SubSeq(stale[l], i, Len(stale[l]))) = Len(stale[l]) - i + 1
          /\ \A k \in 1 .. Len(stale[l]) - i + 1 :
               SubSeq(stale[l], i, Len(stale[l]))[k] = stale[l][i + k - 1]
      BY <1>5, <2>1, SubSeqProperties
    <2>3. \A k \in 1 .. Len(stale[l]) - i + 1 : i + k - 1 \in DOMAIN stale[l]
      BY <1>5, <2>1
    <2>. QED
      BY <2>2, <2>3
  <1>7. /\ stale' \in [Loops -> Seq(0 .. UsizeMax)]
        /\ \A m \in Loops : \A k \in DOMAIN stale'[m] :
             \E j \in DOMAIN stale[m] : stale'[m][k] = stale[m][j]
    BY <1>1, <1>6 DEF TypeOK
  <1>8. PICK to \in {"accept", "add"} : loop' = [loop EXCEPT ![l] = to]
    BY <1>1 DEF Moves
  <1>9. Started' = Started
    BY <1>3, <1>8 DEF Started, TypeOK
  <1>10. status' \in [Connections -> Statuses] /\ Holding' = Holding
    <2>1. CASE Becomes(current[l], "refused")
      BY <1>4, <2>1, SameHolding DEF Statuses, Taken
    <2>2. CASE UNCHANGED status
      BY <2>2 DEF TypeOK, Holding
    <2>. QED
      BY <1>1, <2>1, <2>2
  <1>11. TypeOK'
    BY <1>2, <1>7, <1>8, <1>10 DEF TypeOK
  <1>12. CurrentStatus'
    <2>1. CASE Moves(l, "load", "accept") /\ Becomes(current[l], "refused")
      BY <1>2, <1>4, <2>1, OthersKeepTheirs DEF Moves, Busy
    <2>2. CASE Moves(l, "load", "add") /\ UNCHANGED status
      BY <1>2, <2>2 DEF Moves, CurrentStatus, Busy, TypeOK
    <2>. QED
      BY <1>1, <2>1, <2>2
  <1>13. CounterExact'
    BY <1>2, <1>10 DEF CounterExact
  <1>14. ASSUME limit # <<>> PROVE Exposed' \subseteq Exposed
    <2>. SUFFICES ASSUME NEW m \in Exposed' PROVE m \in Exposed
      OBVIOUS
    <2>1. m \in Started /\ m \in Loops
      BY <1>9 DEF Exposed, Started
    <2>2. CASE loop'[m] = "add" /\ loop[m] # "add"
      <3>1. m = l /\ Moves(l, "load", "add") /\ ~AtLimit(Append(stale[l], active_connections)[i])
        BY <1>1, <2>1, <2>2 DEF Moves, TypeOK
      <3>2. limit[1] \in Nat /\ active_connections \in Nat
        BY <1>14, LimitTyped DEF TypeOK
      <3>3. CASE i = Len(stale[l]) + 1
        <4>1. Append(stale[l], active_connections)[i] = active_connections
          BY <1>5, <3>3
        <4>. QED
          BY <1>14, <2>1, <3>1, <3>2, <4>1 DEF AtLimit, Exposed
      <3>4. CASE i \in 1 .. Len(stale[l])
        <4>1. /\ Append(stale[l], active_connections)[i] = stale[l][i]
              /\ i \in DOMAIN stale[l] /\ stale[l][i] \in Nat
          BY <1>5, <3>4
        <4>. QED
          BY <1>14, <2>1, <3>1, <3>2, <4>1 DEF AtLimit, Exposed
      <3>. QED
        BY <1>5, <3>3, <3>4
    <2>3. CASE loop[m] = "add"
      BY <2>1, <2>3 DEF Exposed
    <2>4. CASE loop'[m] # "add"
      BY <1>2, <1>7, <2>1, <2>4 DEF Exposed
    <2>. QED
      BY <2>2, <2>3, <2>4
  <1>15. RoomForExposed'
    BY <1>2, <1>9, <1>10, <1>14, RoomKept, HoldingBounded
  <1>. QED
    BY <1>11, <1>12, <1>13, <1>15

\* fetch_add takes the slot of the connection that passed the load; either the
\* loop sees the limit reached or there was room.
LEMMA AddIInv ==
  ASSUME IInv, NEW l \in Loops, Add(l)
  PROVE  IInv'
  <1>. USE DEF IInv
  <1>. DEFINE n == (active_connections + 1) % (UsizeMax + 1)
  <1>1. /\ loop[l] = "add" /\ loop' = [loop EXCEPT ![l] = "spawn"]
        /\ CounterBecomes(n, {l}) /\ Becomes(current[l], "counted")
        /\ UNCHANGED <<limit, current, port, resets>>
    BY DEF Add, Moves
  <1>2. /\ current[l] \in Connections /\ port[current[l]] = l
        /\ status[current[l]] = "accepted"
    BY <1>1, OwnTyped DEF CurrentStatus, Busy
  <1>3. active_connections \in 0 .. UsizeMax /\ n \in 0 .. UsizeMax
    BY Wraps DEF TypeOK
  <1>4. /\ active_connections' = n
        /\ stale' \in [Loops -> Seq(0 .. UsizeMax)]
        /\ stale'[l] = <<>>
    BY <1>1, <1>3, CounterStep
  <1>5. TypeOK'
    BY <1>1, <1>3, <1>4 DEF TypeOK, Becomes, Statuses
  <1>6. CurrentStatus'
    BY <1>1, <1>2, OthersKeepTheirs
  <1>7. Holding' = Holding \cup {current[l]} /\ current[l] \notin Holding
    BY <1>1, <1>2 DEF Holding, TypeOK, Becomes
  <1>8. Cardinality(Holding') = Cardinality(Holding) + 1
    BY <1>7, HoldingBounded, FS_AddElement
  <1>9. resets = 0 => n = Cardinality(Holding) + 1
    <2>. SUFFICES ASSUME resets = 0 PROVE n = Cardinality(Holding) + 1
      OBVIOUS
    <2>1. active_connections = Cardinality(Holding)
      BY DEF CounterExact
    <2>2. active_connections + 1 \in 0 .. UsizeMax
      BY <2>1, HoldingBounded
    <2>. QED
      BY <2>1, <2>2, Wraps
  <1>10. CounterExact'
    BY <1>1, <1>4, <1>8, <1>9 DEF CounterExact
  <1>11. Started' = Started /\ l \in Started
    BY <1>1 DEF Started, TypeOK
  <1>12. RoomForExposed'
    <2>. SUFFICES ASSUME resets = 0, limit # <<>> PROVE RoomForExposed'
      BY <1>1 DEF RoomForExposed
    <2>1. limit[1] \in Nat /\ n = Cardinality(Holding')
      BY <1>8, <1>9, LimitTyped
    <2>2. CASE n < limit[1]
      <3>1. IsFiniteSet(Started') /\ Exposed' \subseteq Started'
        BY <1>11, LoopsBounded DEF Exposed
      <3>. QED
        BY <1>1, <1>3, <2>1, <2>2, <3>1, RoomBelowLimit
    <2>3. CASE ~(n < limit[1])
      <3>1. n >= limit[1]
        BY <1>3, <2>1, <2>3
      <3>2. \A m \in Loops : loop'[m] = "add" => loop[m] = "add"
        BY <1>1 DEF TypeOK
      <3>3. Exposed' \subseteq Exposed
        BY <1>1, <1>3, <1>11, <3>1, <3>2, NotExposed
      <3>4. l \in Exposed /\ l \notin Exposed'
        BY <1>1, <1>4, <1>11, <2>3 DEF Exposed, TypeOK
      <3>5. /\ IsFiniteSet(Exposed \ {l})
            /\ Cardinality(Exposed \ {l}) = Cardinality(Exposed) - 1
        BY <3>4, LoopsBounded, FS_RemoveElement
      <3>6. Exposed' \subseteq Exposed \ {l}
        BY <3>3, <3>4
      <3>7. /\ Cardinality(Exposed') \in Nat
            /\ Cardinality(Exposed') <= Cardinality(Exposed) - 1
        BY <3>5, <3>6, FS_Subset, FS_CardinalityType
      <3>8. Bound' = Bound /\ Bound \in Int
        BY <1>1, <1>11, BoundTyped DEF Bound
      <3>9. Cardinality(Holding) + Cardinality(Exposed) <= Bound
        BY DEF RoomForExposed
      <3>10. Cardinality(Holding') + Cardinality(Exposed') <= Bound'
        BY <1>8, <3>7, <3>8, <3>9, HoldingBounded, LoopsBounded
      <3>. QED
        BY <3>10 DEF RoomForExposed
    <2>. QED
      BY <2>2, <2>3
  <1>. QED
    BY <1>5, <1>6, <1>10, <1>12

\* The session task takes the connection over.
LEMMA SpawnIInv ==
  ASSUME IInv, NEW l \in Loops, Spawn(l)
  PROVE  IInv'
  <1>. USE DEF IInv
  <1>1. /\ loop[l] = "spawn" /\ loop' = [loop EXCEPT ![l] = "accept"]
        /\ Becomes(current[l], "live")
        /\ UNCHANGED <<limit, active_connections, stale, current, port, resets>>
    BY DEF Spawn, Moves, counterVars
  <1>2. /\ current[l] \in Connections /\ port[current[l]] = l
        /\ status[current[l]] = "counted"
    BY <1>1, OwnTyped DEF CurrentStatus, Busy
  <1>3. status' \in [Connections -> Statuses] /\ Holding' = Holding
    BY <1>1, <1>2, SameHolding DEF Statuses, Taken
  <1>4. TypeOK'
    BY <1>1, <1>3 DEF TypeOK
  <1>5. CurrentStatus'
    BY <1>1, <1>2, OthersKeepTheirs DEF Busy
  <1>6. CounterExact'
    BY <1>1, <1>3 DEF CounterExact
  <1>7. Started' = Started /\ Exposed' \subseteq Exposed
    BY <1>1 DEF Started, Exposed, TypeOK
  <1>8. RoomForExposed'
    BY <1>1, <1>3, <1>7, RoomKept, HoldingBounded
  <1>. QED
    BY <1>4, <1>5, <1>6, <1>8

\* fetch_sub gives back a slot that is in use, so it does not wrap; the loops it
\* exposes have room.
LEMMA ReleaseIInv ==
  ASSUME IInv, NEW c \in Connections, Release(c)
  PROVE  IInv'
  <1>. USE DEF IInv
  <1>. DEFINE n == (active_connections - 1) % (UsizeMax + 1)
  <1>1. /\ status[c] \in {"ended ok", "ended err"} /\ Becomes(c, "released")
        /\ CounterBecomes(n, {})
        /\ UNCHANGED <<limit, loop, current, port, resets>>
    BY DEF Release, loopVars
  <1>2. active_connections \in 0 .. UsizeMax /\ n \in 0 .. UsizeMax
    BY Wraps DEF TypeOK
  <1>3. active_connections' = n /\ stale' \in [Loops -> Seq(0 .. UsizeMax)]
    BY <1>1, <1>2, CounterStep
  <1>4. TypeOK'
    BY <1>1, <1>2, <1>3 DEF TypeOK, Becomes, Statuses
  <1>5. CurrentStatus'
    <2>. SUFFICES ASSUME NEW k \in Loops, loop[k] \in Busy
                  PROVE  /\ port'[current'[k]] = k
                         /\ status'[current'[k]] = IF loop'[k] = "spawn" THEN "counted"
                                                   ELSE "accepted"
      BY <1>1 DEF CurrentStatus
    <2>1. /\ port' = port /\ loop'[k] = loop[k] /\ current'[k] = current[k]
          /\ Becomes(c, "released") /\ status[c] \notin {"accepted", "counted"}
      BY <1>1
    <2>. QED
      BY <2>1, OwnConnection
  <1>6. Holding' = Holding \ {c} /\ c \in Holding
    BY <1>1 DEF Holding, TypeOK, Becomes
  <1>7. Cardinality(Holding') = Cardinality(Holding) - 1
    BY <1>6, HoldingBounded, FS_RemoveElement
  <1>8. Cardinality(Holding) \in Nat \ {0}
    BY <1>6, HoldingBounded, FS_EmptySet
  <1>9. resets = 0 => n = Cardinality(Holding) - 1
    <2>. SUFFICES ASSUME resets = 0 PROVE n = Cardinality(Holding) - 1
      OBVIOUS
    <2>1. active_connections = Cardinality(Holding)
      BY DEF CounterExact
    <2>2. active_connections - 1 \in 0 .. UsizeMax
      BY <1>2, <1>8, <2>1
    <2>. QED
      BY <2>1, <2>2, Wraps
  <1>10. CounterExact'
    BY <1>1, <1>3, <1>7, <1>9 DEF CounterExact
  <1>11. Started' = Started
    BY <1>1 DEF Started
  <1>12. RoomForExposed'
    <2>. SUFFICES ASSUME resets = 0, limit # <<>> PROVE RoomForExposed'
      BY <1>1 DEF RoomForExposed
    <2>1. limit[1] \in Nat /\ n = Cardinality(Holding') /\ Cardinality(Holding') \in Nat
      BY <1>7, <1>8, <1>9, LimitTyped
    <2>2. CASE n < limit[1]
      <3>1. IsFiniteSet(Started') /\ Exposed' \subseteq Started'
        BY <1>11, LoopsBounded DEF Exposed
      <3>. QED
        BY <1>1, <2>1, <2>2, <3>1, RoomBelowLimit
    <2>3. CASE ~(n < limit[1])
      <3>1. n >= limit[1]
        BY <1>2, <2>1, <2>3
      <3>2. Exposed' \subseteq Exposed
        BY <1>1, <1>2, <1>11, <3>1, NotExposed
      <3>3. Cardinality(Holding') <= Cardinality(Holding)
        BY <1>7, <1>8
      <3>4. limit' = limit /\ resets' = resets /\ Cardinality(Started') = Cardinality(Started)
        BY <1>1, <1>11
      <3>. QED
        BY <2>1, <3>2, <3>3, <3>4, RoomKept
    <2>. QED
      BY <2>2, <2>3
  <1>. QED
    BY <1>4, <1>5, <1>10, <1>12

\* After a reset only the types remain.
LEMMA ResetIInv ==
  ASSUME IInv, Reset
  PROVE  IInv'
  <1>. USE DEF IInv
  <1>1. /\ CounterBecomes(0, {}) /\ resets' = resets + 1 /\ resets < MaxResets
        /\ resets \in Nat
        /\ UNCHANGED <<limit, loop, current, port, status>>
    BY DEF Reset, TypeOK, loopVars
  <1>2. 0 \in 0 .. UsizeMax
    OBVIOUS
  <1>3. active_connections' = 0 /\ stale' \in [Loops -> Seq(0 .. UsizeMax)]
    BY <1>1, <1>2, CounterStep
  <1>4. TypeOK'
    BY <1>1, <1>2, <1>3 DEF TypeOK
  <1>5. resets' # 0
    BY <1>1
  <1>6. CurrentStatus'
    BY <1>1 DEF CurrentStatus
  <1>. QED
    BY <1>4, <1>5, <1>6 DEF CounterExact, RoomForExposed

-----------------------------------------------------------------------------

\* The inductive invariant holds in every reachable state.
THEOREM InductiveInvariant == Spec => []IInv
  <1>1. IInv /\ [Next]_vars => IInv'
    <2>. SUFFICES ASSUME IInv, [Next]_vars PROVE IInv'
      OBVIOUS
    <2>1. ASSUME NEW c \in Connections, Connect(c) \/ SessionEnds(c)
          PROVE  IInv'
      <3>1. port[c] \in Loops
        BY DEF IInv, TypeOK
      <3>. QED
        BY <2>1, <3>1, OutsideIInv
    <2>2. ASSUME NEW c \in Connections, Release(c) PROVE IInv'
      BY <2>2, ReleaseIInv
    <2>3. ASSUME NEW l \in Loops, Loop(l) PROVE IInv'
      <3>1. ASSUME NEW c \in Connections, Accept(l, c) PROVE IInv'
        BY <3>1, OutsideIInv
      <3>. QED
        BY <2>3, <3>1, BindIInv, LoadIInv, AddIInv, SpawnIInv DEF Loop
    <2>4. CASE Reset
      BY <2>4, ResetIInv
    <2>5. CASE UNCHANGED vars
      BY <2>5
      DEF vars, counterVars, loopVars, IInv, TypeOK, CurrentStatus, CounterExact,
          RoomForExposed, Bound, Exposed, Started, Holding
    <2>. QED
      BY <2>1, <2>2, <2>3, <2>4, <2>5 DEF Next
  <1>. QED
    BY <1>1, InitIInv, PTL DEF Spec

\* Until reset_connections is called the counter is the number of slots in use.
THEOREM CounterCorrect == Spec => []CounterExact
  <1>1. IInv => CounterExact
    BY DEF IInv
  <1>. QED
    BY <1>1, InductiveInvariant, PTL

\* However many accept loops count on it, the limit is exceeded by one session for
\* every loop but the first at most.
THEOREM ExcessIsBounded == Spec => []ExcessBounded
  <1>1. IInv => ExcessBounded
    BY RoomBoundsExcess DEF IInv
  <1>. QED
    BY <1>1, InductiveInvariant, PTL

\* On a server that runs once the Relaxed load, apart from the increment, never lets one
\* session too many in.
THEOREM NeverOverLimit ==
  ASSUME Cardinality(Loops) = 1
  PROVE  Spec => []LimitRespected
  <1>1. IInv => LimitRespected
    <2>. SUFFICES ASSUME IInv, resets = 0, limit # <<>>
                  PROVE  Cardinality(Holding) <= limit[1]
      BY DEF LimitRespected
    <2>1. Started \subseteq Loops
      BY DEF Started
    <2>2. Cardinality(Started) <= 1 /\ Cardinality(Started) \in Nat
      BY <2>1, FS_Subset, LoopsBounded
    <2>3. limit[1] \in Nat
      BY LimitTyped DEF IInv
    <2>4. Cardinality(Holding) <= IF limit[1] = 0 THEN 0 ELSE limit[1] + Cardinality(Started) - 1
      BY RoomBoundsExcess DEF IInv, ExcessBounded
    <2>. QED
      BY <2>2, <2>3, <2>4, HoldingBounded
  <1>. QED
    BY <1>1, InductiveInvariant, PTL

=============================================================================
