------------------------- MODULE FrameStreamProofs -------------------------
(***************************************************************************)
(* The properties of modules FrameCodec and FrameStream for every base,    *)
(* every field width and size limit, every set of frames, and every way a  *)
(* stream is cut into reads.  What a fold or a recursive function computes *)
(* is found by induction over sets: a set of counterexamples would have a  *)
(* least element.                                                          *)
(***************************************************************************)
EXTENDS FrameStream, WellFoundedInduction, SequenceTheorems, TLAPS

USE CodecAssumption, StreamAssumption

-----------------------------------------------------------------------------
(* Induction and recursion, in terms of sets and functions *)

\* A set of numbers that is not empty has a least element.
LEMMA LeastNumber ==
  ASSUME NEW T, T \subseteq Nat, T # {}
  PROVE  \E x \in T : \A y \in T : x <= y
  <1>. DEFINE R == OpToRel(<, Nat)
  <1>1. \E x \in T : \A y \in T : ~ (<<y, x>> \in R)
    BY NatLessThanWellFounded, WFMin
  <1>2. \A x, y \in Nat : y < x => <<y, x>> \in R
    BY DEF OpToRel
  <1>3. PICK x \in T : \A y \in T : ~ (<<y, x>> \in R)
    BY <1>1
  <1>4. \A y \in T : ~(y < x)
    <2>. HIDE DEF R
    <2>. QED
      BY <1>2, <1>3
  <1>5. \A y \in T : x <= y
    BY <1>4
  <1>. QED
    BY <1>5

\* A set with 0 and the successor of each of its numbers has every number.
LEMMA Induction ==
  ASSUME NEW S, 0 \in S, \A n \in Nat : n \in S => n + 1 \in S
  PROVE  \A n \in Nat : n \in S
  <1>. DEFINE T == { n \in Nat : n \notin S }
  <1>1. SUFFICES ASSUME T # {} PROVE FALSE
    OBVIOUS
  <1>2. PICK x \in T : \A y \in T : x <= y
    BY <1>1, LeastNumber
  <1>3. x \in Nat /\ x \notin S /\ x # 0
    BY <1>2
  <1>4. x - 1 \in Nat /\ ~(x <= x - 1) /\ (x - 1) + 1 = x
    BY <1>3
  <1>5. x - 1 \in S
    BY <1>2, <1>4
  <1>. QED
    BY <1>3, <1>4, <1>5

\* The same up to a bound.
LEMMA BoundedInduction ==
  ASSUME NEW S, NEW m \in Nat, 0 \in S, \A n \in 0 .. m - 1 : n \in S => n + 1 \in S
  PROVE  \A n \in 0 .. m : n \in S
  <1>. DEFINE U == { n \in Nat : n <= m => n \in S }
  <1>1. 0 \in U
    OBVIOUS
  <1>2. \A n \in Nat : n \in U => n + 1 \in U
    OBVIOUS
  <1>. HIDE DEF U
  <1>3. \A n \in Nat : n \in U
    BY <1>1, <1>2, Induction
  <1>. QED
    BY <1>3 DEF U

\* v computes the first n values of a recursion.
Computes(v, n, T, a, step) ==
  /\ v \in [0 .. n -> T]
  /\ v[0] = a
  /\ \A k \in 0 .. n - 1 : v[k + 1] = step[<<k, v[k]>>]

\* Two computations agree as far as both go.
LEMMA ComputesOne ==
  ASSUME NEW T, NEW a, NEW step, NEW m \in Nat, NEW n \in Nat, NEW u, NEW v,
         Computes(u, m, T, a, step), Computes(v, n, T, a, step)
  PROVE  \A k \in Nat : k <= m /\ k <= n => u[k] = v[k]
  <1>. DEFINE S == { k \in Nat : k <= m /\ k <= n => u[k] = v[k] }
  <1>1. 0 \in S
    BY DEF Computes
  <1>2. ASSUME NEW k \in Nat, k \in S PROVE k + 1 \in S
    <2>. SUFFICES ASSUME k + 1 <= m, k + 1 <= n PROVE u[k + 1] = v[k + 1]
      OBVIOUS
    <2>1. k \in 0 .. m - 1 /\ k \in 0 .. n - 1 /\ u[k] = v[k]
      BY <1>2
    <2>. QED
      BY <2>1 DEF Computes
  <1>. HIDE DEF S
  <1>3. \A k \in Nat : k \in S
    BY <1>1, <1>2, Induction
  <1>. QED
    BY <1>3 DEF S

\* The first values of a recursion can be computed.
LEMMA ComputesSome ==
  ASSUME NEW T, NEW a \in T, NEW step \in [Nat \X T -> T]
  PROVE  \A n \in Nat : \E v : Computes(v, n, T, a, step)
  <1>. DEFINE S == { n \in Nat : \E v : Computes(v, n, T, a, step) }
  <1>1. 0 \in S
    <2>. DEFINE v == [ k \in 0 .. 0 |-> a ]
    <2>1. Computes(v, 0, T, a, step)
      BY DEF Computes
    <2>. QED
      BY <2>1
  <1>2. ASSUME NEW n \in Nat, n \in S PROVE n + 1 \in S
    <2>1. PICK v : Computes(v, n, T, a, step)
      BY <1>2
    <2>. DEFINE u == [ k \in 0 .. n + 1 |-> IF k = n + 1 THEN step[<<n, v[n]>>] ELSE v[k] ]
    <2>2. v[n] \in T /\ step[<<n, v[n]>>] \in T
      BY <2>1 DEF Computes
    <2>3. /\ v \in [0 .. n -> T] /\ v[0] = a
          /\ \A k \in 0 .. n - 1 : v[k + 1] = step[<<k, v[k]>>]
      BY <2>1 DEF Computes
    <2>4. u \in [0 .. n + 1 -> T] /\ u[0] = a
      <3>1. \A k \in 0 .. n + 1 : k = n + 1 \/ k \in 0 .. n
        OBVIOUS
      <3>. QED
        BY <2>2, <2>3, <3>1
    <2>5. ASSUME NEW k \in 0 .. n PROVE u[k + 1] = step[<<k, u[k]>>]
      <3>1. k \in 0 .. n + 1 /\ k + 1 \in 0 .. n + 1 /\ k # n + 1
        OBVIOUS
      <3>2. u[k] = v[k]
        BY <3>1
      <3>3. CASE k = n
        BY <3>1, <3>2, <3>3
      <3>4. CASE k # n
        <4>1. k \in 0 .. n - 1 /\ k + 1 # n + 1
          BY <3>4
        <4>2. u[k + 1] = v[k + 1]
          BY <3>1, <4>1
        <4>. QED
          BY <2>3, <3>2, <4>1, <4>2
      <3>. QED
        BY <3>3, <3>4
    <2>6. 0 .. (n + 1) - 1 = 0 .. n
      OBVIOUS
    <2>. HIDE DEF u
    <2>7. Computes(u, n + 1, T, a, step)
      BY <2>4, <2>5, <2>6 DEF Computes
    <2>. QED
      BY <2>7
  <1>. HIDE DEF S
  <1>3. \A n \in Nat : n \in S
    BY <1>1, <1>2, Induction
  <1>. QED
    BY <1>3 DEF S

\* w is what a recursion on the numbers computes.
Recurs(w, T, a, step) ==
  /\ w \in [Nat -> T]
  /\ w[0] = a
  /\ \A k \in Nat : w[k + 1] = step[<<k, w[k]>>]

\* A recursion on the numbers defines a function.
LEMMA Recursion ==
  ASSUME NEW T, NEW a \in T, NEW step \in [Nat \X T -> T]
  PROVE  \E w : Recurs(w, T, a, step)
  <1>. DEFINE V(n) == CHOOSE v : Computes(v, n, T, a, step)
              w == [ n \in Nat |-> V(n)[n] ]
  <1>1. \A n \in Nat : Computes(V(n), n, T, a, step)
    BY ComputesSome, Zenon
  <1>. HIDE DEF V
  <1>2. w \in [Nat -> T] /\ w[0] = a
    BY <1>1 DEF Computes
  <1>3. ASSUME NEW k \in Nat PROVE w[k + 1] = step[<<k, w[k]>>]
    <2>1. V(k + 1)[k] = V(k)[k]
      BY <1>1, ComputesOne
    <2>2. V(k + 1)[k + 1] = step[<<k, V(k + 1)[k]>>]
      BY <1>1 DEF Computes
    <2>. QED
      BY <2>1, <2>2
  <1>. HIDE DEF w
  <1>4. Recurs(w, T, a, step)
    BY <1>2, <1>3 DEF Recurs
  <1>. QED
    BY <1>4

-----------------------------------------------------------------------------
(* Folds *)

\* Some numbers up to a bound have a greatest one.
LEMMA GreatestNumber ==
  ASSUME NEW n \in Nat, NEW s \in SUBSET (0 .. n), s # {}
  PROVE  Max(s) \in s /\ \A y \in s : y <= Max(s)
  <1>. DEFINE T == { m \in Nat : \A y \in s : y <= m }
  <1>1. n \in T
    OBVIOUS
  <1>2. PICK m \in T : \A y \in T : m <= y
    BY <1>1, LeastNumber
  <1>3. m \in Nat /\ (\A y \in s : y <= m) /\ \A y \in s : y \in Nat
    BY <1>2
  <1>4. m \in s
    <2>. SUFFICES ASSUME m \notin s PROVE FALSE
      OBVIOUS
    <2>1. \A y \in s : y <= m - 1
      BY <1>3
    <2>2. PICK y \in s : TRUE
      OBVIOUS
    <2>3. y \in Nat /\ y <= m - 1
      BY <1>3, <2>1
    <2>4. m - 1 \in Nat /\ ~(m <= m - 1)
      BY <1>3, <2>3
    <2>5. m - 1 \in T
      BY <2>1, <2>4
    <2>. QED
      BY <1>2, <2>4, <2>5
  <1>5. \E x \in s : \A y \in s : x >= y
    BY <1>3, <1>4
  <1>6. Max(s) \in s /\ \A y \in s : Max(s) >= y
    BY <1>5, Zenon DEF Max
  <1>. QED
    BY <1>6

\* So has a set of indices.
LEMMA MaxOfSome ==
  ASSUME NEW n \in Nat, NEW s \in SUBSET (1 .. n), s # {}
  PROVE  Max(s) \in s /\ \A y \in s : y <= Max(s)
  <1>1. s \in SUBSET (0 .. n)
    OBVIOUS
  <1>. QED
    BY <1>1, GreatestNumber

\* The recursion of the folds over sequences, which takes the last index first.
Folds(g, n, a, step) ==
  g = [ s \in SUBSET (1 .. n) |->
          IF s = {} THEN a ELSE step[<<Max(s), g[s \ {Max(s)}]>>] ]

\* The same, computed from the first index on.
Chain(w, s, T, a, step) ==
  /\ w \in [Nat -> T] /\ w[0] = a
  /\ \A k \in Nat : w[k + 1] = IF k + 1 \in s THEN step[<<k + 1, w[k]>>] ELSE w[k]

\* Every set of indices has its chain.
LEMMA ChainExists ==
  ASSUME NEW n \in Nat, NEW T, NEW a \in T, NEW step \in [(1 .. n) \X T -> T],
         NEW s \in SUBSET (1 .. n)
  PROVE  \E w : Chain(w, s, T, a, step)
  <1>. DEFINE next == [ p \in Nat \X T |-> IF p[1] + 1 \in s THEN step[<<p[1] + 1, p[2]>>] ELSE p[2] ]
  <1>1. next \in [Nat \X T -> T]
    OBVIOUS
  <1>2. PICK w : Recurs(w, T, a, next)
    BY <1>1, Recursion
  <1>3. Chain(w, s, T, a, step)
    <2>1. ASSUME NEW k \in Nat
          PROVE  w[k + 1] = IF k + 1 \in s THEN step[<<k + 1, w[k]>>] ELSE w[k]
      <3>1. w[k] \in T
        BY <1>2 DEF Recurs
      <3>2. w[k + 1] = next[<<k, w[k]>>]
        BY <1>2 DEF Recurs
      <3>. QED
        BY <3>1, <3>2
    <2>. QED
      BY <1>2, <2>1 DEF Chain, Recurs
  <1>. QED
    BY <1>3

\* Behind its last index a chain does not change.
LEMMA ChainEnds ==
  ASSUME NEW T, NEW a, NEW step, NEW s, NEW w, Chain(w, s, T, a, step),
         NEW j \in Nat, \A k \in Nat : k > j => k \notin s
  PROVE  \A k \in Nat : k >= j => w[k] = w[j]
  <1>. DEFINE S == { k \in Nat : w[j + k] = w[j] }
  <1>1. 0 \in S
    OBVIOUS
  <1>2. ASSUME NEW k \in Nat, k \in S PROVE k + 1 \in S
    <2>1. j + k \in Nat /\ j + (k + 1) = (j + k) + 1 /\ (j + k) + 1 > j
      OBVIOUS
    <2>2. (j + k) + 1 \notin s
      BY <2>1
    <2>3. w[(j + k) + 1] = w[j + k]
      BY <2>1, <2>2 DEF Chain
    <2>. QED
      BY <1>2, <2>1, <2>3
  <1>. HIDE DEF S
  <1>3. \A k \in Nat : k \in S
    BY <1>1, <1>2, Induction
  <1>4. ASSUME NEW k \in Nat, k >= j PROVE w[k] = w[j]
    <2>1. k - j \in Nat /\ j + (k - j) = k
      BY <1>4
    <2>. QED
      BY <1>3, <2>1 DEF S
  <1>. QED
    BY <1>4

\* Two chains agree as far as their sets of indices do.
LEMMA ChainsAgree ==
  ASSUME NEW T, NEW a, NEW step, NEW s, NEW t, NEW u, NEW w,
         Chain(u, s, T, a, step), Chain(w, t, T, a, step),
         NEW j \in Nat, \A k \in 1 .. j : k \in s <=> k \in t
  PROVE  u[j] = w[j]
  <1>. DEFINE S == { k \in Nat : u[k] = w[k] }
  <1>1. 0 \in S
    BY DEF Chain
  <1>2. ASSUME NEW k \in 0 .. j - 1, k \in S PROVE k + 1 \in S
    <2>1. k \in Nat /\ k + 1 \in Nat /\ k + 1 \in 1 .. j /\ u[k] = w[k]
      BY <1>2
    <2>2. k + 1 \in s <=> k + 1 \in t
      BY <2>1
    <2>3. u[k + 1] = IF k + 1 \in s THEN step[<<k + 1, u[k]>>] ELSE u[k]
      BY <2>1 DEF Chain
    <2>4. w[k + 1] = IF k + 1 \in t THEN step[<<k + 1, w[k]>>] ELSE w[k]
      BY <2>1 DEF Chain
    <2>5. u[k + 1] = w[k + 1]
      BY <2>1, <2>2, <2>3, <2>4, Zenon
    <2>. QED
      BY <2>1, <2>5
  <1>. HIDE DEF S
  <1>3. \A k \in 0 .. j : k \in S
    BY <1>1, <1>2, BoundedInduction
  <1>. QED
    BY <1>3 DEF S

\* The recursion of the folds has a solution.
LEMMA FoldExists ==
  ASSUME NEW n \in Nat, NEW T, NEW a \in T, NEW step \in [(1 .. n) \X T -> T]
  PROVE  \E g : g \in [SUBSET (1 .. n) -> T] /\ Folds(g, n, a, step)
  <1>. DEFINE W(s) == CHOOSE w : Chain(w, s, T, a, step)
              g == [ s \in SUBSET (1 .. n) |-> W(s)[n] ]
  <1>1. \A s \in SUBSET (1 .. n) : Chain(W(s), s, T, a, step)
    BY ChainExists, Zenon
  <1>. HIDE DEF W
  <1>0. g \in [SUBSET (1 .. n) -> T]
    BY <1>1 DEF Chain
  <1>2. g[{}] = a
    <2>1. Chain(W({}), {}, T, a, step)
      BY <1>1
    <2>2. W({})[0] = a
      BY <2>1 DEF Chain
    <2>3. \A k \in Nat : k >= 0 => W({})[k] = W({})[0]
      <3>1. \A k \in Nat : k > 0 => k \notin {}
        OBVIOUS
      <3>. QED
        BY <2>1, <3>1, ChainEnds
    <2>. QED
      BY <2>2, <2>3
  <1>3. ASSUME NEW s \in SUBSET (1 .. n), s # {}
        PROVE  g[s] = step[<<Max(s), g[s \ {Max(s)}]>>]
    <2>. DEFINE x == Max(s)
                r == s \ {x}
    <2>1. x \in s /\ \A y \in s : y <= x
      BY <1>3, MaxOfSome
    <2>. HIDE DEF x
    <2>2. /\ x \in 1 .. n /\ x \in Nat /\ x - 1 \in Nat /\ (x - 1) + 1 = x /\ n >= x
          /\ n >= x - 1
      BY <2>1
    <2>3. r \in SUBSET (1 .. n) /\ Chain(W(s), s, T, a, step) /\ Chain(W(r), r, T, a, step)
      BY <1>1
    <2>4. /\ \A k \in Nat : k > x => k \notin s
          /\ \A k \in Nat : k > x - 1 => k \notin r
          /\ \A k \in 1 .. x - 1 : k \in s <=> k \in r
      BY <2>1, <2>2
    <2>. HIDE DEF r
    <2>5. W(s)[n] = W(s)[x]
      BY <2>2, <2>3, <2>4, ChainEnds
    <2>6. W(r)[n] = W(r)[x - 1]
      BY <2>2, <2>3, <2>4, ChainEnds
    <2>7. W(s)[x - 1] = W(r)[x - 1]
      BY <2>2, <2>3, <2>4, ChainsAgree
    <2>8. W(s)[x] = step[<<x, W(s)[x - 1]>>]
      BY <2>1, <2>2, <2>3 DEF Chain
    <2>. QED
      BY <2>3, <2>5, <2>6, <2>7, <2>8 DEF x, r
  <1>. HIDE DEF g
  <1>4. Folds(g, n, a, step)
    BY <1>2, <1>3 DEF Folds, g
  <1>. QED
    BY <1>0, <1>4

\* Of the first k indices the last is taken first.
LEMMA LastIndex ==
  ASSUME NEW k \in Nat \ {0}
  PROVE  1 .. k # {} /\ Max(1 .. k) = k /\ (1 .. k) \ {k} = 1 .. k - 1
  <1>. DEFINE s == 1 .. k
  <1>1. s \in SUBSET (1 .. k) /\ k \in s /\ s # {}
    OBVIOUS
  <1>2. Max(s) \in s /\ k <= Max(s)
    BY <1>1, MaxOfSome
  <1>3. Max(s) = k
    BY <1>2
  <1>. QED
    BY <1>1, <1>3

-----------------------------------------------------------------------------
(* Digits *)

\* The constants of the format are numbers.
LEMMA Sizes ==
  /\ Base \in Nat /\ Base > 5
  /\ PrefixLen \in Nat /\ PrefixLen > 0 /\ NonceLen \in Nat /\ NonceLen > 0
  /\ MAX_FRAME_SIZE \in Nat /\ MAX_FRAME_SIZE < Weight[PrefixLen]
  /\ HeaderLen \in Nat /\ HeaderLen = 1 + NonceLen /\ HeaderLen <= MAX_FRAME_SIZE
  BY CodecAssumption DEF HeaderLen

\* The worth of a digit grows by the base, and is never nothing.
LEMMA WeightSteps ==
  /\ Weight[0] = 1
  /\ \A k \in Nat : Weight[k] \in Nat /\ Weight[k] > 0 /\ Weight[k + 1] = Base * Weight[k]
  <1>. DEFINE Defines(w) == w = [ k \in Nat |-> IF k = 0 THEN 1 ELSE Base * w[k - 1] ]
              step == [ p \in Nat \X Nat |-> Base * p[2] ]
  <1>1. step \in [Nat \X Nat -> Nat]
    OBVIOUS
  <1>2. PICK w : Recurs(w, Nat, 1, step)
    BY <1>1, Recursion
  <1>3. Defines(w)
    <2>1. w \in [Nat -> Nat] /\ w[0] = 1
      BY <1>2 DEF Recurs
    <2>2. ASSUME NEW k \in Nat, k # 0 PROVE w[k] = Base * w[k - 1]
      <3>1. k - 1 \in Nat /\ (k - 1) + 1 = k
        BY <2>2
      <3>2. w[(k - 1) + 1] = step[<<k - 1, w[k - 1]>>] /\ w[k - 1] \in Nat
        BY <2>1, <3>1, <1>2 DEF Recurs
      <3>. QED
        BY <3>1, <3>2
    <2>. QED
      BY <2>1, <2>2
  <1>4. Weight = CHOOSE f : Defines(f)
    BY Zenon DEF Weight
  <1>5. Defines(Weight)
    <2>. HIDE DEF Defines
    <2>. QED
      BY <1>3, <1>4, Zenon
  <1>6. Weight[0] = 1 /\ \A k \in Nat : Weight[k + 1] = Base * Weight[k]
    BY <1>5
  <1>. DEFINE S == { k \in Nat : Weight[k] \in Nat /\ Weight[k] > 0 }
  <1>7. 0 \in S
    BY <1>6
  <1>8. ASSUME NEW k \in Nat, k \in S PROVE k + 1 \in S
    <2>. DEFINE d == Weight[k]
    <2>1. d \in Nat /\ d > 0 /\ Weight[k + 1] = Base * d
      BY <1>6, <1>8
    <2>. HIDE DEF d
    <2>2. Base * d \in Nat /\ Base * d > 0
      BY <2>1
    <2>. QED
      BY <2>1, <2>2
  <1>. HIDE DEF S
  <1>9. \A k \in Nat : k \in S
    BY <1>7, <1>8, Induction
  <1>. QED
    BY <1>6, <1>9 DEF S

\* The number read digit by digit.
Reads(v, bytes) ==
  /\ v[0] = 0
  /\ \A k \in 1 .. Len(bytes) : v[k] = v[k - 1] * Base + bytes[k]

\* What the fold of from_be_bytes computes.
FoldsBytes(g, bytes) ==
  g = [ s \in SUBSET DOMAIN bytes |->
          IF s = {} THEN 0 ELSE LET x == Max(s) IN g[s \ {x}] * Base + bytes[x] ]

\* from_be_bytes reads a number digit by digit, the high ones first.
LEMMA FromBytes ==
  ASSUME NEW bytes \in Seq(Nat)
  PROVE  \E v \in [0 .. Len(bytes) -> Nat] :
           Reads(v, bytes) /\ from_be_bytes(bytes) = v[Len(bytes)]
  <1>. DEFINE n == Len(bytes)
              step == [ p \in (1 .. n) \X Nat |-> p[2] * Base + bytes[p[1]] ]
  <1>1. n \in Nat /\ DOMAIN bytes = 1 .. n /\ \A i \in 1 .. n : bytes[i] \in Nat
    OBVIOUS
  <1>. HIDE DEF n
  <1>. DEFINE Shifted(a, b) == a * Base + b
  <1>0. \A a, b \in Nat : Shifted(a, b) \in Nat
    OBVIOUS
  <1>2. step \in [(1 .. n) \X Nat -> Nat]
    <2>1. ASSUME NEW i \in 1 .. n, NEW a \in Nat PROVE a * Base + bytes[i] \in Nat
      BY <1>0, <1>1
    <2>. QED
      BY <2>1
  <1>3. PICK f : f \in [SUBSET (1 .. n) -> Nat] /\ Folds(f, n, 0, step)
    BY <1>1, <1>2, FoldExists
  <1>4. FoldsBytes(f, bytes)
    <2>1. f[{}] = 0
      BY <1>3 DEF Folds
    <2>2. ASSUME NEW s \in SUBSET (1 .. n), s # {}
          PROVE  f[s] = f[s \ {Max(s)}] * Base + bytes[Max(s)]
      <3>1. Max(s) \in 1 .. n /\ s \ {Max(s)} \in SUBSET (1 .. n)
        BY <1>1, <2>2, MaxOfSome
      <3>2. f[s \ {Max(s)}] \in Nat
        BY <1>3, <3>1
      <3>3. f[s] = step[<<Max(s), f[s \ {Max(s)}]>>]
        BY <1>3, <2>2 DEF Folds
      <3>. QED
        BY <3>1, <3>2, <3>3
    <2>3. f = [ s \in SUBSET (1 .. n) |-> f[s] ]
      BY <1>3
    <2>. QED
      BY <1>1, <2>1, <2>2, <2>3 DEF FoldsBytes
  <1>. DEFINE g == CHOOSE h : FoldsBytes(h, bytes)
  <1>5. FoldsBytes(g, bytes)
    BY <1>4, Zenon
  <1>6. from_be_bytes(bytes) = g[1 .. n]
    <2>1. from_be_bytes(bytes) = g[DOMAIN bytes]
      BY Zenon DEF FoldsBytes, from_be_bytes, FoldLeft, MapThenFoldSet
    <2>. QED
      BY <1>1, <2>1
  <1>. HIDE DEF g
  <1>. DEFINE v == [ k \in 0 .. n |-> g[1 .. k] ]
  <1>7. v[0] = 0
    <2>1. 1 .. 0 = {} /\ {} \in SUBSET DOMAIN bytes
      OBVIOUS
    <2>2. g[{}] = 0
      BY <1>5, <2>1 DEF FoldsBytes
    <2>3. 0 \in 0 .. n
      BY <1>1
    <2>4. v[0] = g[1 .. 0]
      BY <2>3
    <2>. HIDE DEF v
    <2>. QED
      BY <2>1, <2>2, <2>4
  <1>8. ASSUME NEW k \in 1 .. n PROVE v[k] = v[k - 1] * Base + bytes[k]
    <2>. DEFINE s == 1 .. k
    <2>0. k \in Nat \ {0}
      BY <1>1
    <2>1. s # {} /\ Max(s) = k /\ s \ {k} = 1 .. k - 1
      BY <2>0, LastIndex, Zenon
    <2>2. s \in SUBSET DOMAIN bytes
      BY <1>1
    <2>3. k \in 0 .. n /\ k - 1 \in 0 .. n
      BY <1>1
    <2>. HIDE DEF s
    <2>4. g[s] = g[s \ {Max(s)}] * Base + bytes[Max(s)]
      BY <1>5, <2>1, <2>2 DEF FoldsBytes
    <2>. QED
      BY <2>1, <2>3, <2>4 DEF s
  <1>9. \A k \in 0 .. n : v[k] \in Nat
    <2>. DEFINE S == { k \in Nat : v[k] \in Nat }
    <2>. HIDE DEF v
    <2>1. 0 \in S
      BY <1>7
    <2>2. ASSUME NEW k \in 0 .. n - 1, k \in S PROVE k + 1 \in S
      <3>1. k + 1 \in 1 .. n /\ (k + 1) - 1 = k /\ v[k] \in Nat
        BY <1>1, <2>2
      <3>2. v[k + 1] = v[k] * Base + bytes[k + 1] /\ bytes[k + 1] \in Nat
        BY <1>1, <1>8, <3>1
      <3>3. v[k + 1] = Shifted(v[k], bytes[k + 1])
        BY <3>2
      <3>. HIDE DEF Shifted
      <3>4. v[k + 1] \in Nat
        BY <1>0, <3>1, <3>2, <3>3
      <3>. QED
        BY <3>1, <3>4
    <2>. HIDE DEF S
    <2>3. \A k \in 0 .. n : k \in S
      BY <1>1, <2>1, <2>2, BoundedInduction
    <2>. QED
      BY <2>3 DEF S
  <1>10. v \in [0 .. n -> Nat]
    BY <1>9
  <1>. HIDE DEF v
  <1>11. Reads(v, bytes)
    BY <1>7, <1>8 DEF Reads, n
  <1>12. from_be_bytes(bytes) = v[n]
    <2>1. n \in 0 .. n
      BY <1>1
    <2>. QED
      BY <1>6, <2>1 DEF v
  <1>. QED
    BY <1>10, <1>11, <1>12 DEF n

\* What from_be_bytes makes of bytes is a number.
LEMMA FromBytesIsNat ==
  ASSUME NEW bytes \in Seq(Bytes)
  PROVE  from_be_bytes(bytes) \in Nat
  <1>1. bytes \in Seq(Nat)
    BY DEF Bytes
  <1>2. PICK v \in [0 .. Len(bytes) -> Nat] : from_be_bytes(bytes) = v[Len(bytes)]
    BY <1>1, FromBytes
  <1>. QED
    BY <1>2

\* Bytes are a number below the worth of the next digit.
LEMMA FromBytesBelow ==
  ASSUME NEW bytes \in Seq(Bytes)
  PROVE  from_be_bytes(bytes) < Weight[Len(bytes)]
  <1>. DEFINE n == Len(bytes)
  <1>1. bytes \in Seq(Nat) /\ n \in Nat
    BY DEF Bytes
  <1>2. PICK v \in [0 .. n -> Nat] : Reads(v, bytes) /\ from_be_bytes(bytes) = v[n]
    BY <1>1, FromBytes
  <1>. DEFINE S == { k \in Nat : v[k] < Weight[k] }
  <1>3. 0 \in S
    BY <1>2, WeightSteps DEF Reads
  <1>4. ASSUME NEW k \in 0 .. n - 1, k \in S PROVE k + 1 \in S
    <2>1. k \in Nat /\ k + 1 \in 1 .. n /\ (k + 1) - 1 = k /\ k \in 0 .. n
      BY <1>1
    <2>. DEFINE a == v[k]
                b == bytes[k + 1]
                w == Weight[k]
    <2>2. a \in Nat /\ a < w /\ w \in Nat /\ Weight[k + 1] = Base * w
      BY <1>2, <1>4, <2>1, WeightSteps
    <2>3. b \in Bytes
      BY <2>1
    <2>4. v[k + 1] = a * Base + b
      BY <1>2, <2>1 DEF Reads
    <2>. HIDE DEF a, b, w
    <2>5. b \in Nat /\ b < Base
      BY <2>3, Sizes DEF Bytes
    <2>6. a * Base + b < Base * w
      <3>1. (a + 1) * Base <= w * Base
        BY <2>2, Sizes
      <3>2. (a + 1) * Base = a * Base + Base /\ w * Base = Base * w /\ a * Base \in Nat /\ Base * w \in Nat
        BY <2>2, Sizes
      <3>. QED
        BY <2>5, <3>1, <3>2, Sizes
    <2>. QED
      BY <2>1, <2>2, <2>4, <2>6
  <1>. HIDE DEF S
  <1>5. \A k \in 0 .. n : k \in S
    BY <1>1, <1>3, <1>4, BoundedInduction
  <1>. QED
    BY <1>1, <1>2, <1>5 DEF S

\* Division by a product.
LEMMA Quotients ==
  ASSUME NEW n \in Nat, NEW w \in Nat, w > 0, NEW b \in Nat, b > 0
  PROVE  /\ n \div w \in Nat /\ n \div (b * w) \in Nat
         /\ n \div w = (n \div (b * w)) * b + ((n \div w) % b)
  <1>. DEFINE q == n \div w
              r == n % w
              q2 == q \div b
              r2 == q % b
  <1>1. q \in Nat /\ r \in Nat /\ r < w /\ n = q * w + r
    OBVIOUS
  <1>. HIDE DEF q, r
  <1>2. q2 \in Nat /\ r2 \in Nat /\ r2 < b /\ q = q2 * b + r2
    BY <1>1
  <1>. HIDE DEF q2, r2
  <1>. DEFINE rest == r2 * w + r
  <1>3. rest \in Nat /\ rest < b * w
    <2>1. r2 + 1 <= b
      BY <1>2
    <2>2. (r2 + 1) * w <= b * w
      BY <1>2, <2>1
    <2>3. (r2 + 1) * w = r2 * w + w /\ r2 * w \in Nat /\ b * w \in Nat
      BY <1>2
    <2>. QED
      BY <1>1, <2>2, <2>3
  <1>4. n = q2 * (b * w) + rest
    <2>1. q * w = (q2 * b) * w + r2 * w
      BY <1>1, <1>2
    <2>2. (q2 * b) * w = q2 * (b * w)
      BY <1>2
    <2>3. q * w \in Nat /\ (q2 * b) * w \in Nat /\ r2 * w \in Nat
      BY <1>1, <1>2
    <2>. QED
      BY <1>1, <2>1, <2>2, <2>3
  <1>5. b * w \in Nat /\ b * w > 0
    OBVIOUS
  <1>6. \A d, x, y \in Nat : d > 0 /\ y < d => (x * d + y) \div d = x
    OBVIOUS
  <1>. HIDE DEF rest
  <1>7. n \div (b * w) = q2
    BY <1>2, <1>3, <1>4, <1>5, <1>6
  <1>. QED
    BY <1>1, <1>2, <1>7 DEF q, r2

\* A number has digits.
LEMMA ToBytes ==
  ASSUME NEW n \in Nat, NEW len \in Nat
  PROVE  /\ to_be_bytes(n, len) \in Seq(Bytes)
         /\ Len(to_be_bytes(n, len)) = len
         /\ \A i \in 1 .. len : to_be_bytes(n, len)[i] = (n \div Weight[len - i]) % Base
  <1>1. ASSUME NEW i \in 1 .. len PROVE (n \div Weight[len - i]) % Base \in Bytes
    <2>. DEFINE w == Weight[len - i]
    <2>1. len - i \in Nat
      OBVIOUS
    <2>2. w \in Nat /\ w > 0
      BY <2>1, WeightSteps
    <2>. HIDE DEF w
    <2>3. n \div w \in Nat
      BY <2>2
    <2>4. (n \div w) % Base \in Bytes
      BY <2>3 DEF Bytes
    <2>. QED
      BY <2>4 DEF w
  <1>2. to_be_bytes(n, len) \in [1 .. len -> Bytes]
    BY <1>1 DEF to_be_bytes
  <1>. QED
    BY <1>2 DEF to_be_bytes

\* A number that fits is read back from its digits.
LEMMA RoundTrip ==
  ASSUME NEW len \in Nat, NEW n \in Nat, n < Weight[len]
  PROVE  from_be_bytes(to_be_bytes(n, len)) = n
  <1>. DEFINE bytes == to_be_bytes(n, len)
  <1>1. bytes \in Seq(Nat) /\ Len(bytes) = len
    BY ToBytes DEF Bytes
  <1>2. \A i \in 1 .. len : bytes[i] = (n \div Weight[len - i]) % Base
    BY ToBytes
  <1>. HIDE DEF bytes
  <1>3. PICK v \in [0 .. len -> Nat] : Reads(v, bytes) /\ from_be_bytes(bytes) = v[len]
    BY <1>1, FromBytes
  <1>. DEFINE S == { k \in Nat : v[k] = n \div Weight[len - k] }
  <1>4. 0 \in S
    <2>. DEFINE w == Weight[len]
    <2>0. w \in Nat /\ w > 0 /\ n < w
      BY WeightSteps
    <2>. HIDE DEF w
    <2>1. n \div w = 0
      BY <2>0
    <2>2. v[0] = 0 /\ len - 0 = len
      BY <1>3 DEF Reads
    <2>. QED
      BY <2>1, <2>2 DEF w
  <1>5. ASSUME NEW k \in 0 .. len - 1, k \in S PROVE k + 1 \in S
    <2>. DEFINE m == len - (k + 1)
                w == Weight[m]
    <2>1. m \in Nat /\ m + 1 = len - k /\ k + 1 \in 1 .. len /\ (k + 1) - 1 = k
      OBVIOUS
    <2>2. w \in Nat /\ w > 0 /\ Weight[len - k] = Base * w
      BY <2>1, WeightSteps
    <2>3. v[k + 1] = v[k] * Base + bytes[k + 1]
      BY <1>1, <1>3, <2>1 DEF Reads
    <2>4. bytes[k + 1] = (n \div w) % Base
      BY <1>2, <2>1
    <2>5. v[k] = n \div (Base * w)
      BY <1>5, <2>2
    <2>. HIDE DEF w
    <2>6. n \div w = (n \div (Base * w)) * Base + ((n \div w) % Base)
      <3>1. Base \in Nat /\ Base > 0
        BY CodecAssumption
      <3>. QED
        BY <2>2, <3>1, Quotients
    <2>7. v[k + 1] = n \div w
      BY <2>3, <2>4, <2>5, <2>6
    <2>. QED
      BY <2>7 DEF w
  <1>. HIDE DEF S
  <1>6. \A k \in 0 .. len : k \in S
    BY <1>4, <1>5, BoundedInduction
  <1>7. len \in 0 .. len /\ len - len = 0 /\ n \div 1 = n
    OBVIOUS
  <1>8. v[len] = n \div Weight[0]
    BY <1>6, <1>7 DEF S
  <1>. QED
    BY <1>3, <1>7, <1>8, WeightSteps DEF bytes

-----------------------------------------------------------------------------
(* Cutting sequences *)

\* A sequence is made of the part up to a cut and the part behind it.
LEMMA Parts ==
  ASSUME NEW S, NEW s \in Seq(S), NEW k \in 0 .. Len(s)
  PROVE  /\ SubSeq(s, 1, k) \in Seq(S) /\ Len(SubSeq(s, 1, k)) = k
         /\ \A i \in 1 .. k : SubSeq(s, 1, k)[i] = s[i]
         /\ Drop(s, k) \in Seq(S) /\ Len(Drop(s, k)) = Len(s) - k
         /\ \A i \in 1 .. Len(s) - k : Drop(s, k)[i] = s[k + i]
  <1>1. k \in Int /\ Len(s) \in Nat /\ k + 1 \in Int /\ k >= 0
    OBVIOUS
  <1>2. \A i \in 1 .. Len(s) : s[i] \in S
    OBVIOUS
  <1>3. (\A i \in 1 .. k : s[i] \in S) /\ (\A i \in k + 1 .. Len(s) : s[i] \in S)
    BY <1>1, <1>2
  <1>4. /\ SubSeq(s, 1, k) \in Seq(S) /\ Len(SubSeq(s, 1, k)) = IF 1 <= k THEN k - 1 + 1 ELSE 0
        /\ \A i \in 1 .. k - 1 + 1 : SubSeq(s, 1, k)[i] = s[1 + i - 1]
    BY <1>1, <1>3, SubSeqProperties
  <1>5. /\ Drop(s, k) \in Seq(S)
        /\ Len(Drop(s, k)) = IF k + 1 <= Len(s) THEN Len(s) - (k + 1) + 1 ELSE 0
        /\ \A i \in 1 .. Len(s) - (k + 1) + 1 : Drop(s, k)[i] = s[(k + 1) + i - 1]
    BY <1>1, <1>3, SubSeqProperties DEF Drop
  <1>6. k - 1 + 1 = k /\ Len(s) - (k + 1) + 1 = Len(s) - k
    BY <1>1
  <1>7. \A i \in Int : 1 + i - 1 = i /\ (k + 1) + i - 1 = k + i
    BY <1>1
  <1>8. Len(SubSeq(s, 1, k)) = k /\ Len(Drop(s, k)) = Len(s) - k
    BY <1>1, <1>4, <1>5
  <1>9. \A i \in 1 .. k : SubSeq(s, 1, k)[i] = s[i]
    BY <1>4, <1>6, <1>7
  <1>10. ASSUME NEW i \in 1 .. Len(s) - k PROVE Drop(s, k)[i] = s[k + i]
    <2>1. i \in 1 .. Len(s) - (k + 1) + 1 /\ (k + 1) + i - 1 = k + i
      BY <1>1, <1>6
    <2>2. Drop(s, k)[i] = s[(k + 1) + i - 1]
      BY <1>5, <2>1, Zenon
    <2>. QED
      BY <2>1, <2>2, Zenon
  <1>. QED
    BY <1>4, <1>5, <1>8, <1>9, <1>10

\* Cut where they were joined, two sequences are themselves again.
LEMMA CutJoint ==
  ASSUME NEW S, NEW s \in Seq(S), NEW t \in Seq(S)
  PROVE  SubSeq(s \o t, 1, Len(s)) = s /\ Drop(s \o t, Len(s)) = t
  <1>. DEFINE u == s \o t
  <1>1. /\ u \in Seq(S) /\ Len(u) = Len(s) + Len(t)
        /\ \A i \in 1 .. Len(s) + Len(t) : u[i] = IF i <= Len(s) THEN s[i] ELSE t[i - Len(s)]
    BY ConcatProperties
  <1>2. Len(s) \in Nat /\ Len(t) \in Nat /\ Len(s) \in 0 .. Len(u)
    BY <1>1
  <1>. HIDE DEF u
  <1>3. /\ SubSeq(u, 1, Len(s)) \in Seq(S) /\ Len(SubSeq(u, 1, Len(s))) = Len(s)
        /\ \A i \in 1 .. Len(s) : SubSeq(u, 1, Len(s))[i] = u[i]
        /\ Drop(u, Len(s)) \in Seq(S) /\ Len(Drop(u, Len(s))) = Len(t)
        /\ \A i \in 1 .. Len(t) : Drop(u, Len(s))[i] = u[Len(s) + i]
    <2>. DEFINE n == Len(s)
    <2>1. n \in 0 .. Len(u) /\ Len(u) - n = Len(t)
      BY <1>1, <1>2
    <2>. HIDE DEF n
    <2>2. /\ SubSeq(u, 1, n) \in Seq(S) /\ Len(SubSeq(u, 1, n)) = n
          /\ \A i \in 1 .. n : SubSeq(u, 1, n)[i] = u[i]
          /\ Drop(u, n) \in Seq(S) /\ Len(Drop(u, n)) = Len(u) - n
          /\ \A i \in 1 .. Len(u) - n : Drop(u, n)[i] = u[n + i]
      BY <1>1, <2>1, Parts
    <2>. QED
      BY <2>1, <2>2, Zenon DEF n
  <1>4. SubSeq(u, 1, Len(s)) = s
    <2>1. \A i \in 1 .. Len(s) : SubSeq(u, 1, Len(s))[i] = s[i]
      BY <1>1, <1>2, <1>3
    <2>. QED
      BY <1>3, <2>1, SeqEqual
  <1>5. Drop(u, Len(s)) = t
    <2>1. \A i \in 1 .. Len(t) : u[Len(s) + i] = t[i]
      <3>1. \A i \in 1 .. Len(t) : /\ Len(s) + i \in 1 .. Len(s) + Len(t)
                                   /\ ~(Len(s) + i <= Len(s)) /\ (Len(s) + i) - Len(s) = i
        BY <1>2
      <3>. QED
        BY <1>1, <3>1
    <2>2. \A i \in 1 .. Len(t) : Drop(u, Len(s))[i] = t[i]
      BY <1>3, <2>1
    <2>. QED
      BY <1>3, <2>2, SeqEqual
  <1>. QED
    BY <1>4, <1>5 DEF u

\* The bytes of a frame behind its length prefix.
Body(f) == header_bytes(f) \o f.payload

\* The size that a frame's length prefix gives.
Size(f) == HeaderLen + Len(f.payload)

\* A frame's fields are numbers and bytes.
LEMMA FieldsOfFrame ==
  ASSUME NEW f \in WireFrames
  PROVE  /\ f.msg_type \in MessageTypes /\ f.msg_type \in Bytes
         /\ f.nonce \in Nat /\ f.nonce < Weight[NonceLen]
         /\ f.payload \in Seq(Bytes) /\ Len(f.payload) \in Nat
         /\ Size(f) \in Nat /\ Size(f) >= HeaderLen
         /\ f = [msg_type |-> f.msg_type, nonce |-> f.nonce, payload |-> f.payload]
  <1>1. Weight[NonceLen] \in Nat
    BY Sizes, WeightSteps
  <1>2. f.msg_type \in MessageTypes /\ f.nonce \in 0 .. Weight[NonceLen] - 1 /\ f.payload \in Seq(Bytes)
    BY DEF WireFrames
  <1>3. f.msg_type \in Bytes
    BY <1>2, Sizes DEF MessageTypes, Bytes
  <1>4. f.nonce \in Nat /\ f.nonce < Weight[NonceLen]
    BY <1>1, <1>2
  <1>5. Len(f.payload) \in Nat
    BY <1>2
  <1>6. Size(f) \in Nat /\ Size(f) >= HeaderLen
    <2>. DEFINE n == Len(f.payload)
    <2>1. n \in Nat /\ Size(f) = HeaderLen + n
      BY <1>5 DEF Size
    <2>. HIDE DEF n
    <2>. QED
      BY <2>1, Sizes
  <1>7. f = [msg_type |-> f.msg_type, nonce |-> f.nonce, payload |-> f.payload]
    BY DEF WireFrames
  <1>. QED
    BY <1>2, <1>3, <1>4, <1>5, <1>6, <1>7

\* What serialize_into writes: the size, then the header and the payload.
LEMMA Serialized ==
  ASSUME NEW f \in WireFrames
  PROVE  /\ serialize(f) = to_be_bytes(Size(f), PrefixLen) \o Body(f)
         /\ to_be_bytes(Size(f), PrefixLen) \in Seq(Bytes)
         /\ Len(to_be_bytes(Size(f), PrefixLen)) = PrefixLen
         /\ Body(f) \in Seq(Bytes) /\ Len(Body(f)) = Size(f)
         /\ header_bytes(f) \in Seq(Bytes) /\ Len(header_bytes(f)) = HeaderLen
         /\ serialize(f) \in Seq(Bytes) /\ Len(serialize(f)) = PrefixLen + Size(f)
  <1>. DEFINE prefix == to_be_bytes(Size(f), PrefixLen)
              digits == to_be_bytes(f.nonce, NonceLen)
              type == <<f.msg_type>>
              header == header_bytes(f)
              payload == f.payload
  <1>1. prefix \in Seq(Bytes) /\ Len(prefix) = PrefixLen
    BY Sizes, FieldsOfFrame, ToBytes
  <1>2. digits \in Seq(Bytes) /\ Len(digits) = NonceLen
    BY Sizes, FieldsOfFrame, ToBytes
  <1>3. type \in Seq(Bytes) /\ Len(type) = 1
    BY FieldsOfFrame
  <1>4. payload \in Seq(Bytes) /\ Size(f) = HeaderLen + Len(payload)
    BY FieldsOfFrame DEF Size
  <1>5. /\ header = type \o digits /\ Body(f) = header \o payload
        /\ serialize(f) = (prefix \o header) \o payload
    BY DEF header_bytes, Body, serialize, Size
  <1>. HIDE DEF prefix, digits, type, header, payload
  <1>6. header \in Seq(Bytes) /\ Len(header) = HeaderLen
    BY <1>2, <1>3, <1>5, ConcatProperties, Sizes
  <1>7. Body(f) \in Seq(Bytes) /\ Len(Body(f)) = Size(f)
    BY <1>4, <1>5, <1>6, ConcatProperties
  <1>8. serialize(f) = prefix \o Body(f)
    <2>1. (prefix \o header) \o payload = prefix \o (header \o payload)
      BY <1>1, <1>4, <1>6, ConcatAssociative
    <2>. QED
      BY <1>5, <2>1, Zenon
  <1>9. serialize(f) \in Seq(Bytes) /\ Len(serialize(f)) = PrefixLen + Size(f)
    BY <1>1, <1>7, <1>8, ConcatProperties
  <1>. QED
    BY <1>1, <1>6, <1>7, <1>8, <1>9 DEF prefix, header

\* The fields of a frame are read back from its header and payload.
LEMMA PartsOfFrame ==
  ASSUME NEW f \in WireFrames
  PROVE  parts(Body(f)) = f /\ Body(f)[1] = f.msg_type
  <1>. DEFINE digits == to_be_bytes(f.nonce, NonceLen)
              type == <<f.msg_type>>
              header == header_bytes(f)
              payload == f.payload
              body == Body(f)
  <1>1. /\ header \in Seq(Bytes) /\ Len(header) = HeaderLen /\ payload \in Seq(Bytes)
        /\ body \in Seq(Bytes) /\ Len(body) = Size(f) /\ body = header \o payload
    BY Serialized, FieldsOfFrame DEF Body
  <1>2. digits \in Seq(Bytes) /\ Len(digits) = NonceLen /\ from_be_bytes(digits) = f.nonce
    BY Sizes, FieldsOfFrame, ToBytes, RoundTrip
  <1>3. /\ type \in Seq(Bytes) /\ Len(type) = 1 /\ type[1] = f.msg_type
        /\ header = type \o digits
    BY FieldsOfFrame DEF header_bytes
  <1>. HIDE DEF digits, type, header, payload, body
  <1>4. header[1] = f.msg_type /\ Drop(header, 1) = digits
    <2>1. Drop(type \o digits, Len(type)) = digits
      BY <1>2, <1>3, CutJoint
    <2>2. (type \o digits)[1] = type[1]
      <3>1. 1 \in 1 .. Len(type) + Len(digits) /\ 1 <= Len(type)
        BY <1>2, <1>3, Sizes
      <3>. QED
        BY <1>2, <1>3, <3>1, ConcatProperties
    <2>. QED
      BY <1>3, <2>1, <2>2
  <1>5. SubSeq(body, 1, HeaderLen) = header /\ Drop(body, HeaderLen) = payload
    BY <1>1, CutJoint
  <1>6. SubSeq(body, 2, HeaderLen) = digits
    <2>1. 2 \in 1 .. HeaderLen /\ HeaderLen \in 1 .. HeaderLen
      BY Sizes
    <2>2. SubSeq(body, 2, HeaderLen) = SubSeq(header, 2, HeaderLen)
      BY <1>1, <2>1, SubSeqOfConcat1
    <2>3. SubSeq(header, 2, HeaderLen) = Drop(header, 1)
      BY <1>1 DEF Drop
    <2>. QED
      BY <1>4, <2>2, <2>3
  <1>7. body[1] = f.msg_type
    <2>1. 1 \in 1 .. Len(header) /\ Len(payload) \in Nat /\ Len(header) \in Nat
      BY <1>1, Sizes
    <2>2. body[1] = header[1]
      BY <1>1, <2>1
    <2>. QED
      BY <1>4, <2>2
  <1>8. SubSeq(body, HeaderLen + 1, Len(body)) = payload
    BY <1>5 DEF Drop
  <1>9. parts(body) = [msg_type |-> f.msg_type, nonce |-> f.nonce, payload |-> payload]
    BY <1>2, <1>6, <1>7, <1>8 DEF parts
  <1>. QED
    BY <1>7, <1>9, FieldsOfFrame DEF body, payload

\* from_bytes on a length prefix and what follows it.
LEMMA ParsedFrame ==
  ASSUME NEW prefix \in Seq(Bytes), Len(prefix) = PrefixLen, NEW rest \in Seq(Bytes)
  PROVE  from_bytes(prefix \o rest) =
           IF /\ AcceptsLength(from_be_bytes(prefix)) /\ Len(rest) = from_be_bytes(prefix)
              /\ rest[1] \in MessageTypes
             THEN parts(rest) ELSE Err
  <1>. DEFINE bytes == prefix \o rest
              frame_len == from_be_bytes(prefix)
  <1>1. bytes \in Seq(Bytes) /\ Len(bytes) = PrefixLen + Len(rest)
    BY ConcatProperties
  <1>2. SubSeq(bytes, 1, PrefixLen) = prefix /\ SubSeq(bytes, PrefixLen + 1, Len(bytes)) = rest
    BY CutJoint DEF Drop
  <1>. HIDE DEF bytes
  <1>3. from_bytes(bytes) =
          IF /\ Len(bytes) >= PrefixLen + HeaderLen
             /\ frame_len = Len(rest) /\ frame_len >= HeaderLen /\ frame_len <= MAX_FRAME_SIZE
             /\ rest[1] \in MessageTypes
            THEN parts(rest) ELSE Err
    BY <1>2 DEF from_bytes
  <1>. HIDE DEF frame_len
  <1>4. frame_len = Len(rest) /\ frame_len >= HeaderLen => Len(bytes) >= PrefixLen + HeaderLen
    <2>1. Len(rest) \in Nat
      OBVIOUS
    <2>. QED
      BY <1>1, <2>1, Sizes
  <1>. QED
    BY <1>3, <1>4 DEF AcceptsLength, bytes, frame_len

\* from_bytes accepts nothing that is shorter than a prefix and a header.
LEMMA TooShort ==
  ASSUME NEW bytes \in Seq(Bytes), Len(bytes) < PrefixLen + HeaderLen
  PROVE  from_bytes(bytes) = Err
  <1>1. ~(Len(bytes) >= PrefixLen + HeaderLen)
    <2>1. Len(bytes) \in Nat
      OBVIOUS
    <2>. QED
      BY <2>1, Sizes
  <1>. QED
    BY <1>1 DEF from_bytes

\* Every frame within the size limit is what from_bytes makes of the bytes that
\* serialize_into writes for it.
THEOREM CodecRoundTrip == \A f \in Frames : from_bytes(serialize(f)) = f
  <1>. SUFFICES ASSUME NEW f \in Frames PROVE from_bytes(serialize(f)) = f
    OBVIOUS
  <1>. DEFINE size == Size(f)
              prefix == to_be_bytes(size, PrefixLen)
              body == Body(f)
  <1>1. f \in WireFrames /\ size <= MAX_FRAME_SIZE
    BY DEF Frames, Size
  <1>2. /\ serialize(f) = prefix \o body /\ prefix \in Seq(Bytes) /\ Len(prefix) = PrefixLen
        /\ body \in Seq(Bytes) /\ Len(body) = size
    BY <1>1, Serialized
  <1>3. size \in Nat /\ size >= HeaderLen /\ f.msg_type \in MessageTypes
    BY <1>1, FieldsOfFrame
  <1>4. parts(body) = f /\ body[1] \in MessageTypes
    BY <1>1, <1>3, PartsOfFrame
  <1>5. from_be_bytes(prefix) = size
    <2>1. Weight[PrefixLen] \in Nat
      BY Sizes, WeightSteps
    <2>2. size < Weight[PrefixLen]
      BY <1>1, <1>3, <2>1, Sizes
    <2>. QED
      BY <1>3, <2>2, Sizes, RoundTrip
  <1>. HIDE DEF prefix, body, size
  <1>6. AcceptsLength(from_be_bytes(prefix))
    BY <1>1, <1>3, <1>5 DEF AcceptsLength
  <1>. QED
    BY <1>2, <1>4, <1>5, <1>6, ParsedFrame

-----------------------------------------------------------------------------
(* The buffers of the reader *)

\* Where the reader is: in a prefix, with nothing of the frame, or in a frame of
\* a legal size that is not complete.
Buffers ==
  /\ received \in Seq(Frames)
  /\ reader = "reading" =>
       \/ Len(len_buf) < PrefixLen /\ raw_data = <<>>
       \/ /\ Len(len_buf) = PrefixLen /\ AcceptsLength(from_be_bytes(len_buf))
          /\ Len(raw_data) < from_be_bytes(len_buf)

\* The inductive invariant of a stream.
IInv == TypeOK /\ Buffers

\* The types of the four byte sequences, one by one.
LEMMA TypedBytes ==
  TypeOK <=>
    /\ writer \in {"open", "closed", "reset"} /\ reader \in {"reading", "err"}
    /\ outbox \in Seq(Bytes) /\ wire \in Seq(Bytes)
    /\ len_buf \in Seq(Bytes) /\ raw_data \in Seq(Bytes)
    /\ Len(len_buf) <= PrefixLen
    /\ reader = "reading" /\ Len(len_buf) = PrefixLen =>
         from_be_bytes(len_buf) \in Len(raw_data) + 1 .. MAX_FRAME_SIZE
  BY Zenon DEF TypeOK

\* In the middle of a frame the sizes fit.
LEMMA InFrame ==
  ASSUME NEW n \in Nat, NEW m \in Nat, AcceptsLength(n), m < n
  PROVE  n \in m + 1 .. MAX_FRAME_SIZE
  BY Sizes DEF AcceptsLength

\* A read returns at least one byte, and no more than is missing or under way.
LEMMA Chunks ==
  ASSUME NEW missing \in Int, wire \in Seq(Bytes), NEW k \in Chunk(missing)
  PROVE  k \in Nat /\ 1 <= k /\ k <= missing /\ k <= Len(wire) /\ k \in 0 .. Len(wire)
  <1>. DEFINE n == Len(wire)
              S == {missing, n}
  <1>1. n \in Nat
    OBVIOUS
  <1>. HIDE DEF n
  <1>2. \E x \in S : \A y \in S : x <= y
    BY <1>1
  <1>3. Min(S) \in S /\ \A y \in S : Min(S) <= y
    BY <1>2 DEF Min
  <1>4. k \in 1 .. Min(S)
    BY DEF Chunk, n
  <1>5. Min(S) \in Int /\ Min(S) <= missing /\ Min(S) <= n
    BY <1>1, <1>3
  <1>. HIDE DEF S
  <1>6. k \in Nat /\ 1 <= k /\ k <= missing /\ k <= n
    BY <1>1, <1>4, <1>5
  <1>. QED
    BY <1>1, <1>6 DEF n

\* What was read, and what is left on the wire.
LEMMA Read ==
  ASSUME NEW buf \in Seq(Bytes), wire \in Seq(Bytes), NEW k \in 0 .. Len(wire)
  PROVE  /\ buf \o SubSeq(wire, 1, k) \in Seq(Bytes)
         /\ Len(buf \o SubSeq(wire, 1, k)) = Len(buf) + k
         /\ Drop(wire, k) \in Seq(Bytes) /\ Len(wire) - Len(Drop(wire, k)) = k
  <1>. DEFINE front == SubSeq(wire, 1, k)
              rest == Drop(wire, k)
  <1>1. front \in Seq(Bytes) /\ Len(front) = k /\ rest \in Seq(Bytes) /\ Len(rest) = Len(wire) - k
    BY Parts
  <1>. HIDE DEF front, rest
  <1>2. Len(wire) - Len(rest) = k
    BY <1>1
  <1>3. buf \o front \in Seq(Bytes) /\ Len(buf \o front) = Len(buf) + k
    BY <1>1, ConcatProperties
  <1>. QED
    BY <1>1, <1>2, <1>3 DEF front, rest

\* What read_from hands out is a frame within the size limit.
LEMMA PartsTyped ==
  ASSUME NEW data \in Seq(Bytes), AcceptsLength(Len(data)), data[1] \in MessageTypes
  PROVE  parts(data) \in Frames
  <1>. DEFINE digits == SubSeq(data, 2, HeaderLen)
              payload == SubSeq(data, HeaderLen + 1, Len(data))
  <1>1. Len(data) \in Nat /\ HeaderLen <= Len(data) /\ Len(data) <= MAX_FRAME_SIZE
    BY DEF AcceptsLength
  <1>2. digits \in Seq(Bytes) /\ Len(digits) = NonceLen
    <2>1. \A i \in 2 .. HeaderLen : i \in 1 .. Len(data)
      BY <1>1, Sizes
    <2>2. \A i \in 2 .. HeaderLen : data[i] \in Bytes
      BY <2>1
    <2>3. 2 \in Int /\ HeaderLen \in Int
      BY Sizes
    <2>4. digits \in Seq(Bytes) /\ Len(digits) = IF 2 <= HeaderLen THEN HeaderLen - 2 + 1 ELSE 0
      BY <2>2, <2>3, SubSeqProperties
    <2>. HIDE DEF digits
    <2>. QED
      BY <2>4, Sizes
  <1>3. from_be_bytes(digits) \in 0 .. Weight[NonceLen] - 1
    <2>1. from_be_bytes(digits) \in Nat /\ from_be_bytes(digits) < Weight[NonceLen]
      BY <1>2, FromBytesIsNat, FromBytesBelow
    <2>2. Weight[NonceLen] \in Nat
      BY Sizes, WeightSteps
    <2>. QED
      BY <2>1, <2>2
  <1>4. payload \in Seq(Bytes) /\ Len(payload) = Len(data) - HeaderLen
    <2>1. HeaderLen \in 0 .. Len(data)
      BY <1>1, Sizes
    <2>. QED
      BY <2>1, Parts DEF Drop
  <1>. HIDE DEF digits, payload
  <1>5. parts(data) = [msg_type |-> data[1], nonce |-> from_be_bytes(digits), payload |-> payload]
    BY DEF parts, digits, payload
  <1>6. parts(data) \in WireFrames /\ parts(data).payload = payload
    BY <1>3, <1>4, <1>5 DEF WireFrames
  <1>7. HeaderLen + Len(payload) <= MAX_FRAME_SIZE
    BY <1>1, <1>4, Sizes
  <1>. QED
    BY <1>6, <1>7 DEF Frames

\* The frames read and the reader's buffers start out in the middle of nothing.
LEMMA InitIInv == Init => IInv
  <1>. SUFFICES ASSUME Init PROVE IInv
    OBVIOUS
  <1>1. <<>> \in Seq(Bytes) /\ <<>> \in Seq(Frames) /\ Len(<<>>) = 0 /\ 0 < PrefixLen /\ 0 # PrefixLen
    BY Sizes
  <1>2. TypeOK
    BY <1>1, TypedBytes DEF Init
  <1>3. Buffers
    BY <1>1 DEF Init, Buffers
  <1>. QED
    BY <1>2, <1>3 DEF IInv

\* What the writer and the network do leaves the reader's buffers alone and puts
\* bytes on the wire.
LEMMA WriterStep == IInv /\ (Writer \/ Network) => IInv'
  <1>. SUFFICES ASSUME IInv, Writer \/ Network PROVE IInv'
    OBVIOUS
  <1>. USE DEF IInv
  <1>1. outbox \in Seq(Bytes) /\ wire \in Seq(Bytes)
    BY TypedBytes
  <1>2. UNCHANGED readerVars
    BY DEF Writer, WriteSome, WriterCloses, WriteTo, Network, ConnectionReset, ByteAltered
  <1>3. Buffers'
    BY <1>2 DEF Buffers, readerVars
  <1>4. outbox' \in Seq(Bytes) /\ wire' \in Seq(Bytes) /\ writer' \in {"open", "closed", "reset"}
    <2>1. ASSUME NEW f \in Outgoing, WriteTo(f) PROVE <1>4
      <3>1. serialize(f) \in Seq(Bytes)
        BY StreamAssumption, Serialized
      <3>. QED
        BY <1>1, <2>1, <3>1 DEF WriteTo
    <2>2. CASE WriteSome
      <3>1. PICK k \in 1 .. Len(outbox) :
              wire' = wire \o SubSeq(outbox, 1, k) /\ outbox' = Drop(outbox, k)
        BY <2>2 DEF WriteSome
      <3>2. k \in 0 .. Len(outbox)
        BY <3>1
      <3>3. SubSeq(outbox, 1, k) \in Seq(Bytes) /\ outbox' \in Seq(Bytes)
        BY <1>1, <3>1, <3>2, Parts
      <3>4. wire' \in Seq(Bytes)
        BY <1>1, <3>1, <3>3, ConcatProperties
      <3>. QED
        BY <2>2, <3>3, <3>4 DEF WriteSome
    <2>3. CASE WriterCloses
      BY <1>1, <2>3 DEF WriterCloses
    <2>4. CASE ConnectionReset
      <3>1. PICK k \in 0 .. Len(wire) : wire' = SubSeq(wire, 1, k)
        BY <2>4 DEF ConnectionReset
      <3>2. wire' \in Seq(Bytes)
        BY <1>1, <3>1, Parts
      <3>. QED
        BY <1>1, <2>4, <3>2 DEF ConnectionReset
    <2>5. CASE ByteAltered
      <3>1. PICK i \in DOMAIN wire, b \in AlteredTo : wire' = [wire EXCEPT ![i] = b]
        BY <2>5 DEF ByteAltered
      <3>2. b \in Bytes
        BY <3>1, StreamAssumption
      <3>3. wire' \in Seq(Bytes)
        BY <1>1, <3>1, <3>2
      <3>. QED
        BY <1>1, <2>5, <3>3, TypedBytes DEF ByteAltered, writerVars
    <2>. QED
      BY <2>1, <2>2, <2>3, <2>4, <2>5 DEF Writer, Network
  <1>5. TypeOK'
    <2>1. /\ reader' = reader /\ len_buf' = len_buf /\ raw_data' = raw_data
      BY <1>2 DEF readerVars
    <2>2. /\ reader' \in {"reading", "err"} /\ len_buf' \in Seq(Bytes) /\ raw_data' \in Seq(Bytes)
          /\ Len(len_buf') <= PrefixLen
          /\ reader' = "reading" /\ Len(len_buf') = PrefixLen =>
               from_be_bytes(len_buf') \in Len(raw_data') + 1 .. MAX_FRAME_SIZE
      BY <2>1, TypedBytes
    <2>. QED
      BY <1>4, <2>2, Zenon DEF TypeOK
  <1>. QED
    BY <1>3, <1>5

\* Reading the length prefix leaves the frame's buffer empty until it is complete.
LEMMA PrefixStep == IInv /\ ReadPrefix => IInv'
  <1>. SUFFICES ASSUME IInv, ReadPrefix PROVE IInv'
    OBVIOUS
  <1>. USE DEF IInv
  <1>1. /\ wire \in Seq(Bytes) /\ len_buf \in Seq(Bytes) /\ raw_data \in Seq(Bytes)
        /\ outbox \in Seq(Bytes) /\ writer \in {"open", "closed", "reset"}
        /\ Len(len_buf) <= PrefixLen /\ Len(len_buf) \in Nat
    BY TypedBytes
  <1>2. PICK k \in Chunk(PrefixLen - Len(len_buf)) :
          len_buf' = len_buf \o SubSeq(wire, 1, k) /\ wire' = Drop(wire, k)
    BY DEF ReadPrefix
  <1>3. k \in Nat /\ 1 <= k /\ k <= PrefixLen - Len(len_buf) /\ k \in 0 .. Len(wire)
    <2>1. PrefixLen - Len(len_buf) \in Int
      BY <1>1, Sizes
    <2>. QED
      BY <1>1, <2>1, Chunks
  <1>4. len_buf' \in Seq(Bytes) /\ Len(len_buf') = Len(len_buf) + k /\ wire' \in Seq(Bytes)
    BY <1>1, <1>2, <1>3, Read
  <1>5. Len(len_buf') <= PrefixLen /\ Len(len_buf) < PrefixLen
    BY <1>1, <1>3, <1>4, Sizes
  <1>6. raw_data = <<>> /\ received \in Seq(Frames)
    BY <1>1, <1>5, Sizes DEF Buffers, ReadPrefix
  <1>7. Buffers'
    <2>1. raw_data' = <<>> /\ Len(raw_data') = 0 /\ received' = received
      BY <1>6 DEF ReadPrefix
    <2>2. CASE Len(len_buf') < PrefixLen
      BY <1>6, <2>1, <2>2 DEF Buffers
    <2>3. CASE Len(len_buf') = PrefixLen /\ reader' = "reading"
      <3>1. AcceptsLength(from_be_bytes(len_buf'))
        BY <2>3 DEF ReadPrefix
      <3>2. from_be_bytes(len_buf') \in Nat
        BY <1>4, FromBytesIsNat
      <3>3. 0 < from_be_bytes(len_buf')
        BY <3>1, <3>2, Sizes DEF AcceptsLength
      <3>. QED
        BY <1>6, <2>1, <2>3, <3>1, <3>3 DEF Buffers
    <2>4. CASE reader' # "reading"
      BY <1>6, <2>1, <2>4 DEF Buffers
    <2>5. Len(len_buf') < PrefixLen \/ Len(len_buf') = PrefixLen
      BY <1>4, <1>5, Sizes
    <2>. QED
      BY <2>2, <2>3, <2>4, <2>5
  <1>8. /\ reader' \in {"reading", "err"} /\ raw_data' \in Seq(Bytes)
        /\ outbox' \in Seq(Bytes) /\ writer' \in {"open", "closed", "reset"}
    BY <1>1 DEF ReadPrefix, writerVars
  <1>9. reader' = "reading" /\ Len(len_buf') = PrefixLen =>
          from_be_bytes(len_buf') \in Len(raw_data') + 1 .. MAX_FRAME_SIZE
    <2>1. SUFFICES ASSUME reader' = "reading", Len(len_buf') = PrefixLen
                   PROVE  from_be_bytes(len_buf') \in Len(raw_data') + 1 .. MAX_FRAME_SIZE
      OBVIOUS
    <2>2. from_be_bytes(len_buf') \in Nat /\ Len(raw_data') \in Nat
      BY <1>4, <1>8, FromBytesIsNat
    <2>3. AcceptsLength(from_be_bytes(len_buf')) /\ Len(raw_data') < from_be_bytes(len_buf')
      BY <1>7, <2>1, Sizes DEF Buffers
    <2>. QED
      BY <2>2, <2>3, InFrame
  <1>10. TypeOK'
    BY <1>4, <1>5, <1>8, <1>9, Zenon DEF TypeOK
  <1>. QED
    BY <1>7, <1>10

\* Where the reader is when it reads a frame behind its prefix.
LEMMA AtBody ==
  ASSUME IInv, ReadBody
  PROVE  /\ wire \in Seq(Bytes) /\ len_buf \in Seq(Bytes) /\ raw_data \in Seq(Bytes)
         /\ outbox \in Seq(Bytes) /\ writer \in {"open", "closed", "reset"}
         /\ reader = "reading" /\ Len(len_buf) = PrefixLen /\ received \in Seq(Frames)
         /\ from_be_bytes(len_buf) \in Nat /\ AcceptsLength(from_be_bytes(len_buf))
         /\ Len(raw_data) \in Nat /\ Len(raw_data) < from_be_bytes(len_buf)
  <1>1. /\ wire \in Seq(Bytes) /\ len_buf \in Seq(Bytes) /\ raw_data \in Seq(Bytes)
        /\ outbox \in Seq(Bytes) /\ writer \in {"open", "closed", "reset"}
    BY TypedBytes DEF IInv
  <1>2. reader = "reading" /\ Len(len_buf) = PrefixLen
    BY DEF ReadBody
  <1>3. /\ received \in Seq(Frames) /\ AcceptsLength(from_be_bytes(len_buf))
        /\ Len(raw_data) < from_be_bytes(len_buf)
    BY <1>2, Sizes DEF IInv, Buffers
  <1>4. from_be_bytes(len_buf) \in Nat /\ Len(raw_data) \in Nat
    BY <1>1, FromBytesIsNat
  <1>. QED
    BY <1>1, <1>2, <1>3, <1>4

\* The three outcomes of a read behind the prefix, as ReadBody has them.
Unfinished(data) ==
  /\ Len(data) < from_be_bytes(len_buf) /\ raw_data' = data
  /\ UNCHANGED <<reader, len_buf, received>>
Completed(data) ==
  /\ Len(data) = from_be_bytes(len_buf) /\ data[1] \in MessageTypes
  /\ received' = Append(received, parts(data))
  /\ len_buf' = <<>> /\ raw_data' = <<>> /\ UNCHANGED reader
Refused(data) ==
  /\ Len(data) = from_be_bytes(len_buf) /\ data[1] \notin MessageTypes
  /\ reader' = "err" /\ raw_data' = data /\ UNCHANGED <<len_buf, received>>

\* A read behind the prefix moves k bytes and has one of the three outcomes.
LEMMA BodyRead ==
  ASSUME IInv, ReadBody
  PROVE  \E k \in 0 .. Len(wire) :
           LET data == raw_data \o SubSeq(wire, 1, k)
           IN  /\ k > 0 /\ wire' = Drop(wire, k)
               /\ data \in Seq(Bytes) /\ Len(data) = Len(raw_data) + k
               /\ Len(wire) - Len(wire') = k /\ wire' \in Seq(Bytes)
               /\ Unfinished(data) \/ Completed(data) \/ Refused(data)
  <1>1. PICK k \in Chunk(from_be_bytes(len_buf) - Len(raw_data)) :
          LET data == raw_data \o SubSeq(wire, 1, k)
          IN  wire' = Drop(wire, k) /\ (Unfinished(data) \/ Completed(data) \/ Refused(data))
    BY Zenon DEF ReadBody, Unfinished, Completed, Refused
  <1>2. k \in Nat /\ 1 <= k /\ k \in 0 .. Len(wire)
    <2>1. from_be_bytes(len_buf) - Len(raw_data) \in Int
      BY AtBody
    <2>. QED
      BY <2>1, AtBody, Chunks
  <1>3. /\ raw_data \o SubSeq(wire, 1, k) \in Seq(Bytes)
        /\ Len(raw_data \o SubSeq(wire, 1, k)) = Len(raw_data) + k
        /\ Len(wire) - Len(wire') = k /\ wire' \in Seq(Bytes)
    BY <1>1, <1>2, AtBody, Read
  <1>. QED
    BY <1>1, <1>2, <1>3

\* Reading on behind the prefix keeps the frame's buffer below the size, until
\* the frame is complete and both buffers are cleared.
LEMMA BodyStep == IInv /\ ReadBody => IInv'
  <1>. SUFFICES ASSUME IInv, ReadBody PROVE IInv'
    OBVIOUS
  <1>1. PICK k \in 0 .. Len(wire) :
          LET data == raw_data \o SubSeq(wire, 1, k)
          IN  /\ k > 0 /\ wire' = Drop(wire, k)
              /\ data \in Seq(Bytes) /\ Len(data) = Len(raw_data) + k
              /\ Len(wire) - Len(wire') = k /\ wire' \in Seq(Bytes)
              /\ Unfinished(data) \/ Completed(data) \/ Refused(data)
    BY BodyRead
  <1>. DEFINE data == raw_data \o SubSeq(wire, 1, k)
              frame_len == from_be_bytes(len_buf)
  <1>2. /\ data \in Seq(Bytes) /\ Len(data) \in Nat /\ wire' \in Seq(Bytes)
        /\ Unfinished(data) \/ Completed(data) \/ Refused(data)
    BY <1>1
  <1>3. outbox' \in Seq(Bytes) /\ writer' \in {"open", "closed", "reset"}
    BY AtBody DEF ReadBody, writerVars
  <1>. HIDE DEF data
  <1>4. CASE Unfinished(data)
    <2>1. /\ reader' = "reading" /\ len_buf' = len_buf /\ raw_data' = data /\ received' = received
          /\ Len(data) < frame_len
      BY <1>4, AtBody DEF Unfinished
    <2>2. frame_len \in Len(data) + 1 .. MAX_FRAME_SIZE
      BY <1>2, <2>1, AtBody, InFrame
    <2>3. Len(len_buf') <= PrefixLen
      BY <2>1, AtBody, Sizes
    <2>4. len_buf' \in Seq(Bytes) /\ raw_data' \in Seq(Bytes)
      BY <1>2, <2>1, AtBody
    <2>5. TypeOK'
      BY <1>2, <1>3, <2>1, <2>2, <2>3, <2>4, Zenon DEF TypeOK
    <2>6. Buffers'
      BY <2>1, AtBody, Zenon DEF Buffers
    <2>. QED
      BY <2>5, <2>6 DEF IInv
  <1>5. CASE Completed(data)
    <2>1. /\ reader' = "reading" /\ len_buf' = <<>> /\ raw_data' = <<>>
          /\ received' = Append(received, parts(data)) /\ Len(data) = frame_len
      BY <1>5, AtBody DEF Completed
    <2>2. parts(data) \in Frames
      <3>1. AcceptsLength(Len(data)) /\ data[1] \in MessageTypes
        BY <1>5, <2>1, AtBody DEF Completed
      <3>. QED
        BY <1>2, <3>1, PartsTyped
    <2>3. received' \in Seq(Frames)
      BY <2>1, <2>2, AtBody, AppendProperties
    <2>4. <<>> \in Seq(Bytes) /\ Len(<<>>) < PrefixLen /\ Len(<<>>) <= PrefixLen /\ Len(<<>>) # PrefixLen
      BY Sizes
    <2>5. TypeOK'
      BY <1>2, <1>3, <2>1, <2>4, Zenon DEF TypeOK
    <2>6. Buffers'
      BY <2>1, <2>3, <2>4, Zenon DEF Buffers
    <2>. QED
      BY <2>5, <2>6 DEF IInv
  <1>6. CASE Refused(data)
    <2>1. /\ reader' = "err" /\ len_buf' = len_buf /\ raw_data' = data /\ received' = received
      BY <1>6 DEF Refused
    <2>2. Len(len_buf') <= PrefixLen
      BY <2>1, AtBody, Sizes
    <2>3. len_buf' \in Seq(Bytes) /\ raw_data' \in Seq(Bytes) /\ reader' # "reading"
      BY <1>2, <2>1, AtBody
    <2>4. TypeOK'
      BY <1>2, <1>3, <2>1, <2>2, <2>3, Zenon DEF TypeOK
    <2>5. Buffers'
      BY <2>1, <2>3, AtBody, Zenon DEF Buffers
    <2>. QED
      BY <2>4, <2>5 DEF IInv
  <1>. QED
    BY <1>2, <1>4, <1>5, <1>6

\* Every step of the stream keeps the invariant.
LEMMA NextIInv == IInv /\ [Next]_vars => IInv'
  <1>. SUFFICES ASSUME IInv, [Next]_vars PROVE IInv'
    OBVIOUS
  <1>1. CASE Writer \/ Network
    BY <1>1, WriterStep
  <1>2. CASE ReadPrefix
    BY <1>2, PrefixStep
  <1>3. CASE ReadBody
    BY <1>3, BodyStep
  <1>4. CASE ReadFails
    <2>1. /\ reader' = "err" /\ UNCHANGED <<len_buf, raw_data, received, wire>>
          /\ outbox' = outbox /\ writer' = writer
      BY <1>4 DEF ReadFails, writerVars
    <2>2. reader' # "reading"
      BY <2>1
    <2>3. TypeOK'
      BY <2>1, <2>2, Zenon DEF IInv, TypeOK
    <2>4. Buffers'
      BY <2>1, <2>2, Zenon DEF IInv, Buffers
    <2>. QED
      BY <2>3, <2>4 DEF IInv
  <1>5. CASE UNCHANGED vars
    <2>1. UNCHANGED <<outbox, writer, wire, reader, len_buf, raw_data, received>>
      BY <1>5 DEF vars, writerVars, readerVars
    <2>. QED
      BY <2>1, Zenon DEF IInv, TypeOK, Buffers
  <1>. QED
    BY <1>1, <1>2, <1>3, <1>4, <1>5 DEF Next, Reader

\* The invariant holds throughout.
LEMMA Invariant == Spec => []IInv
  BY InitIInv, NextIInv, PTL DEF Spec

\* The buffers hold bytes, and the one that read_from allocates for a frame has
\* the size of a legal frame, whatever the prefix said.
THEOREM TypeCorrect == Spec => []TypeOK
  <1>1. IInv => TypeOK
    BY DEF IInv
  <1>. QED
    BY <1>1, Invariant, PTL

-----------------------------------------------------------------------------
(* The two parsers *)

\* How bytes are joined does not depend on the grouping.
LEMMA Grouped == \A s, t, u \in Seq(Bytes) : (s \o t) \o u = s \o (t \o u)
  BY ConcatAssociative

\* What from_bytes makes of the frame so far with n more bytes of the wire.
Guess(n) == from_bytes(len_buf \o raw_data \o SubSeq(wire, 1, n))

\* What ParsersAgree says of one step.
Agree(taken) ==
  /\ received' # received => Last(received') = Guess(taken)
  /\ received' = received =>
       \A n \in taken .. IF reader' = "err" THEN Len(wire) ELSE taken : Guess(n) = Err

\* Within the prefix, from_bytes has too little to go by; behind a prefix that
\* read_from refuses, from_bytes refuses whatever follows.
LEMMA PrefixAgrees ==
  ASSUME IInv, ReadPrefix
  PROVE  Agree(Len(wire) - Len(wire'))
  <1>1. /\ wire \in Seq(Bytes) /\ len_buf \in Seq(Bytes) /\ raw_data \in Seq(Bytes)
        /\ Len(len_buf) <= PrefixLen /\ Len(len_buf) \in Nat /\ Len(wire) \in Nat
    BY TypedBytes DEF IInv
  <1>2. PICK k \in Chunk(PrefixLen - Len(len_buf)) :
          len_buf' = len_buf \o SubSeq(wire, 1, k) /\ wire' = Drop(wire, k)
    BY DEF ReadPrefix
  <1>3. k \in Nat /\ 1 <= k /\ k <= PrefixLen - Len(len_buf) /\ k <= Len(wire) /\ k \in 0 .. Len(wire)
    <2>1. PrefixLen - Len(len_buf) \in Int
      BY <1>1, Sizes
    <2>. QED
      BY <1>1, <2>1, Chunks
  <1>4. /\ len_buf' \in Seq(Bytes) /\ Len(len_buf') = Len(len_buf) + k
        /\ Len(wire) - Len(wire') = k
    BY <1>1, <1>2, <1>3, Read
  <1>5. raw_data = <<>> /\ received' = received
    <2>1. Len(len_buf) < PrefixLen
      BY <1>1, <1>3, Sizes
    <2>. QED
      BY <1>1, <2>1, Sizes DEF IInv, Buffers, ReadPrefix
  <1>6. len_buf \o raw_data = len_buf
    BY <1>1, <1>5
  <1>7. Guess(k) = Err
    <2>1. Len(len_buf') < PrefixLen + HeaderLen
      BY <1>1, <1>3, <1>4, Sizes
    <2>2. from_bytes(len_buf') = Err
      BY <1>4, <2>1, TooShort
    <2>. QED
      BY <1>2, <1>6, <2>2 DEF Guess
  <1>8. ASSUME reader' = "err", NEW n \in k .. Len(wire) PROVE Guess(n) = Err
    <2>1. Len(len_buf') = PrefixLen /\ ~AcceptsLength(from_be_bytes(len_buf'))
      BY <1>8 DEF ReadPrefix
    <2>. DEFINE front == SubSeq(wire, 1, k)
                next == SubSeq(wire, k + 1, n)
    <2>2. /\ 1 \in 1 .. Len(wire) + 1 /\ k \in 1 - 1 .. Len(wire) /\ n \in k .. Len(wire)
          /\ n \in Int /\ k + 1 \in Int
      BY <1>1, <1>3
    <2>3. SubSeq(wire, 1, n) = front \o next
      BY <1>1, <2>2, ConcatAdjacentSubSeq
    <2>4. front \in Seq(Bytes)
      BY <1>1, <1>3, Parts
    <2>5. next \in Seq(Bytes)
      <3>1. \A i \in k + 1 .. n : i \in 1 .. Len(wire)
        BY <1>1, <1>3, <2>2
      <3>2. \A i \in k + 1 .. n : wire[i] \in Bytes
        BY <1>1, <3>1
      <3>. QED
        BY <2>2, <3>2, SubSeqProperties
    <2>6. len_buf' = len_buf \o front
      BY <1>2
    <2>. HIDE DEF front, next
    <2>7. len_buf \o (front \o next) = len_buf' \o next
      <3>1. (len_buf \o front) \o next = len_buf \o (front \o next)
        <4>1. len_buf \in Seq(Bytes)
          BY <1>1
        <4>. QED
          BY <2>4, <2>5, <4>1, Grouped, Zenon
      <3>. QED
        BY <2>6, <3>1, Zenon
    <2>8. Guess(n) = from_bytes(len_buf' \o next)
      BY <1>6, <2>3, <2>7, Zenon DEF Guess
    <2>9. from_bytes(len_buf' \o next) = Err
      BY <1>4, <2>1, <2>5, ParsedFrame
    <2>. QED
      BY <2>8, <2>9, Zenon
  <1>9. ASSUME reader' # "err", NEW n \in k .. k PROVE Guess(n) = Err
    <2>1. n = k
      BY <1>3, <1>9
    <2>. QED
      BY <1>7, <2>1, Zenon
  <1>. QED
    BY <1>4, <1>5, <1>8, <1>9 DEF Agree

\* Behind the prefix, from_bytes accepts the bytes exactly when the last one of
\* the frame is there and its type is known.
LEMMA BodyAgrees ==
  ASSUME IInv, ReadBody
  PROVE  Agree(Len(wire) - Len(wire'))
  <1>1. PICK k \in 0 .. Len(wire) :
          LET data == raw_data \o SubSeq(wire, 1, k)
          IN  /\ k > 0 /\ wire' = Drop(wire, k)
              /\ data \in Seq(Bytes) /\ Len(data) = Len(raw_data) + k
              /\ Len(wire) - Len(wire') = k /\ wire' \in Seq(Bytes)
              /\ Unfinished(data) \/ Completed(data) \/ Refused(data)
    BY BodyRead
  <1>. DEFINE Data(n) == raw_data \o SubSeq(wire, 1, n)
              frame_len == from_be_bytes(len_buf)
  <1>2. /\ k \in Nat /\ k \in 0 .. Len(wire) /\ Len(wire) - Len(wire') = k /\ Len(wire) \in Nat
        /\ Unfinished(Data(k)) \/ Completed(Data(k)) \/ Refused(Data(k))
    BY <1>1, AtBody
  <1>3. ASSUME NEW n \in 0 .. Len(wire)
        PROVE  /\ Data(n) \in Seq(Bytes) /\ Len(Data(n)) = Len(raw_data) + n
               /\ Guess(n) = IF Len(Data(n)) = frame_len /\ Data(n)[1] \in MessageTypes
                               THEN parts(Data(n)) ELSE Err
    <2>. DEFINE more == SubSeq(wire, 1, n)
    <2>1. Data(n) \in Seq(Bytes) /\ Len(Data(n)) = Len(raw_data) + n
      BY AtBody, Read
    <2>2. more \in Seq(Bytes)
      BY AtBody, Parts
    <2>. HIDE DEF more
    <2>3. (len_buf \o raw_data) \o more = len_buf \o (raw_data \o more)
      <3>1. len_buf \in Seq(Bytes) /\ raw_data \in Seq(Bytes)
        BY AtBody
      <3>. QED
        BY <2>2, <3>1, ConcatAssociative
    <2>4. Guess(n) = from_bytes(len_buf \o Data(n))
      BY <2>3, Zenon DEF Guess, more
    <2>. HIDE DEF Data
    <2>5. from_bytes(len_buf \o Data(n)) =
            IF /\ AcceptsLength(from_be_bytes(len_buf)) /\ Len(Data(n)) = from_be_bytes(len_buf)
               /\ Data(n)[1] \in MessageTypes
              THEN parts(Data(n)) ELSE Err
      BY <2>1, AtBody, ParsedFrame
    <2>6. AcceptsLength(from_be_bytes(len_buf))
      BY AtBody
    <2>. QED
      BY <2>1, <2>4, <2>5, <2>6, Zenon
  <1>. HIDE DEF Data
  <1>4. Len(Data(k)) = Len(raw_data) + k
    BY <1>2, <1>3
  <1>5. CASE Unfinished(Data(k))
    <2>1. received' = received /\ reader' # "err" /\ Len(Data(k)) # frame_len
      <3>1. received' = received /\ reader' = reader /\ Len(Data(k)) < frame_len
        BY <1>5 DEF Unfinished
      <3>2. Len(Data(k)) \in Nat /\ frame_len \in Nat /\ reader = "reading"
        BY <1>2, <1>4, AtBody
      <3>. QED
        BY <3>1, <3>2
    <2>2. Guess(k) = Err
      BY <1>2, <1>3, <2>1
    <2>3. \A n \in k .. k : n = k
      BY <1>2
    <2>. QED
      BY <1>2, <2>1, <2>2, <2>3 DEF Agree
  <1>6. CASE Completed(Data(k))
    <2>1. Guess(k) = parts(Data(k))
      BY <1>2, <1>3, <1>6 DEF Completed
    <2>2. received' = Append(received, parts(Data(k))) /\ parts(Data(k)) \in Frames
      <3>1. /\ AcceptsLength(Len(Data(k))) /\ Data(k)[1] \in MessageTypes
            /\ Data(k) \in Seq(Bytes)
        BY <1>2, <1>3, <1>6, AtBody DEF Completed
      <3>2. parts(Data(k)) \in Frames
        BY <3>1, PartsTyped
      <3>. QED
        BY <1>6, <3>2 DEF Completed
    <2>3. /\ Len(received') = Len(received) + 1
          /\ received'[Len(received) + 1] = parts(Data(k))
      BY <2>2, AtBody, AppendProperties
    <2>4. Len(received) \in Nat
      BY AtBody
    <2>5. received' # received
      BY <2>3, <2>4
    <2>6. Last(received') = parts(Data(k))
      BY <2>3, Zenon DEF Last
    <2>. QED
      BY <1>2, <2>1, <2>5, <2>6 DEF Agree
  <1>7. CASE Refused(Data(k))
    <2>1. /\ received' = received /\ reader' = "err"
          /\ Len(Data(k)) = frame_len /\ Data(k)[1] \notin MessageTypes
      BY <1>7 DEF Refused
    <2>2. ASSUME NEW n \in k .. Len(wire) PROVE Guess(n) = Err
      <3>1. n \in 0 .. Len(wire) /\ n \in Nat
        BY <1>2
      <3>2. Len(Data(n)) = Len(raw_data) + n
        BY <1>3, <3>1
      <3>3. CASE n = k
        BY <1>3, <2>1, <3>1, <3>3
      <3>4. CASE n # k
        <4>1. Len(Data(n)) # frame_len
          BY <1>2, <1>4, <2>1, <3>1, <3>2, <3>4, AtBody
        <4>. QED
          BY <1>3, <3>1, <4>1
      <3>. QED
        BY <3>3, <3>4
    <2>. QED
      BY <1>2, <2>1, <2>2 DEF Agree
  <1>. QED
    BY <1>2, <1>5, <1>6, <1>7

\* The stream's reader and the buffer's parser agree: read_from hands out a frame
\* exactly when from_bytes accepts the bytes it took, and the same frame; and
\* where it gives up, no more of what is on the wire would have helped.
THEOREM ParsersAlike == Spec => ParsersAgree
  <1>. DEFINE Step ==
         LET taken == Len(wire) - Len(wire')
             Parsed(n) == from_bytes(len_buf \o raw_data \o SubSeq(wire, 1, n))
         IN  taken > 0 /\ Reader =>
               /\ received' # received => Last(received') = Parsed(taken)
               /\ received' = received =>
                    \A n \in taken .. IF reader' = "err" THEN Len(wire) ELSE taken :
                      Parsed(n) = Err
  <1>1. ASSUME IInv, Reader, Len(wire) - Len(wire') > 0 PROVE Agree(Len(wire) - Len(wire'))
    <2>1. CASE ReadPrefix
      BY <1>1, <2>1, PrefixAgrees
    <2>2. CASE ReadBody
      BY <1>1, <2>2, BodyAgrees
    <2>3. CASE ReadFails
      <3>1. Len(wire) - Len(wire') = 0
        <4>1. wire' = wire /\ Len(wire) \in Nat
          BY <1>1, <2>3, TypedBytes DEF ReadFails, IInv
        <4>. QED
          BY <4>1
      <3>. QED
        BY <1>1, <3>1
    <2>. QED
      BY <1>1, <2>1, <2>2, <2>3 DEF Reader
  <1>2. IInv => [Step]_vars
    BY <1>1, Zenon DEF Agree, Guess
  <1>3. ParsersAgree <=> [][Step]_vars
    BY DEF ParsersAgree
  <1>. HIDE DEF Step
  <1>. QED
    BY <1>2, <1>3, Invariant, PTL

-----------------------------------------------------------------------------
(* Where the frames lie in the stream *)

\* The bytes that some frames take, and those that the first i of them take.
Total(s) == FoldLeft(LAMBDA n, f : n + Len(serialize(f)), 0, s)
EndIn(s, i) == Total(SubSeq(s, 1, i))

\* The bytes counted frame by frame.
Totals(v, s) ==
  /\ v \in [0 .. Len(s) -> Nat] /\ v[0] = 0
  /\ \A k \in 1 .. Len(s) : v[k] = v[k - 1] + Len(serialize(s[k]))

\* What the fold of EndOf computes.
FoldsSizes(g, s) ==
  g = [ t \in SUBSET DOMAIN s |->
          IF t = {} THEN 0 ELSE LET x == Max(t) IN g[t \ {x}] + Len(serialize(s[x])) ]

\* A frame has a size, larger than a prefix and a header.
LEMMA SerializedSize ==
  ASSUME NEW f \in WireFrames
  PROVE  Len(serialize(f)) \in Nat /\ Len(serialize(f)) >= PrefixLen + HeaderLen
  <1>1. Size(f) \in Nat /\ Size(f) >= HeaderLen /\ Len(serialize(f)) = PrefixLen + Size(f)
    BY FieldsOfFrame, Serialized
  <1>. QED
    BY <1>1, Sizes

\* The fold behind EndOf counts frame by frame.
LEMMA TotalComputes ==
  ASSUME NEW s \in Seq(WireFrames)
  PROVE  \E v : Totals(v, s) /\ Total(s) = v[Len(s)]
  <1>. DEFINE n == Len(s)
              size(i) == Len(serialize(s[i]))
              step == [ p \in (1 .. n) \X Nat |-> p[2] + size(p[1]) ]
  <1>1. n \in Nat /\ DOMAIN s = 1 .. n /\ \A i \in 1 .. n : size(i) \in Nat
    BY SerializedSize
  <1>. HIDE DEF n, size
  <1>2. step \in [(1 .. n) \X Nat -> Nat]
    BY <1>1
  <1>3. PICK f : f \in [SUBSET (1 .. n) -> Nat] /\ Folds(f, n, 0, step)
    BY <1>1, <1>2, FoldExists
  <1>4. FoldsSizes(f, s)
    <2>1. f[{}] = 0
      BY <1>3 DEF Folds
    <2>2. ASSUME NEW t \in SUBSET (1 .. n), t # {}
          PROVE  f[t] = f[t \ {Max(t)}] + size(Max(t))
      <3>1. Max(t) \in 1 .. n /\ t \ {Max(t)} \in SUBSET (1 .. n)
        BY <1>1, <2>2, MaxOfSome
      <3>2. f[t \ {Max(t)}] \in Nat
        BY <1>3, <3>1
      <3>3. f[t] = step[<<Max(t), f[t \ {Max(t)}]>>]
        BY <1>3, <2>2 DEF Folds
      <3>. QED
        BY <3>1, <3>2, <3>3
    <2>3. f = [ t \in SUBSET (1 .. n) |-> f[t] ]
      BY <1>3
    <2>. QED
      BY <1>1, <2>1, <2>2, <2>3 DEF FoldsSizes, size
  <1>. DEFINE g == CHOOSE h : FoldsSizes(h, s)
  <1>5. FoldsSizes(g, s)
    BY <1>4, Zenon
  <1>6. Total(s) = g[1 .. n]
    <2>1. Total(s) = g[DOMAIN s]
      BY Zenon DEF FoldsSizes, Total, FoldLeft, MapThenFoldSet
    <2>. QED
      BY <1>1, <2>1
  <1>. HIDE DEF g
  <1>. DEFINE v == [ k \in 0 .. n |-> g[1 .. k] ]
  <1>7. v[0] = 0
    <2>1. 1 .. 0 = {} /\ {} \in SUBSET DOMAIN s /\ 0 \in 0 .. n
      BY <1>1
    <2>2. g[{}] = 0
      BY <1>5, <2>1 DEF FoldsSizes
    <2>3. v[0] = g[1 .. 0]
      BY <2>1
    <2>. HIDE DEF v
    <2>. QED
      BY <2>1, <2>2, <2>3
  <1>8. ASSUME NEW k \in 1 .. n PROVE v[k] = v[k - 1] + size(k)
    <2>. DEFINE t == 1 .. k
    <2>0. k \in Nat \ {0}
      BY <1>1
    <2>1. t # {} /\ Max(t) = k /\ t \ {k} = 1 .. k - 1
      BY <2>0, LastIndex, Zenon
    <2>2. t \in SUBSET DOMAIN s
      BY <1>1
    <2>3. k \in 0 .. n /\ k - 1 \in 0 .. n
      BY <1>1
    <2>. HIDE DEF t
    <2>4. g[t] = g[t \ {Max(t)}] + size(Max(t))
      BY <1>5, <2>1, <2>2 DEF FoldsSizes, size
    <2>. QED
      BY <2>1, <2>3, <2>4 DEF t
  <1>9. \A k \in 0 .. n : v[k] \in Nat
    <2>. DEFINE S == { k \in Nat : v[k] \in Nat }
    <2>. HIDE DEF v
    <2>1. 0 \in S
      BY <1>7
    <2>2. ASSUME NEW k \in 0 .. n - 1, k \in S PROVE k + 1 \in S
      <3>1. k + 1 \in 1 .. n /\ (k + 1) - 1 = k /\ v[k] \in Nat
        BY <1>1, <2>2
      <3>2. v[k + 1] = v[k] + size(k + 1) /\ size(k + 1) \in Nat
        BY <1>1, <1>8, <3>1
      <3>. QED
        BY <3>1, <3>2
    <2>. HIDE DEF S
    <2>3. \A k \in 0 .. n : k \in S
      BY <1>1, <2>1, <2>2, BoundedInduction
    <2>. QED
      BY <2>3 DEF S
  <1>10. v \in [0 .. n -> Nat]
    BY <1>9
  <1>11. v[n] = g[1 .. n]
    <2>1. n \in 0 .. n
      BY <1>1
    <2>. QED
      BY <2>1
  <1>. HIDE DEF v
  <1>12. Totals(v, s)
    BY <1>7, <1>8, <1>10 DEF Totals, n, size
  <1>. QED
    BY <1>6, <1>11, <1>12 DEF n

\* As many frames as two sequences have in common take the same bytes.
LEMMA TotalsAgree ==
  ASSUME NEW s \in Seq(WireFrames), NEW t \in Seq(WireFrames), NEW u, NEW v,
         Totals(u, s), Totals(v, t),
         NEW j \in Nat, j <= Len(s), j <= Len(t), \A i \in 1 .. j : s[i] = t[i]
  PROVE  u[j] = v[j]
  <1>. DEFINE S == { k \in Nat : u[k] = v[k] }
  <1>1. 0 \in S
    BY DEF Totals
  <1>2. ASSUME NEW k \in 0 .. j - 1, k \in S PROVE k + 1 \in S
    <2>1. /\ k + 1 \in 1 .. j /\ k + 1 \in 1 .. Len(s) /\ k + 1 \in 1 .. Len(t)
          /\ (k + 1) - 1 = k /\ u[k] = v[k] /\ k + 1 \in Nat
      BY <1>2
    <2>2. u[k + 1] = u[k] + Len(serialize(s[k + 1])) /\ v[k + 1] = v[k] + Len(serialize(t[k + 1]))
      BY <2>1 DEF Totals
    <2>3. s[k + 1] = t[k + 1]
      BY <2>1
    <2>. QED
      BY <2>1, <2>2, <2>3
  <1>. HIDE DEF S
  <1>3. \A k \in 0 .. j : k \in S
    BY <1>1, <1>2, BoundedInduction
  <1>. QED
    BY <1>3 DEF S

\* The first i frames take what a count of them all has at i.
LEMMA EndInIs ==
  ASSUME NEW s \in Seq(WireFrames), NEW v, Totals(v, s), NEW i \in 0 .. Len(s)
  PROVE  EndIn(s, i) = v[i]
  <1>. DEFINE t == SubSeq(s, 1, i)
  <1>1. t \in Seq(WireFrames) /\ Len(t) = i /\ \A k \in 1 .. i : t[k] = s[k]
    BY Parts
  <1>. HIDE DEF t
  <1>2. PICK u : Totals(u, t) /\ Total(t) = u[i]
    BY <1>1, TotalComputes
  <1>3. i \in Nat /\ i <= Len(s) /\ i <= Len(t)
    BY <1>1
  <1>4. u[i] = v[i]
    BY <1>1, <1>2, <1>3, TotalsAgree
  <1>. QED
    BY <1>2, <1>4 DEF EndIn, t

\* Frame by frame the ends lie one frame apart.
LEMMA EndSteps ==
  ASSUME NEW s \in Seq(WireFrames)
  PROVE  /\ EndIn(s, 0) = 0
         /\ \A i \in 0 .. Len(s) : EndIn(s, i) \in Nat
         /\ \A i \in 1 .. Len(s) : EndIn(s, i) = EndIn(s, i - 1) + Len(serialize(s[i]))
  <1>1. PICK v : Totals(v, s)
    BY TotalComputes
  <1>2. \A i \in 0 .. Len(s) : EndIn(s, i) = v[i]
    BY <1>1, EndInIs
  <1>3. 0 \in 0 .. Len(s)
    OBVIOUS
  <1>4. EndIn(s, 0) = 0
    BY <1>1, <1>2, <1>3 DEF Totals
  <1>5. \A i \in 0 .. Len(s) : EndIn(s, i) \in Nat
    BY <1>1, <1>2 DEF Totals
  <1>6. ASSUME NEW i \in 1 .. Len(s) PROVE EndIn(s, i) = EndIn(s, i - 1) + Len(serialize(s[i]))
    <2>1. i \in 0 .. Len(s) /\ i - 1 \in 0 .. Len(s)
      OBVIOUS
    <2>2. v[i] = v[i - 1] + Len(serialize(s[i]))
      BY <1>1 DEF Totals
    <2>. QED
      BY <1>2, <2>1, <2>2
  <1>. QED
    BY <1>4, <1>5, <1>6

\* A later frame ends behind an earlier one.
LEMMA EndsGrow ==
  ASSUME NEW s \in Seq(WireFrames), NEW i \in 0 .. Len(s), NEW j \in i .. Len(s)
  PROVE  EndIn(s, i) <= EndIn(s, j) /\ (i < j => EndIn(s, i) + Len(serialize(s[j])) <= EndIn(s, j))
  <1>. DEFINE S == { k \in Nat : EndIn(s, i) <= EndIn(s, i + k) }
  <1>0. Len(s) \in Nat /\ i \in Nat /\ j \in Nat
    OBVIOUS
  <1>1. 0 \in S
    <2>1. EndIn(s, i) \in Nat /\ i + 0 = i
      BY EndSteps
    <2>. QED
      BY <2>1
  <1>2. ASSUME NEW k \in 0 .. (Len(s) - i) - 1, k \in S PROVE k + 1 \in S
    <2>. DEFINE m == i + k
    <2>1. m + 1 \in 1 .. Len(s) /\ (m + 1) - 1 = m /\ m \in 0 .. Len(s) /\ i + (k + 1) = m + 1 /\ k + 1 \in Nat
      BY <1>0
    <2>2. EndIn(s, i) <= EndIn(s, m)
      BY <1>2
    <2>. HIDE DEF m
    <2>3. EndIn(s, m + 1) = EndIn(s, m) + Len(serialize(s[m + 1]))
      BY <2>1, EndSteps
    <2>4. EndIn(s, i) \in Nat /\ EndIn(s, m) \in Nat
      BY <2>1, EndSteps
    <2>5. s[m + 1] \in WireFrames
      BY <2>1
    <2>6. Len(serialize(s[m + 1])) \in Nat
      BY <2>5, SerializedSize
    <2>7. EndIn(s, i) <= EndIn(s, m + 1)
      BY <2>2, <2>3, <2>4, <2>6
    <2>. QED
      BY <2>1, <2>7
  <1>. HIDE DEF S
  <1>3. Len(s) - i \in Nat
    BY <1>0
  <1>4. \A k \in 0 .. Len(s) - i : k \in S
    BY <1>1, <1>2, <1>3, BoundedInduction
  <1>5. ASSUME NEW m \in i .. Len(s) PROVE EndIn(s, i) <= EndIn(s, m)
    <2>1. m - i \in 0 .. Len(s) - i /\ i + (m - i) = m
      BY <1>0
    <2>2. m - i \in S
      BY <1>4, <2>1
    <2>. QED
      BY <2>1, <2>2 DEF S
  <1>6. ASSUME i < j PROVE EndIn(s, i) + Len(serialize(s[j])) <= EndIn(s, j)
    <2>1. j - 1 \in i .. Len(s) /\ j \in 1 .. Len(s) /\ j - 1 \in 0 .. Len(s)
      BY <1>0, <1>6
    <2>2. EndIn(s, i) <= EndIn(s, j - 1) /\ EndIn(s, j) = EndIn(s, j - 1) + Len(serialize(s[j]))
      BY <1>5, <2>1, EndSteps
    <2>3. EndIn(s, i) \in Nat /\ EndIn(s, j - 1) \in Nat
      BY <2>1, EndSteps
    <2>4. s[j] \in WireFrames
      BY <2>1
    <2>5. Len(serialize(s[j])) \in Nat
      BY <2>4, SerializedSize
    <2>. QED
      BY <2>2, <2>3, <2>5
  <1>. QED
    BY <1>5, <1>6

\* Another frame sent moves none of the earlier ones.
LEMMA EndsStay ==
  ASSUME NEW s \in Seq(WireFrames), NEW f \in WireFrames
  PROVE  /\ Append(s, f) \in Seq(WireFrames) /\ Len(Append(s, f)) = Len(s) + 1
         /\ \A i \in 1 .. Len(s) : Append(s, f)[i] = s[i]
         /\ Append(s, f)[Len(s) + 1] = f
         /\ \A i \in 0 .. Len(s) : EndIn(Append(s, f), i) = EndIn(s, i)
         /\ EndIn(Append(s, f), Len(s) + 1) = EndIn(s, Len(s)) + Len(serialize(f))
  <1>. DEFINE t == Append(s, f)
              n == Len(s)
  <1>1. /\ t \in Seq(WireFrames) /\ Len(t) = n + 1 /\ n \in Nat
        /\ (\A i \in 1 .. n : t[i] = s[i]) /\ t[n + 1] = f
    BY AppendProperties
  <1>. HIDE DEF t
  <1>2. PICK u : Totals(u, s)
    BY TotalComputes
  <1>3. PICK v : Totals(v, t)
    BY <1>1, TotalComputes
  <1>4. ASSUME NEW i \in 0 .. n PROVE EndIn(t, i) = EndIn(s, i)
    <2>1. i \in Nat /\ i <= Len(s) /\ i <= Len(t) /\ i \in 0 .. Len(t) /\ \A k \in 1 .. i : s[k] = t[k]
      BY <1>1
    <2>2. u[i] = v[i]
      BY <1>1, <1>2, <1>3, <2>1, TotalsAgree
    <2>3. EndIn(s, i) = u[i]
      BY <1>2, EndInIs
    <2>4. EndIn(t, i) = v[i]
      BY <1>1, <1>3, <2>1, EndInIs
    <2>. QED
      BY <2>2, <2>3, <2>4
  <1>5. EndIn(t, n + 1) = EndIn(s, n) + Len(serialize(f))
    <2>1. n + 1 \in 1 .. Len(t) /\ (n + 1) - 1 = n /\ n \in 0 .. n
      BY <1>1
    <2>2. EndIn(t, n + 1) = EndIn(t, n) + Len(serialize(t[n + 1]))
      BY <1>1, <2>1, EndSteps
    <2>3. EndIn(t, n) = EndIn(s, n)
      BY <1>4, <2>1
    <2>. QED
      BY <1>1, <2>2, <2>3
  <1>. QED
    BY <1>1, <1>4, <1>5 DEF t

-----------------------------------------------------------------------------
(* How many frames are good *)

\* Good, of any frames and altered offsets.
GoodCounts(s, offsets) ==
  { n \in 0 .. Len(s) :
      \A i \in 1 .. n : s[i] \in Frames /\ \A o \in offsets : o > EndIn(s, i) }
GoodOf(s, offsets) == Max(GoodCounts(s, offsets))

\* The offsets altered lie in the stream.
Within(offsets, n) == \A o \in offsets : o \in 1 .. n

\* The good frames are the longest beginning of good ones.
LEMMA GoodIs ==
  ASSUME NEW s \in Seq(WireFrames), NEW offsets
  PROVE  /\ GoodOf(s, offsets) \in GoodCounts(s, offsets)
         /\ \A n \in GoodCounts(s, offsets) : n <= GoodOf(s, offsets)
         /\ GoodOf(s, offsets) \in 0 .. Len(s)
  <1>. DEFINE S == GoodCounts(s, offsets)
  <1>1. S \in SUBSET (0 .. Len(s)) /\ Len(s) \in Nat
    BY DEF GoodCounts
  <1>2. 0 \in S
    BY <1>1 DEF GoodCounts
  <1>. HIDE DEF S
  <1>3. Max(S) \in S /\ \A y \in S : y <= Max(S)
    BY <1>1, <1>2, GreatestNumber
  <1>. QED
    BY <1>1, <1>3 DEF S, GoodOf

\* A frame whose length wraps is too long.
LEMMA WrapsIsLong ==
  ASSUME NEW f \in WireFrames, Wraps(f)
  PROVE  f \notin Frames
  <1>. DEFINE n == HeaderLen + Len(f.payload)
  <1>1. n \in Nat /\ n >= Weight[PrefixLen]
    BY FieldsOfFrame DEF Size, Wraps
  <1>2. Weight[PrefixLen] \in Nat
    BY Sizes, WeightSteps
  <1>. HIDE DEF n
  <1>3. ~(n <= MAX_FRAME_SIZE)
    BY <1>1, <1>2, Sizes
  <1>. QED
    BY <1>3 DEF Frames, n

\* Once something is altered or wraps, not every frame sent is good.
LEMMA GarbledShort ==
  ASSUME NEW s \in Seq(WireFrames), NEW offsets, Within(offsets, EndIn(s, Len(s))),
         offsets # {} \/ \E i \in DOMAIN s : Wraps(s[i])
  PROVE  GoodOf(s, offsets) < Len(s)
  <1>. DEFINE g == GoodOf(s, offsets)
  <1>1. g \in GoodCounts(s, offsets) /\ g \in 0 .. Len(s) /\ Len(s) \in Nat
    BY GoodIs
  <1>. HIDE DEF g
  <1>. SUFFICES ASSUME g = Len(s) PROVE FALSE
    BY <1>1 DEF g
  <1>2. \A i \in 1 .. Len(s) : s[i] \in Frames /\ \A o \in offsets : o > EndIn(s, i)
    BY <1>1 DEF GoodCounts
  <1>3. CASE offsets # {}
    <2>1. PICK o \in offsets : o \in 1 .. EndIn(s, Len(s))
      BY <1>3 DEF Within
    <2>2. EndIn(s, Len(s)) \in Nat /\ (Len(s) = 0 => EndIn(s, Len(s)) = 0)
      BY <1>1, EndSteps
    <2>3. Len(s) \in 1 .. Len(s)
      BY <1>1, <2>1, <2>2
    <2>4. o > EndIn(s, Len(s))
      BY <1>2, <2>3
    <2>. QED
      BY <2>1, <2>2, <2>4
  <1>4. CASE \E i \in DOMAIN s : Wraps(s[i])
    <2>1. PICK i \in 1 .. Len(s) : Wraps(s[i])
      BY <1>4
    <2>2. s[i] \in WireFrames /\ s[i] \in Frames
      BY <1>2
    <2>. QED
      BY <2>1, <2>2, WrapsIsLong
  <1>. QED
    BY <1>3, <1>4

\* A frame sent is good if all before it are and it is not too long.
LEMMA GoodSend ==
  ASSUME NEW s \in Seq(WireFrames), NEW f \in WireFrames,
         NEW offsets, Within(offsets, EndIn(s, Len(s)))
  PROVE  GoodOf(Append(s, f), offsets) =
           IF GoodOf(s, offsets) = Len(s) /\ f \in Frames
             THEN GoodOf(s, offsets) + 1 ELSE GoodOf(s, offsets)
  <1>. DEFINE t == Append(s, f)
              n == Len(s)
              g == GoodOf(s, offsets)
              h == GoodOf(t, offsets)
  <1>1. /\ t \in Seq(WireFrames) /\ Len(t) = n + 1 /\ n \in Nat
        /\ \A i \in 1 .. n : t[i] = s[i] /\ EndIn(t, i) = EndIn(s, i)
        /\ t[n + 1] = f
    BY EndsStay
  <1>. HIDE DEF t
  <1>2. /\ g \in GoodCounts(s, offsets) /\ (\A m \in GoodCounts(s, offsets) : m <= g)
        /\ g \in 0 .. n
    BY GoodIs
  <1>3. /\ h \in GoodCounts(t, offsets) /\ (\A m \in GoodCounts(t, offsets) : m <= h)
        /\ h \in 0 .. n + 1
    BY <1>1, GoodIs
  <1>. HIDE DEF g, h
  <1>4. \A m \in 0 .. n : m \in GoodCounts(s, offsets) <=> m \in GoodCounts(t, offsets)
    <2>1. SUFFICES ASSUME NEW m \in 0 .. n
                   PROVE  m \in GoodCounts(s, offsets) <=> m \in GoodCounts(t, offsets)
      OBVIOUS
    <2>2. \A i \in 1 .. m : t[i] = s[i] /\ EndIn(t, i) = EndIn(s, i)
      BY <1>1
    <2>3. m \in 0 .. Len(t) /\ m \in 0 .. Len(s)
      BY <1>1
    <2>. QED
      BY <2>2, <2>3 DEF GoodCounts
  <1>5. CASE g = n /\ f \in Frames
    <2>1. offsets = {}
      <3>1. ~(g < n)
        BY <1>1, <1>5
      <3>. QED
        BY <3>1, GarbledShort DEF g
    <2>2. \A i \in 1 .. n + 1 : t[i] \in Frames
      <3>1. \A i \in 1 .. n : s[i] \in Frames
        BY <1>2, <1>5 DEF GoodCounts
      <3>2. ASSUME NEW i \in 1 .. n + 1 PROVE t[i] \in Frames
        <4>1. i \in 1 .. n \/ i = n + 1
          BY <1>1
        <4>. QED
          BY <1>1, <1>5, <3>1, <4>1
      <3>. QED
        BY <3>2
    <2>3. n + 1 \in GoodCounts(t, offsets)
      BY <1>1, <2>1, <2>2 DEF GoodCounts
    <2>4. h = n + 1
      BY <1>1, <1>3, <2>3
    <2>. QED
      BY <1>5, <2>4 DEF g, h, t
  <1>6. CASE ~(g = n /\ f \in Frames)
    <2>1. n + 1 \notin GoodCounts(t, offsets)
      <3>. SUFFICES ASSUME n + 1 \in GoodCounts(t, offsets) PROVE FALSE
        OBVIOUS
      <3>1. \A i \in 1 .. n + 1 : t[i] \in Frames /\ \A o \in offsets : o > EndIn(t, i)
        BY DEF GoodCounts
      <3>2. n \in 0 .. Len(t) /\ \A i \in 1 .. n : i \in 1 .. n + 1
        BY <1>1
      <3>3. n \in GoodCounts(t, offsets)
        BY <3>1, <3>2 DEF GoodCounts
      <3>4. n <= g /\ n + 1 \in 1 .. n + 1
        BY <1>1, <1>2, <1>4, <3>3
      <3>5. g = n /\ f \in Frames
        BY <1>1, <1>2, <3>1, <3>4
      <3>. QED
        BY <1>6, <3>5
    <2>2. h \in 0 .. n
      <3>1. h # n + 1
        BY <1>3, <2>1
      <3>. QED
        BY <1>1, <1>3, <3>1
    <2>3. h <= g /\ g <= h
      BY <1>2, <1>3, <1>4, <2>2
    <2>4. h = g
      BY <1>2, <2>2, <2>3
    <2>. QED
      BY <1>6, <2>4 DEF g, h, t
  <1>. QED
    BY <1>5, <1>6

\* A byte altered behind k good frames leaves these good, and makes no frame so.
LEMMA GoodAlter ==
  ASSUME NEW s \in Seq(WireFrames), NEW offsets, NEW k \in 0 .. GoodOf(s, offsets),
         NEW o \in Int, o > EndIn(s, k)
  PROVE  GoodOf(s, offsets \cup {o}) \in k .. GoodOf(s, offsets)
  <1>. DEFINE more == offsets \cup {o}
              g == GoodOf(s, offsets)
              h == GoodOf(s, more)
  <1>1. /\ g \in GoodCounts(s, offsets) /\ (\A m \in GoodCounts(s, offsets) : m <= g)
        /\ g \in 0 .. Len(s)
    BY GoodIs
  <1>2. /\ h \in GoodCounts(s, more) /\ (\A m \in GoodCounts(s, more) : m <= h)
        /\ h \in 0 .. Len(s)
    BY GoodIs
  <1>. HIDE DEF g, h
  <1>3. h \in GoodCounts(s, offsets)
    BY <1>2 DEF GoodCounts
  <1>4. k \in GoodCounts(s, more)
    <2>1. k \in 0 .. Len(s) /\ k \in 0 .. g
      BY <1>1 DEF g
    <2>2. ASSUME NEW i \in 1 .. k PROVE s[i] \in Frames /\ \A p \in more : p > EndIn(s, i)
      <3>1. i \in 1 .. g /\ i \in 0 .. Len(s) /\ k \in i .. Len(s) /\ k \in 0 .. Len(s)
        BY <1>1, <2>1
      <3>2. s[i] \in Frames /\ \A p \in offsets : p > EndIn(s, i)
        BY <1>1, <3>1 DEF GoodCounts
      <3>3. EndIn(s, i) <= EndIn(s, k) /\ EndIn(s, i) \in Nat /\ EndIn(s, k) \in Nat
        BY <3>1, EndsGrow, EndSteps
      <3>4. o > EndIn(s, i)
        BY <3>3
      <3>. QED
        BY <3>2, <3>4
    <2>. QED
      BY <2>1, <2>2 DEF GoodCounts
  <1>5. h <= g /\ k <= h
    BY <1>1, <1>2, <1>3, <1>4
  <1>. QED
    BY <1>1, <1>2, <1>5 DEF g, h

-----------------------------------------------------------------------------
(* Which bytes lie where *)

\* Byte b may lie at offset p of the stream: it is what was written there, or
\* the offset was altered.
At(s, offsets, p, b) ==
  \A i \in 1 .. Len(s) : \A q \in 1 .. Len(serialize(s[i])) :
    p = EndIn(s, i - 1) + q /\ p \notin offsets => b = serialize(s[i])[q]

\* The bytes may lie behind offset p.
BytesAt(s, offsets, p, bytes) == \A q \in 1 .. Len(bytes) : At(s, offsets, p + q, bytes[q])

\* An offset lies in one frame only.
LEMMA AtFrame ==
  ASSUME NEW s \in Seq(WireFrames), NEW offsets, NEW i \in 1 .. Len(s),
         NEW q \in 1 .. Len(serialize(s[i]))
  PROVE  At(s, offsets, EndIn(s, i - 1) + q, serialize(s[i])[q])
  <1>. DEFINE p == EndIn(s, i - 1) + q
  <1>1. SUFFICES ASSUME NEW j \in 1 .. Len(s), NEW r \in 1 .. Len(serialize(s[j])),
                        p = EndIn(s, j - 1) + r
                 PROVE  serialize(s[i])[q] = serialize(s[j])[r]
    BY DEF At
  <1>2. /\ i - 1 \in 0 .. Len(s) /\ j - 1 \in 0 .. Len(s) /\ i \in 0 .. Len(s) /\ j \in 0 .. Len(s)
        /\ s[i] \in WireFrames /\ s[j] \in WireFrames
    OBVIOUS
  <1>. DEFINE a == EndIn(s, i - 1)
              b == EndIn(s, j - 1)
              m == Len(serialize(s[i]))
              n == Len(serialize(s[j]))
  <1>3. a \in Nat /\ b \in Nat /\ m \in Nat /\ n \in Nat
    BY <1>2, EndSteps, SerializedSize
  <1>4. i < j => a + m <= b
    <2>1. SUFFICES ASSUME i < j PROVE a + m <= b
      OBVIOUS
    <2>2. j - 1 \in i .. Len(s)
      BY <2>1
    <2>3. EndIn(s, i) <= b
      BY <1>2, <2>2, EndsGrow
    <2>4. EndIn(s, i) = a + m
      BY EndSteps
    <2>. QED
      BY <2>3, <2>4
  <1>5. j < i => b + n <= a
    <2>1. SUFFICES ASSUME j < i PROVE b + n <= a
      OBVIOUS
    <2>2. i - 1 \in j .. Len(s)
      BY <2>1
    <2>3. EndIn(s, j) <= a
      BY <1>2, <2>2, EndsGrow
    <2>4. EndIn(s, j) = b + n
      BY EndSteps
    <2>. QED
      BY <2>3, <2>4
  <1>6. a + q = b + r /\ q \in 1 .. m /\ r \in 1 .. n
    BY <1>1
  <1>. HIDE DEF a, b, m, n
  <1>7. i = j
    BY <1>3, <1>4, <1>5, <1>6
  <1>8. a = b
    BY <1>7 DEF a, b
  <1>9. q = r
    BY <1>3, <1>6, <1>8
  <1>. QED
    BY <1>7, <1>9

\* Bytes that lie one behind the other.
LEMMA BytesJoin ==
  ASSUME NEW s, NEW offsets, NEW p \in Nat, NEW a \in Seq(Bytes), NEW b \in Seq(Bytes),
         BytesAt(s, offsets, p, a), BytesAt(s, offsets, p + Len(a), b)
  PROVE  BytesAt(s, offsets, p, a \o b)
  <1>. DEFINE c == a \o b
              m == Len(a)
              n == Len(b)
  <1>1. m \in Nat /\ n \in Nat /\ Len(c) = m + n
        /\ \A q \in 1 .. m + n : c[q] = IF q <= m THEN a[q] ELSE b[q - m]
    BY ConcatProperties
  <1>2. /\ \A q \in 1 .. m : At(s, offsets, p + q, a[q])
        /\ \A q \in 1 .. n : At(s, offsets, (p + m) + q, b[q])
    BY DEF BytesAt
  <1>. HIDE DEF c, m, n
  <1>3. ASSUME NEW q \in 1 .. m + n PROVE At(s, offsets, p + q, c[q])
    <2>1. CASE q <= m
      <3>1. q \in 1 .. m /\ c[q] = a[q]
        BY <1>1, <2>1
      <3>. QED
        BY <1>2, <3>1
    <2>2. CASE ~(q <= m)
      <3>1. q - m \in 1 .. n /\ c[q] = b[q - m] /\ (p + m) + (q - m) = p + q
        BY <1>1, <2>2
      <3>2. At(s, offsets, (p + m) + (q - m), b[q - m])
        BY <1>2, <3>1, Zenon
      <3>. QED
        BY <3>1, <3>2
    <2>. QED
      BY <2>1, <2>2
  <1>. QED
    BY <1>1, <1>3 DEF BytesAt, c

\* Bytes cut in two lie where they lay.
LEMMA BytesCut ==
  ASSUME NEW s, NEW offsets, NEW p \in Nat, NEW w \in Seq(Bytes), NEW k \in 0 .. Len(w),
         BytesAt(s, offsets, p, w)
  PROVE  /\ BytesAt(s, offsets, p, SubSeq(w, 1, k))
         /\ BytesAt(s, offsets, p + k, Drop(w, k))
  <1>. DEFINE front == SubSeq(w, 1, k)
              rest == Drop(w, k)
              n == Len(w)
  <1>1. /\ Len(front) = k /\ (\A i \in 1 .. k : front[i] = w[i])
        /\ Len(rest) = n - k /\ (\A i \in 1 .. n - k : rest[i] = w[k + i])
    BY Parts
  <1>2. n \in Nat /\ k \in 0 .. n /\ \A q \in 1 .. n : At(s, offsets, p + q, w[q])
    BY DEF BytesAt
  <1>. HIDE DEF front, rest, n
  <1>3. BytesAt(s, offsets, p, front)
    <2>1. \A q \in 1 .. k : q \in 1 .. n
      BY <1>2
    <2>. QED
      BY <1>1, <1>2, <2>1 DEF BytesAt
  <1>4. ASSUME NEW q \in 1 .. n - k PROVE At(s, offsets, (p + k) + q, rest[q])
    <2>1. k + q \in 1 .. n /\ p + (k + q) = (p + k) + q /\ rest[q] = w[k + q]
      BY <1>1, <1>2
    <2>2. At(s, offsets, p + (k + q), w[k + q])
      BY <1>2, <2>1, Zenon
    <2>. QED
      BY <2>1, <2>2
  <1>. QED
    BY <1>1, <1>3, <1>4 DEF BytesAt, front, rest

\* Another frame sent does not touch what lies before its first byte.
LEMMA BytesSend ==
  ASSUME NEW s \in Seq(WireFrames), NEW f \in WireFrames, NEW offsets,
         NEW p \in Nat, NEW a \in Seq(Bytes), p + Len(a) <= EndIn(s, Len(s)),
         BytesAt(s, offsets, p, a)
  PROVE  BytesAt(Append(s, f), offsets, p, a)
  <1>. DEFINE t == Append(s, f)
              n == Len(s)
  <1>1. /\ t \in Seq(WireFrames) /\ Len(t) = n + 1 /\ n \in Nat
        /\ (\A i \in 1 .. n : t[i] = s[i]) /\ \A i \in 0 .. n : EndIn(t, i) = EndIn(s, i)
    BY EndsStay
  <1>2. EndIn(s, n) \in Nat /\ Len(a) \in Nat /\ n \in 0 .. n
    BY <1>1, EndSteps
  <1>. HIDE DEF t
  <1>0. SUFFICES ASSUME NEW q \in 1 .. Len(a) PROVE At(t, offsets, p + q, a[q])
    BY DEF BytesAt, t
  <1>3. SUFFICES ASSUME NEW i \in 1 .. n + 1, NEW r \in 1 .. Len(serialize(t[i])),
                        p + q = EndIn(t, i - 1) + r, p + q \notin offsets
                 PROVE  a[q] = serialize(t[i])[r]
    BY <1>1, Zenon DEF At
  <1>4. i # n + 1
    <2>. SUFFICES ASSUME i = n + 1 PROVE FALSE
      OBVIOUS
    <2>1. EndIn(t, i - 1) = EndIn(s, n)
      BY <1>1, <1>2
    <2>2. t[i] \in WireFrames
      BY <1>1
    <2>3. Len(serialize(t[i])) \in Nat
      BY <2>2, SerializedSize
    <2>. QED
      BY <1>2, <1>3, <2>1, <2>3
  <1>5. i \in 1 .. n /\ i - 1 \in 0 .. n
    BY <1>1, <1>4
  <1>6. t[i] = s[i] /\ EndIn(t, i - 1) = EndIn(s, i - 1)
    BY <1>1, <1>5
  <1>7. At(s, offsets, p + q, a[q])
    BY DEF BytesAt
  <1>. QED
    BY <1>3, <1>5, <1>6, <1>7 DEF At

\* Altering a byte puts no other out of place.
LEMMA BytesAltered ==
  ASSUME NEW s, NEW offsets, NEW p \in Nat, NEW o, NEW bytes, BytesAt(s, offsets, p, bytes)
  PROVE  BytesAt(s, offsets \cup {o}, p, bytes)
  BY DEF BytesAt, At

\* Nor is the altered byte itself out of place.
LEMMA ByteReplaced ==
  ASSUME NEW s, NEW offsets, NEW p \in Nat, NEW w \in Seq(Bytes), NEW i \in 1 .. Len(w),
         NEW b \in Bytes, BytesAt(s, offsets, p, w)
  PROVE  BytesAt(s, offsets \cup {p + i}, p, [w EXCEPT ![i] = b])
  <1>. DEFINE u == [w EXCEPT ![i] = b]
  <1>1. Len(u) = Len(w) /\ \A q \in 1 .. Len(w) : q # i => u[q] = w[q]
    OBVIOUS
  <1>. HIDE DEF u
  <1>2. ASSUME NEW q \in 1 .. Len(w) PROVE At(s, offsets \cup {p + i}, p + q, u[q])
    <2>1. CASE q = i
      BY <2>1 DEF At
    <2>2. CASE q # i
      BY <1>1, <2>2 DEF At, BytesAt
    <2>. QED
      BY <2>1, <2>2
  <1>. QED
    BY <1>1, <1>2 DEF BytesAt, u

\* The first bytes of an unaltered frame are its length prefix.
LEMMA ReadsPrefix ==
  ASSUME NEW s \in Seq(WireFrames), NEW offsets, NEW j \in 1 .. Len(s),
         \A o \in offsets : o > EndIn(s, j),
         NEW buf \in Seq(Bytes), Len(buf) = PrefixLen, BytesAt(s, offsets, EndIn(s, j - 1), buf),
         ~Wraps(s[j])
  PROVE  from_be_bytes(buf) = Size(s[j])
  <1>. DEFINE f == s[j]
              prefix == to_be_bytes(Size(f), PrefixLen)
              body == Body(f)
              bytes == serialize(f)
              a == EndIn(s, j - 1)
  <1>1. f \in WireFrames
    OBVIOUS
  <1>2. /\ bytes = prefix \o body /\ prefix \in Seq(Bytes) /\ Len(prefix) = PrefixLen
        /\ body \in Seq(Bytes) /\ Len(bytes) = PrefixLen + Size(f) /\ Size(f) \in Nat
    BY <1>1, Serialized, FieldsOfFrame
  <1>3. from_be_bytes(prefix) = Size(f)
    <2>1. Weight[PrefixLen] \in Nat
      BY Sizes, WeightSteps
    <2>2. Size(f) < Weight[PrefixLen]
      BY <1>2, <2>1 DEF Wraps, Size
    <2>. QED
      BY <1>2, <2>2, Sizes, RoundTrip
  <1>4. a \in Nat /\ EndIn(s, j) = a + Len(bytes)
    <2>1. j - 1 \in 0 .. Len(s)
      OBVIOUS
    <2>. QED
      BY <2>1, EndSteps
  <1>. HIDE DEF f, prefix, body, bytes, a
  <1>5. ASSUME NEW q \in 1 .. PrefixLen PROVE buf[q] = prefix[q]
    <2>1. q \in 1 .. Len(bytes) /\ a + q <= EndIn(s, j) /\ q \in 1 .. Len(buf)
      BY <1>2, <1>4, Sizes
    <2>2. a + q \notin offsets
      <3>1. a + q \in Nat /\ EndIn(s, j) \in Nat
        BY <1>2, <1>4, Sizes
      <3>. QED
        BY <2>1, <3>1
    <2>3. At(s, offsets, a + q, buf[q])
      BY <2>1 DEF BytesAt, a
    <2>4. buf[q] = bytes[q]
      BY <2>1, <2>2, <2>3 DEF At, f, bytes, a
    <2>5. bytes[q] = prefix[q]
      <3>1. q \in 1 .. Len(prefix) + Len(body) /\ q <= Len(prefix)
        BY <1>2, Sizes
      <3>. QED
        BY <1>2, <3>1, ConcatProperties
    <2>. QED
      BY <2>4, <2>5
  <1>6. buf = prefix
    BY <1>2, <1>5, SeqEqual
  <1>. QED
    BY <1>3, <1>6 DEF f

\* The bytes behind the length prefix of an unaltered frame are its body.
LEMMA ReadsBody ==
  ASSUME NEW s \in Seq(WireFrames), NEW offsets, NEW j \in 1 .. Len(s),
         \A o \in offsets : o > EndIn(s, j),
         NEW data \in Seq(Bytes), Len(data) = Size(s[j]),
         BytesAt(s, offsets, EndIn(s, j - 1) + PrefixLen, data)
  PROVE  data = Body(s[j])
  <1>. DEFINE f == s[j]
              prefix == to_be_bytes(Size(f), PrefixLen)
              body == Body(f)
              bytes == serialize(f)
              a == EndIn(s, j - 1)
  <1>1. f \in WireFrames
    OBVIOUS
  <1>2. /\ bytes = prefix \o body /\ prefix \in Seq(Bytes) /\ Len(prefix) = PrefixLen
        /\ body \in Seq(Bytes) /\ Len(body) = Size(f)
        /\ Len(bytes) = PrefixLen + Size(f) /\ Size(f) \in Nat
    BY <1>1, Serialized, FieldsOfFrame
  <1>3. Len(data) = Size(f)
    OBVIOUS
  <1>4. a \in Nat /\ EndIn(s, j) = a + Len(bytes)
    <2>1. j - 1 \in 0 .. Len(s)
      OBVIOUS
    <2>. QED
      BY <2>1, EndSteps
  <1>. HIDE DEF f, prefix, body, bytes, a
  <1>5. ASSUME NEW q \in 1 .. Size(f) PROVE data[q] = body[q]
    <2>. DEFINE r == PrefixLen + q
    <2>1. r \in 1 .. Len(bytes) /\ a + r <= EndIn(s, j) /\ q \in 1 .. Len(data) /\ (a + PrefixLen) + q = a + r
      BY <1>2, <1>3, <1>4, Sizes
    <2>2. a + r \notin offsets
      <3>1. a + r \in Nat /\ EndIn(s, j) \in Nat
        BY <1>2, <1>4, Sizes
      <3>. QED
        BY <2>1, <3>1
    <2>3. At(s, offsets, a + r, data[q])
      <3>1. At(s, offsets, (a + PrefixLen) + q, data[q])
        BY <2>1 DEF BytesAt, a
      <3>. QED
        BY <2>1, <3>1
    <2>4. bytes[r] = body[q]
      <3>1. r \in 1 .. Len(prefix) + Len(body) /\ ~(r <= Len(prefix)) /\ r - Len(prefix) = q
        BY <1>2, Sizes
      <3>. QED
        BY <1>2, <3>1, ConcatProperties
    <2>. HIDE DEF r
    <2>5. data[q] = bytes[r]
      BY <2>1, <2>2, <2>3 DEF At, f, bytes, a
    <2>. QED
      BY <2>4, <2>5
  <1>6. data = body
    BY <1>2, <1>3, <1>5, SeqEqual
  <1>. QED
    BY <1>6 DEF body, f

-----------------------------------------------------------------------------
(* The stream *)

Garbled == altered # {} \/ \E i \in DOMAIN sent : Wraps(sent[i])

\* The frames sent are frames, and only bytes that were written are altered.
Histories ==
  /\ sent \in Seq(WireFrames)
  /\ Within(altered, EndIn(sent, Len(sent)) - Len(outbox))

\* What is not written yet is the end of the last frame.
OutboxTail ==
  /\ sent = <<>> => outbox = <<>>
  /\ sent # <<>> =>
       LET m == serialize(sent[Len(sent)])
       IN  /\ Len(outbox) <= Len(m)
           /\ \A q \in 1 .. Len(outbox) : outbox[q] = m[(Len(m) - Len(outbox)) + q]

\* The reader has taken pos bytes; what a reset discards is under way no more.
Placed(pos) ==
  /\ pos + Len(wire) + Len(outbox) <= EndIn(sent, Len(sent))
  /\ writer # "reset" => pos + Len(wire) + Len(outbox) = EndIn(sent, Len(sent))

\* The reader knows the frame it is in: what it handed out are the frames sent,
\* and its buffers and the wire hold what was written next.
InStep(pos) ==
  /\ Len(received) <= GoodOf(sent, altered)
  /\ \A i \in 1 .. Len(received) : received[i] = sent[i]
  /\ pos = EndIn(sent, Len(received)) + Len(len_buf) + Len(raw_data)
  /\ BytesAt(sent, altered, EndIn(sent, Len(received)), len_buf)
  /\ BytesAt(sent, altered, EndIn(sent, Len(received)) + Len(len_buf), raw_data)
  /\ BytesAt(sent, altered, pos, wire)

\* Behind the good frames of a garbled stream the reader may be anywhere.
OffStep(pos) ==
  /\ Garbled /\ Len(received) >= GoodOf(sent, altered)
  /\ pos >= EndIn(sent, GoodOf(sent, altered))

Position == \E pos \in Nat : Placed(pos) /\ (InStep(pos) \/ OffStep(pos))

\* The inductive invariant of the refinement, on top of IInv.
Stream == Histories /\ OutboxTail /\ Position

\* What the two invariants say of types.
LEMMA StreamTyped ==
  ASSUME IInv, Histories
  PROVE  /\ sent \in Seq(WireFrames) /\ Len(sent) \in Nat
         /\ outbox \in Seq(Bytes) /\ Len(outbox) \in Nat
         /\ wire \in Seq(Bytes) /\ Len(wire) \in Nat
         /\ len_buf \in Seq(Bytes) /\ Len(len_buf) \in Nat
         /\ raw_data \in Seq(Bytes) /\ Len(raw_data) \in Nat
         /\ received \in Seq(Frames) /\ Len(received) \in Nat
         /\ EndIn(sent, Len(sent)) \in Nat
         /\ GoodOf(sent, altered) \in Nat /\ GoodOf(sent, altered) <= Len(sent)
         /\ EndIn(sent, GoodOf(sent, altered)) \in Nat
         /\ Within(altered, EndIn(sent, Len(sent)))
         /\ Garbled => GoodOf(sent, altered) < Len(sent)
  <1>1. sent \in Seq(WireFrames) /\ Len(sent) \in Nat /\ Len(sent) \in 0 .. Len(sent)
    BY DEF Histories
  <1>2. /\ outbox \in Seq(Bytes) /\ wire \in Seq(Bytes)
        /\ len_buf \in Seq(Bytes) /\ raw_data \in Seq(Bytes) /\ received \in Seq(Frames)
    BY TypedBytes DEF IInv, Buffers
  <1>3. /\ Len(outbox) \in Nat /\ Len(wire) \in Nat /\ Len(len_buf) \in Nat
        /\ Len(raw_data) \in Nat /\ Len(received) \in Nat
    BY <1>2
  <1>4. EndIn(sent, Len(sent)) \in Nat
    BY <1>1, EndSteps
  <1>5. GoodOf(sent, altered) \in 0 .. Len(sent)
    BY <1>1, GoodIs
  <1>6. EndIn(sent, GoodOf(sent, altered)) \in Nat
    BY <1>1, <1>5, EndSteps
  <1>7. Within(altered, EndIn(sent, Len(sent)))
    BY <1>3, <1>4 DEF Histories, Within
  <1>8. Garbled => GoodOf(sent, altered) < Len(sent)
    BY <1>1, <1>7, GarbledShort DEF Garbled
  <1>. QED
    BY <1>1, <1>2, <1>3, <1>4, <1>5, <1>6, <1>7, <1>8

\* A frame that is in step has been read up to a place before its end.
LEMMA InStepPlace ==
  ASSUME IInv, Histories, NEW pos \in Nat, InStep(pos)
  PROVE  /\ Len(received) \in 0 .. Len(sent) /\ EndIn(sent, Len(received)) \in Nat
         /\ EndIn(sent, Len(received)) <= pos
         /\ Len(len_buf) + EndIn(sent, Len(received)) <= pos
  <1>1. Len(received) \in 0 .. Len(sent)
    BY StreamTyped DEF InStep
  <1>2. EndIn(sent, Len(received)) \in Nat
    BY <1>1, StreamTyped, EndSteps
  <1>. QED
    BY <1>1, <1>2, StreamTyped DEF InStep

\* In the beginning nothing is written.
LEMMA InitStream == Init => Stream
  <1>. SUFFICES ASSUME Init PROVE Stream
    OBVIOUS
  <1>1. <<>> \in Seq(WireFrames) /\ Len(<<>>) = 0
    OBVIOUS
  <1>2. EndIn(<<>>, 0) = 0
    BY <1>1, EndSteps
  <1>3. Histories
    BY <1>1, <1>2 DEF Init, Histories, Within
  <1>4. OutboxTail
    BY DEF Init, OutboxTail
  <1>5. GoodOf(<<>>, {}) \in 0 .. 0
    BY <1>1, GoodIs
  <1>6. Placed(0) /\ InStep(0)
    BY <1>1, <1>2, <1>5 DEF Init, Placed, InStep, BytesAt
  <1>. QED
    BY <1>3, <1>4, <1>6 DEF Stream, Position

\* A frame sent is written behind everything that is under way.
LEMMA SendStream ==
  ASSUME IInv, Stream, NEW f \in Outgoing, WriteTo(f)
  PROVE  /\ Stream' /\ f \in WireFrames
         /\ GoodOf(sent', altered') =
              IF GoodOf(sent, altered) = Len(sent) /\ f \in Frames
                THEN GoodOf(sent, altered) + 1 ELSE GoodOf(sent, altered)
  <1>. DEFINE n == Len(sent)
              g == GoodOf(sent, altered)
              m == serialize(f)
              t == Append(sent, f)
  <1>0. Histories /\ OutboxTail /\ Position
    BY DEF Stream
  <1>1. f \in WireFrames
    BY StreamAssumption
  <1>2. /\ writer = "open" /\ outbox = <<>> /\ outbox' = m /\ sent' = t /\ writer' = writer
        /\ wire' = wire /\ len_buf' = len_buf /\ raw_data' = raw_data
        /\ received' = received /\ altered' = altered
    BY DEF WriteTo, readerVars
  <1>3. /\ t \in Seq(WireFrames) /\ Len(t) = n + 1 /\ (\A i \in 1 .. n : t[i] = sent[i])
        /\ t[n + 1] = f /\ (\A i \in 0 .. n : EndIn(t, i) = EndIn(sent, i))
        /\ EndIn(t, n + 1) = EndIn(sent, n) + Len(m)
    BY <1>0, <1>1, StreamTyped, EndsStay
  <1>4. m \in Seq(Bytes) /\ Len(m) \in Nat
    BY <1>1, Serialized
  <1>5. GoodOf(t, altered) = IF g = n /\ f \in Frames THEN g + 1 ELSE g
    BY <1>0, <1>1, StreamTyped, GoodSend
  <1>6. n \in Nat /\ g \in Nat /\ g <= n /\ EndIn(sent, n) \in Nat /\ Len(outbox) = 0
        /\ t # <<>>
    BY <1>0, <1>2, <1>3, StreamTyped
  <1>. HIDE DEF m, t, g, n
  <1>7. Histories'
    <2>1. EndIn(t, Len(t)) - Len(m) = EndIn(sent, n) - Len(outbox)
      BY <1>3, <1>4, <1>6
    <2>2. Within(altered, EndIn(sent, n) - Len(outbox))
      BY <1>0 DEF Histories, n
    <2>3. Within(altered, EndIn(t, Len(t)) - Len(m))
      BY <2>1, <2>2
    <2>. QED
      BY <1>2, <1>3, <2>3 DEF Histories
  <1>8. OutboxTail'
    <2>1. t[Len(t)] = f /\ Len(m) <= Len(m) /\ \A q \in 1 .. Len(m) : (Len(m) - Len(m)) + q = q
      BY <1>3, <1>4
    <2>. QED
      BY <1>2, <1>6, <2>1 DEF OutboxTail, m
  <1>9. PICK pos \in Nat : Placed(pos) /\ (InStep(pos) \/ OffStep(pos))
    BY <1>0 DEF Position
  <1>10. Placed(pos)'
    <2>1. pos + Len(wire) + Len(outbox) = EndIn(sent, n) /\ Len(wire) \in Nat
      BY <1>0, <1>2, <1>9, StreamTyped DEF Placed, n
    <2>2. pos + Len(wire) + Len(m) = EndIn(t, Len(t))
      BY <1>3, <1>4, <1>6, <2>1
    <2>3. EndIn(t, Len(t)) \in Nat
      BY <1>3, <1>4, <1>6
    <2>. QED
      BY <1>2, <2>2, <2>3 DEF Placed
  <1>11. ASSUME InStep(pos) PROVE Position'
    <2>. DEFINE j == Len(received)
                e == EndIn(sent, j)
    <2>1. /\ j \in 0 .. n /\ e \in Nat /\ j <= g
          /\ e + Len(len_buf) + Len(raw_data) = pos
          /\ Len(len_buf) \in Nat /\ Len(raw_data) \in Nat /\ Len(wire) \in Nat
          /\ BytesAt(sent, altered, e, len_buf)
          /\ BytesAt(sent, altered, e + Len(len_buf), raw_data)
          /\ BytesAt(sent, altered, pos, wire)
          /\ \A i \in 1 .. j : received[i] = sent[i]
      BY <1>0, <1>11, InStepPlace, StreamTyped DEF InStep, n, g
    <2>2. pos + Len(wire) <= EndIn(sent, n)
      <3>1. pos + Len(wire) + Len(outbox) <= EndIn(sent, n)
        BY <1>9 DEF Placed, n
      <3>. QED
        BY <1>6, <2>1, <3>1
    <2>3. /\ e + Len(len_buf) <= EndIn(sent, n) /\ e + Len(len_buf) \in Nat
          /\ (e + Len(len_buf)) + Len(raw_data) <= EndIn(sent, n)
      BY <1>6, <2>1, <2>2
    <2>4. /\ sent \in Seq(WireFrames) /\ len_buf \in Seq(Bytes) /\ raw_data \in Seq(Bytes)
          /\ wire \in Seq(Bytes)
      BY <1>0, StreamTyped
    <2>. HIDE DEF j, e
    <2>5. BytesAt(t, altered, e, len_buf)
      BY <1>1, <2>1, <2>3, <2>4, BytesSend DEF n, t
    <2>6. BytesAt(t, altered, e + Len(len_buf), raw_data)
      BY <1>1, <2>1, <2>3, <2>4, BytesSend DEF n, t
    <2>7. BytesAt(t, altered, pos, wire)
      BY <1>1, <2>1, <2>2, <2>4, BytesSend DEF n, t
    <2>8. j <= GoodOf(t, altered) /\ EndIn(t, j) = e /\ \A i \in 1 .. j : received[i] = t[i]
      <3>1. \A i \in 1 .. j : i \in 1 .. n
        BY <1>6, <2>1
      <3>2. j <= GoodOf(t, altered)
        BY <1>5, <1>6, <2>1
      <3>3. EndIn(t, j) = e
        BY <1>3, <2>1 DEF e
      <3>. QED
        BY <1>3, <2>1, <3>1, <3>2, <3>3
    <2>9. InStep(pos)'
      BY <1>2, <2>1, <2>5, <2>6, <2>7, <2>8 DEF InStep, j
    <2>. QED
      BY <1>10, <2>9 DEF Position
  <1>12. ASSUME OffStep(pos) PROVE Position'
    <2>1. g < n /\ Garbled
      BY <1>0, <1>12, StreamTyped DEF OffStep, g, n
    <2>2. GoodOf(t, altered) = g /\ EndIn(t, g) = EndIn(sent, g)
      BY <1>3, <1>5, <1>6, <2>1
    <2>3. Garbled'
      <3>1. CASE altered # {}
        BY <1>2, <3>1 DEF Garbled
      <3>2. CASE \E i \in DOMAIN sent : Wraps(sent[i])
        <4>1. PICK i \in 1 .. n : Wraps(sent[i])
          <5>1. sent \in Seq(WireFrames)
            BY <1>0, StreamTyped
          <5>. QED
            BY <3>2, <5>1 DEF n
        <4>2. i \in DOMAIN t /\ t[i] = sent[i]
          BY <1>3, <1>6
        <4>. QED
          BY <1>2, <4>1, <4>2 DEF Garbled
      <3>. QED
        BY <2>1, <3>1, <3>2 DEF Garbled
    <2>4. OffStep(pos)'
      BY <1>2, <1>12, <2>2, <2>3 DEF OffStep, g
    <2>. QED
      BY <1>10, <2>4 DEF Position
  <1>13. Position'
    BY <1>9, <1>11, <1>12
  <1>. QED
    BY <1>1, <1>2, <1>5, <1>7, <1>8, <1>13 DEF Stream, g, n, t

\* What is not written yet belongs at the end of the stream.
LEMMA OutboxAt ==
  ASSUME IInv, Stream
  PROVE  /\ EndIn(sent, Len(sent)) - Len(outbox) \in Nat
         /\ BytesAt(sent, altered, EndIn(sent, Len(sent)) - Len(outbox), outbox)
  <1>. DEFINE n == Len(sent)
              e == EndIn(sent, n)
              m == serialize(sent[n])
              k == Len(m) - Len(outbox)
  <1>1. /\ Histories /\ OutboxTail /\ sent \in Seq(WireFrames) /\ n \in Nat /\ e \in Nat
        /\ Len(outbox) \in Nat /\ outbox \in Seq(Bytes)
    BY StreamTyped DEF Stream
  <1>2. CASE sent = <<>>
    <2>1. outbox = <<>> /\ Len(outbox) = 0
      BY <1>1, <1>2 DEF OutboxTail
    <2>. QED
      BY <1>1, <2>1 DEF BytesAt
  <1>3. CASE sent # <<>>
    <2>1. n \in 1 .. Len(sent) /\ n - 1 \in 0 .. Len(sent) /\ sent[n] \in WireFrames
      BY <1>1, <1>3
    <2>2. /\ Len(m) \in Nat /\ Len(outbox) <= Len(m)
          /\ \A q \in 1 .. Len(outbox) : outbox[q] = m[k + q]
      BY <1>1, <1>3, <2>1, SerializedSize DEF OutboxTail
    <2>3. e = EndIn(sent, n - 1) + Len(m) /\ EndIn(sent, n - 1) \in Nat
      BY <1>1, <2>1, EndSteps
    <2>4. ASSUME NEW q \in 1 .. Len(outbox)
          PROVE  At(sent, altered, (e - Len(outbox)) + q, outbox[q])
      <3>1. k + q \in 1 .. Len(m) /\ (e - Len(outbox)) + q = EndIn(sent, n - 1) + (k + q)
        BY <1>1, <2>2, <2>3
      <3>2. At(sent, altered, EndIn(sent, n - 1) + (k + q), m[k + q])
        BY <1>1, <2>1, <3>1, AtFrame
      <3>3. outbox[q] = m[k + q]
        BY <2>2
      <3>. QED
        BY <3>1, <3>2, <3>3, Zenon
    <2>5. e - Len(outbox) \in Nat
      BY <1>1, <2>2, <2>3
    <2>. QED
      BY <2>4, <2>5 DEF BytesAt
  <1>. QED
    BY <1>2, <1>3

\* Bytes written move from the outbox to the end of the wire.
LEMMA WriteStream == IInv /\ Stream /\ WriteSome => Stream'
  <1>. SUFFICES ASSUME IInv, Stream, WriteSome PROVE Stream'
    OBVIOUS
  <1>. DEFINE n == Len(sent)
              e == EndIn(sent, n)
  <1>0. Histories /\ OutboxTail /\ Position
    BY DEF Stream
  <1>1. /\ sent \in Seq(WireFrames) /\ n \in Nat /\ e \in Nat /\ Len(outbox) \in Nat
        /\ outbox \in Seq(Bytes) /\ wire \in Seq(Bytes) /\ Len(wire) \in Nat
    BY <1>0, StreamTyped
  <1>2. PICK k \in 1 .. Len(outbox) :
          wire' = wire \o SubSeq(outbox, 1, k) /\ outbox' = Drop(outbox, k)
    BY DEF WriteSome
  <1>3. /\ writer = "open" /\ writer' = writer /\ sent' = sent /\ altered' = altered
        /\ received' = received /\ len_buf' = len_buf /\ raw_data' = raw_data
    BY DEF WriteSome, readerVars
  <1>. DEFINE front == SubSeq(outbox, 1, k)
              rest == Drop(outbox, k)
  <1>4. /\ front \in Seq(Bytes) /\ Len(front) = k /\ rest \in Seq(Bytes)
        /\ Len(rest) = Len(outbox) - k /\ k \in 0 .. Len(outbox)
        /\ \A i \in 1 .. Len(outbox) - k : rest[i] = outbox[k + i]
    <2>1. k \in 0 .. Len(outbox)
      BY <1>1
    <2>. QED
      BY <1>1, <2>1, Parts
  <1>5. /\ e - Len(outbox) \in Nat /\ BytesAt(sent, altered, e - Len(outbox), outbox)
    BY OutboxAt
  <1>6. BytesAt(sent, altered, e - Len(outbox), front)
    BY <1>1, <1>4, <1>5, BytesCut
  <1>. HIDE DEF front, rest, n, e
  <1>7. wire' = wire \o front /\ outbox' = rest
    BY <1>2 DEF front, rest
  <1>8. wire' \in Seq(Bytes) /\ Len(wire') = Len(wire) + k
    BY <1>1, <1>4, <1>7, ConcatProperties
  <1>9. Histories'
    <2>1. \A o \in altered : o \in 1 .. e - Len(outbox)
      BY <1>0 DEF Histories, Within, e, n
    <2>2. \A o \in altered : o \in 1 .. e - Len(rest)
      BY <1>1, <1>4, <2>1
    <2>. QED
      BY <1>1, <1>3, <1>7, <2>2 DEF Histories, Within, e, n
  <1>10. OutboxTail'
    <2>1. CASE sent = <<>>
      <3>1. outbox = <<>>
        BY <1>0, <2>1 DEF OutboxTail
      <3>. QED
        BY <1>2, <3>1
    <2>2. CASE sent # <<>>
      <3>. DEFINE m == serialize(sent[Len(sent)])
      <3>1. /\ Len(outbox) <= Len(m)
            /\ \A q \in 1 .. Len(outbox) : outbox[q] = m[(Len(m) - Len(outbox)) + q]
        BY <1>0, <2>2 DEF OutboxTail
      <3>2. Len(m) \in Nat
        <4>1. sent[Len(sent)] \in WireFrames
          BY <1>1, <2>2
        <4>. QED
          BY <4>1, SerializedSize
      <3>. HIDE DEF m
      <3>3. ASSUME NEW q \in 1 .. Len(rest) PROVE rest[q] = m[(Len(m) - Len(rest)) + q]
        <4>1. /\ k + q \in 1 .. Len(outbox) /\ q \in 1 .. Len(outbox) - k
              /\ (Len(m) - Len(outbox)) + (k + q) = (Len(m) - Len(rest)) + q
          BY <1>1, <1>4, <3>2
        <4>2. rest[q] = outbox[k + q] /\ outbox[k + q] = m[(Len(m) - Len(outbox)) + (k + q)]
          BY <1>4, <3>1, <4>1
        <4>. QED
          BY <4>1, <4>2, Zenon
      <3>4. Len(rest) <= Len(m)
        BY <1>1, <1>4, <3>1, <3>2
      <3>. QED
        BY <1>3, <1>7, <2>2, <3>3, <3>4 DEF OutboxTail, m
    <2>. QED
      BY <2>1, <2>2
  <1>11. PICK pos \in Nat : Placed(pos) /\ (InStep(pos) \/ OffStep(pos))
    BY <1>0 DEF Position
  <1>12. pos + Len(wire) + Len(outbox) = e
    BY <1>3, <1>11 DEF Placed, e, n
  <1>13. Placed(pos)'
    <2>1. pos + Len(wire') + Len(rest) = e
      <3>. DEFINE w == Len(wire)
                  o == Len(outbox)
      <3>1. w \in Nat /\ o \in Nat /\ pos + w + o = e /\ Len(wire') = w + k /\ Len(rest) = o - k
        BY <1>1, <1>4, <1>8, <1>12
      <3>. HIDE DEF w, o
      <3>. QED
        BY <3>1
    <2>. QED
      BY <1>1, <1>3, <1>7, <2>1 DEF Placed, e, n
  <1>14. ASSUME InStep(pos) PROVE InStep(pos)'
    <2>1. pos + Len(wire) = e - Len(outbox)
      BY <1>1, <1>12
    <2>2. BytesAt(sent, altered, pos, wire)
      BY <1>14 DEF InStep
    <2>3. BytesAt(sent, altered, pos, wire')
      BY <1>1, <1>4, <1>6, <1>7, <2>1, <2>2, BytesJoin
    <2>. QED
      BY <1>3, <1>14, <2>3 DEF InStep
  <1>15. ASSUME OffStep(pos) PROVE OffStep(pos)'
    BY <1>3, <1>15 DEF OffStep, Garbled
  <1>. QED
    BY <1>9, <1>10, <1>11, <1>13, <1>14, <1>15 DEF Stream, Position

\* The end of the connection leaves what was written in its place; a reset
\* discards the end of what is under way.
LEMMA FinishStream == IInv /\ Stream /\ (WriterCloses \/ ConnectionReset) => Stream'
  <1>. SUFFICES ASSUME IInv, Stream, WriterCloses \/ ConnectionReset PROVE Stream'
    OBVIOUS
  <1>0. Histories /\ OutboxTail /\ Position
    BY DEF Stream
  <1>1. /\ outbox' = outbox /\ sent' = sent /\ altered' = altered
        /\ received' = received /\ len_buf' = len_buf /\ raw_data' = raw_data
        /\ writer = "open"
    BY DEF WriterCloses, ConnectionReset, readerVars
  <1>2. Histories' /\ OutboxTail'
    BY <1>0, <1>1 DEF Histories, OutboxTail
  <1>3. PICK pos \in Nat : Placed(pos) /\ (InStep(pos) \/ OffStep(pos))
    BY <1>0 DEF Position
  <1>4. CASE WriterCloses
    <2>1. wire' = wire /\ writer' = "closed"
      BY <1>4 DEF WriterCloses
    <2>2. Placed(pos)'
      BY <1>1, <1>3, <2>1 DEF Placed
    <2>3. InStep(pos)' \/ OffStep(pos)'
      BY <1>1, <1>3, <2>1 DEF InStep, OffStep, Garbled
    <2>. QED
      BY <1>2, <2>2, <2>3 DEF Stream, Position
  <1>5. CASE ConnectionReset
    <2>1. PICK k \in 0 .. Len(wire) : wire' = SubSeq(wire, 1, k)
      BY <1>5 DEF ConnectionReset
    <2>2. writer' = "reset"
      BY <1>5 DEF ConnectionReset
    <2>3. /\ wire \in Seq(Bytes) /\ Len(wire) \in Nat /\ Len(outbox) \in Nat
          /\ EndIn(sent, Len(sent)) \in Nat
      BY <1>0, StreamTyped
    <2>4. Len(wire') = k /\ k <= Len(wire) /\ k \in Nat
      BY <2>1, <2>3, Parts
    <2>5. Placed(pos)'
      <3>1. pos + Len(wire) + Len(outbox) <= EndIn(sent, Len(sent))
        BY <1>3 DEF Placed
      <3>2. pos + Len(wire') + Len(outbox) <= EndIn(sent, Len(sent))
        BY <2>3, <2>4, <3>1
      <3>. QED
        BY <1>1, <2>2, <3>2 DEF Placed
    <2>6. ASSUME InStep(pos) PROVE InStep(pos)'
      <3>1. BytesAt(sent, altered, pos, wire)
        BY <2>6 DEF InStep
      <3>2. BytesAt(sent, altered, pos, wire')
        BY <2>1, <2>3, <3>1, BytesCut
      <3>. QED
        BY <1>1, <2>6, <3>2 DEF InStep
    <2>7. OffStep(pos) => OffStep(pos)'
      BY <1>1 DEF OffStep, Garbled
    <2>. QED
      BY <1>2, <1>3, <2>5, <2>6, <2>7 DEF Stream, Position
  <1>. QED
    BY <1>4, <1>5

\* A byte altered under way lies behind what the reader has taken.
LEMMA AlterStream ==
  ASSUME IInv, Stream, ByteAltered
  PROVE  /\ Stream' /\ altered' # {}
         /\ \/ GoodOf(sent, altered') = GoodOf(sent, altered)
            \/ GoodOf(sent, altered') \in Len(received) .. GoodOf(sent, altered)
  <1>. DEFINE n == Len(sent)
              e == EndIn(sent, n)
              g == GoodOf(sent, altered)
  <1>0. Histories /\ OutboxTail /\ Position
    BY DEF Stream
  <1>1. /\ sent \in Seq(WireFrames) /\ n \in Nat /\ e \in Nat /\ Len(outbox) \in Nat
        /\ wire \in Seq(Bytes) /\ Len(wire) \in Nat /\ g \in Nat /\ g <= n
        /\ EndIn(sent, g) \in Nat /\ Len(received) \in Nat
    BY <1>0, StreamTyped
  <1>2. PICK i \in DOMAIN wire, b \in AlteredTo :
          /\ wire' = [wire EXCEPT ![i] = b]
          /\ altered' = altered \cup {EndOf(Len(sent)) - Len(outbox) - Len(wire) + i}
    BY DEF ByteAltered
  <1>3. /\ writer # "reset" /\ writer' = writer /\ sent' = sent /\ outbox' = outbox
        /\ received' = received /\ len_buf' = len_buf /\ raw_data' = raw_data
    BY DEF ByteAltered, writerVars, readerVars
  <1>4. i \in 1 .. Len(wire) /\ b \in Bytes
    BY <1>1, <1>2, StreamAssumption
  <1>5. PICK pos \in Nat : Placed(pos) /\ (InStep(pos) \/ OffStep(pos))
    BY <1>0 DEF Position
  <1>6. pos + Len(wire) + Len(outbox) = e
    BY <1>3, <1>5 DEF Placed
  <1>7. EndOf(Len(sent)) = e
    BY DEF EndOf, EndIn, Total
  <1>. HIDE DEF n, e, g
  <1>8. altered' = altered \cup {pos + i}
    <2>1. ((e - Len(outbox)) - Len(wire)) + i = pos + i
      <3>. DEFINE w == Len(wire)
                  o == Len(outbox)
      <3>1. w \in Nat /\ o \in Nat /\ (pos + w) + o = e /\ i \in Nat /\ e \in Nat
        BY <1>1, <1>4, <1>6
      <3>. HIDE DEF w, o
      <3>2. ((e - o) - w) + i = pos + i
        BY <3>1
      <3>. QED
        BY <3>2 DEF w, o
    <2>. QED
      BY <1>2, <1>7, <2>1
  <1>9. Len(wire') = Len(wire)
    BY <1>1, <1>2
  <1>10. Histories'
    <2>1. pos + i \in 1 .. e - Len(outbox)
      BY <1>1, <1>4, <1>6
    <2>2. \A o \in altered : o \in 1 .. e - Len(outbox)
      BY <1>0 DEF Histories, Within, e, n
    <2>. QED
      BY <1>1, <1>3, <1>8, <2>1, <2>2 DEF Histories, Within, e, n
  <1>11. OutboxTail'
    BY <1>0, <1>3 DEF OutboxTail
  <1>12. Placed(pos)'
    BY <1>3, <1>5, <1>9 DEF Placed
  <1>13. CASE InStep(pos)
    <2>. DEFINE j == Len(received)
    <2>1. /\ j \in 0 .. g /\ EndIn(sent, j) \in Nat /\ EndIn(sent, j) <= pos
          /\ BytesAt(sent, altered, pos, wire)
      <3>1. j <= g
        BY <1>13 DEF InStep, g
      <3>. QED
        BY <1>0, <1>1, <1>13, <3>1, InStepPlace DEF InStep
    <2>2. pos + i \in Int /\ pos + i > EndIn(sent, j)
      BY <1>4, <2>1
    <2>3. GoodOf(sent, altered') \in j .. g
      BY <1>1, <1>8, <2>1, <2>2, GoodAlter DEF g
    <2>4. BytesAt(sent, altered', pos, wire')
      <3>1. wire \in Seq(Bytes) /\ BytesAt(sent, altered, pos, wire)
        BY <1>1, <2>1
      <3>2. BytesAt(sent, altered \cup {pos + i}, pos, [wire EXCEPT ![i] = b])
        BY <1>4, <3>1, ByteReplaced
      <3>. QED
        BY <1>2, <1>8, <3>2, Zenon
    <2>5. j <= GoodOf(sent, altered')
      BY <1>1, <2>3
    <2>. DEFINE a == EndIn(sent, j)
    <2>6. /\ BytesAt(sent, altered', a, len_buf)
          /\ BytesAt(sent, altered', a + Len(len_buf), raw_data)
      <3>1. /\ BytesAt(sent, altered, a, len_buf)
            /\ BytesAt(sent, altered, a + Len(len_buf), raw_data)
        BY <1>13 DEF InStep
      <3>2. a \in Nat /\ a + Len(len_buf) \in Nat
        BY <1>0, <2>1, StreamTyped
      <3>. QED
        BY <1>8, <3>1, <3>2, BytesAltered
    <2>7. InStep(pos)'
      BY <1>3, <1>13, <2>4, <2>5, <2>6 DEF InStep
    <2>8. Stream'
      BY <1>10, <1>11, <1>12, <2>7 DEF Stream, Position
    <2>. QED
      BY <1>8, <2>3, <2>8 DEF g
  <1>14. CASE OffStep(pos)
    <2>1. pos >= EndIn(sent, g) /\ Len(received) >= g
      BY <1>14 DEF OffStep, g
    <2>2. g \in 0 .. g /\ pos + i \in Int /\ pos + i > EndIn(sent, g)
      BY <1>1, <1>4, <2>1
    <2>3. GoodOf(sent, altered') \in g .. g
      BY <1>1, <1>8, <2>2, GoodAlter DEF g
    <2>4. GoodOf(sent, altered') = g
      BY <1>1, <2>3
    <2>5. altered' # {}
      BY <1>8
    <2>6. OffStep(pos)'
      BY <1>3, <2>1, <2>4, <2>5 DEF OffStep, Garbled, g
    <2>7. Stream'
      BY <1>10, <1>11, <1>12, <2>6 DEF Stream, Position
    <2>. QED
      BY <2>4, <2>5, <2>7 DEF g
  <1>. QED
    BY <1>5, <1>13, <1>14

\* Of the frames sent the next one is good, or the first that is not.
LEMMA NextGood ==
  ASSUME NEW s \in Seq(WireFrames), NEW offsets, NEW j \in 0 .. GoodOf(s, offsets), j < Len(s)
  PROVE  /\ j + 1 \in 1 .. Len(s)
         /\ j < GoodOf(s, offsets) =>
              s[j + 1] \in Frames /\ \A o \in offsets : o > EndIn(s, j + 1)
         /\ j = GoodOf(s, offsets) /\ offsets = {} => s[j + 1] \notin Frames
  <1>. DEFINE g == GoodOf(s, offsets)
  <1>1. /\ g \in GoodCounts(s, offsets) /\ g \in 0 .. Len(s)
        /\ \A n \in GoodCounts(s, offsets) : n <= g
    BY GoodIs
  <1>2. \A i \in 1 .. g : s[i] \in Frames /\ \A o \in offsets : o > EndIn(s, i)
    BY <1>1 DEF GoodCounts
  <1>3. Len(s) \in Nat /\ j \in Nat /\ g \in Nat /\ j <= g
    BY <1>1
  <1>. HIDE DEF g
  <1>4. j + 1 \in 1 .. Len(s)
    BY <1>3
  <1>5. j < g => s[j + 1] \in Frames /\ \A o \in offsets : o > EndIn(s, j + 1)
    <2>1. j < g => j + 1 \in 1 .. g
      BY <1>3
    <2>. QED
      BY <1>2, <2>1
  <1>6. ASSUME j = g, offsets = {}, s[j + 1] \in Frames PROVE FALSE
    <2>1. \A i \in 1 .. j + 1 : s[i] \in Frames /\ \A o \in offsets : o > EndIn(s, i)
      <3>1. \A i \in 1 .. j + 1 : i \in 1 .. g \/ i = j + 1
        BY <1>3, <1>6
      <3>. QED
        BY <1>2, <1>6, <3>1
    <2>2. j + 1 \in 0 .. Len(s)
      BY <1>4
    <2>3. j + 1 \in GoodCounts(s, offsets)
      BY <2>1, <2>2 DEF GoodCounts
    <2>. QED
      BY <1>1, <1>3, <1>6, <2>3
  <1>. QED
    BY <1>4, <1>5, <1>6 DEF g

\* The prefix of a good frame, and of the first that is too long, is read as the
\* frame's size, so it is accepted when the frame is good.
LEMMA PrefixKnown ==
  ASSUME NEW s \in Seq(WireFrames), NEW offsets, NEW j \in 0 .. GoodOf(s, offsets), j < Len(s),
         NEW buf \in Seq(Bytes), Len(buf) = PrefixLen, BytesAt(s, offsets, EndIn(s, j), buf),
         j < GoodOf(s, offsets) \/ (offsets = {} /\ \A i \in 1 .. Len(s) : ~Wraps(s[i]))
  PROVE  /\ from_be_bytes(buf) = Size(s[j + 1])
         /\ AcceptsLength(from_be_bytes(buf)) <=> j < GoodOf(s, offsets)
  <1>. DEFINE f == s[j + 1]
              g == GoodOf(s, offsets)
  <1>1. j + 1 \in 1 .. Len(s) /\ (j + 1) - 1 = j /\ f \in WireFrames /\ g \in Nat /\ j <= g
    <2>1. j + 1 \in 1 .. Len(s) /\ g \in 0 .. Len(s)
      BY NextGood, GoodIs
    <2>. QED
      BY <2>1
  <1>2. \A o \in offsets : o > EndIn(s, j + 1)
    BY NextGood
  <1>3. ~Wraps(f)
    <2>1. CASE j < g
      BY <2>1, <1>1, NextGood, WrapsIsLong
    <2>2. CASE \A i \in 1 .. Len(s) : ~Wraps(s[i])
      BY <1>1, <2>2
    <2>. QED
      BY <2>1, <2>2
  <1>4. from_be_bytes(buf) = Size(f)
    <2>. DEFINE i == j + 1
    <2>1. /\ i \in 1 .. Len(s) /\ ~Wraps(s[i]) /\ \A o \in offsets : o > EndIn(s, i)
      BY <1>1, <1>2, <1>3
    <2>2. BytesAt(s, offsets, EndIn(s, i - 1), buf)
      BY <1>1
    <2>. HIDE DEF i
    <2>3. from_be_bytes(buf) = Size(s[i])
      BY <2>1, <2>2, ReadsPrefix
    <2>. QED
      BY <2>3 DEF i
  <1>5. f \in Frames <=> j < g
    <2>1. j < g => f \in Frames
      BY NextGood
    <2>2. j = g => f \notin Frames
      BY NextGood, <1>1
    <2>. QED
      BY <1>1, <2>1, <2>2
  <1>6. AcceptsLength(Size(f)) <=> f \in Frames
    <2>. DEFINE l == Len(f.payload)
    <2>1. l \in Nat
      BY <1>1 DEF WireFrames
    <2>2. f \in Frames <=> HeaderLen + Len(f.payload) <= MAX_FRAME_SIZE
      BY <1>1 DEF Frames
    <2>. HIDE DEF f, l
    <2>3. HeaderLen + l >= HeaderLen
      BY <2>1, Sizes
    <2>. QED
      BY <2>2, <2>3 DEF Size, AcceptsLength, l
  <1>. QED
    BY <1>4, <1>5, <1>6

\* A read moves the reader's place by the bytes it takes.
LEMMA TakeStream ==
  ASSUME IInv, Stream, NEW k \in Nat, 1 <= k, k <= Len(wire), wire' = Drop(wire, k),
         UNCHANGED <<writerVars, altered>>, NEW pos \in Nat, Placed(pos)
  PROVE  /\ Histories' /\ OutboxTail' /\ pos + k \in Nat /\ Placed(pos + k)'
         /\ pos + k <= EndIn(sent, Len(sent))
         /\ BytesAt(sent, altered, pos, wire) =>
              /\ BytesAt(sent, altered, pos, SubSeq(wire, 1, k))
              /\ BytesAt(sent', altered', pos + k, wire')
         /\ OffStep(pos) /\ Len(received') \in Nat /\ Len(received') >= Len(received) =>
              OffStep(pos + k)'
  <1>. DEFINE e == EndIn(sent, Len(sent))
  <1>0. Histories /\ OutboxTail
    BY DEF Stream
  <1>1. /\ sent' = sent /\ outbox' = outbox /\ writer' = writer /\ altered' = altered
    BY DEF writerVars
  <1>2. /\ wire \in Seq(Bytes) /\ Len(wire) \in Nat /\ k \in 0 .. Len(wire)
        /\ e \in Nat /\ Len(outbox) \in Nat
        /\ EndIn(sent, GoodOf(sent, altered)) \in Nat /\ GoodOf(sent, altered) \in Nat
        /\ Len(received) \in Nat
    BY <1>0, StreamTyped
  <1>3. Len(wire') = Len(wire) - k
    BY <1>2, Parts
  <1>4. Histories' /\ OutboxTail'
    BY <1>0, <1>1 DEF Histories, OutboxTail
  <1>5. /\ pos + Len(wire) + Len(outbox) <= e
        /\ writer # "reset" => pos + Len(wire) + Len(outbox) = e
    BY DEF Placed
  <1>6. /\ (pos + k) + Len(wire') + Len(outbox) <= e /\ pos + k <= e
        /\ writer # "reset" => (pos + k) + Len(wire') + Len(outbox) = e
    <2>. DEFINE w == Len(wire)
                o == Len(outbox)
    <2>1. w \in Nat /\ o \in Nat /\ k <= w /\ e \in Nat
      BY <1>2
    <2>2. Len(wire') = w - k /\ (pos + w) + o <= e /\ (writer # "reset" => (pos + w) + o = e)
      BY <1>3, <1>5
    <2>. HIDE DEF w, o, e
    <2>3. ((pos + k) + (w - k)) + o = (pos + w) + o /\ pos + k <= (pos + w) + o
      BY <2>1
    <2>4. pos + k <= e
      BY <2>1, <2>2, <2>3
    <2>. QED
      BY <2>2, <2>3, <2>4 DEF o
  <1>7. Placed(pos + k)'
    BY <1>1, <1>6 DEF Placed
  <1>8. ASSUME BytesAt(sent, altered, pos, wire)
        PROVE  /\ BytesAt(sent, altered, pos, SubSeq(wire, 1, k))
               /\ BytesAt(sent', altered', pos + k, wire')
    BY <1>1, <1>2, <1>8, BytesCut
  <1>9. ASSUME OffStep(pos), Len(received') \in Nat, Len(received') >= Len(received)
        PROVE  OffStep(pos + k)'
    <2>1. /\ Garbled /\ Len(received) >= GoodOf(sent, altered)
          /\ pos >= EndIn(sent, GoodOf(sent, altered))
      BY <1>9 DEF OffStep
    <2>2. Garbled'
      BY <1>1, <2>1 DEF Garbled
    <2>. DEFINE g == GoodOf(sent, altered)
                a == EndIn(sent, g)
    <2>3. g \in Nat /\ a \in Nat /\ Len(received) >= g /\ pos >= a
      BY <1>2, <2>1
    <2>. HIDE DEF g, a
    <2>4. Len(received') >= g /\ pos + k >= a
      BY <1>2, <1>9, <2>3
    <2>. QED
      BY <1>1, <2>2, <2>4 DEF OffStep, g, a
  <1>. QED
    BY <1>4, <1>6, <1>7, <1>8, <1>9

\* Behind a read of the frame it is in, the reader is in step.
LEMMA StayInStep ==
  ASSUME IInv, Stream, NEW k \in Nat, 1 <= k, k <= Len(wire), wire' = Drop(wire, k),
         UNCHANGED <<writerVars, altered, received>>, NEW pos \in Nat, Placed(pos), InStep(pos),
         \/ /\ raw_data = <<>> /\ UNCHANGED raw_data
            /\ len_buf' = len_buf \o SubSeq(wire, 1, k)
         \/ raw_data' = raw_data \o SubSeq(wire, 1, k) /\ UNCHANGED len_buf
  PROVE  /\ InStep(pos + k)' /\ Len(received) < Len(sent)
         /\ BytesAt(sent, altered, EndIn(sent, Len(received)), len_buf')
         /\ BytesAt(sent, altered, EndIn(sent, Len(received)) + Len(len_buf), raw_data')
  <1>. DEFINE j == Len(received)
              e == EndIn(sent, j)
              front == SubSeq(wire, 1, k)
  <1>0. Histories
    BY DEF Stream
  <1>1. /\ sent' = sent /\ altered' = altered /\ received' = received
    BY DEF writerVars
  <1>2. /\ wire \in Seq(Bytes) /\ Len(wire) \in Nat /\ k \in 0 .. Len(wire)
        /\ len_buf \in Seq(Bytes) /\ raw_data \in Seq(Bytes) /\ Len(len_buf) \in Nat
        /\ Len(raw_data) \in Nat /\ e \in Nat /\ j \in 0 .. Len(sent) /\ Len(sent) \in Nat
    BY <1>0, StreamTyped, InStepPlace
  <1>3. front \in Seq(Bytes) /\ Len(front) = k
    BY <1>2, Parts
  <1>4. /\ pos = e + Len(len_buf) + Len(raw_data)
        /\ BytesAt(sent, altered, e, len_buf)
        /\ BytesAt(sent, altered, e + Len(len_buf), raw_data)
        /\ BytesAt(sent, altered, pos, wire)
    BY DEF InStep
  <1>5. /\ BytesAt(sent, altered, pos, front) /\ BytesAt(sent', altered', pos + k, wire')
        /\ pos + k <= EndIn(sent, Len(sent))
    BY <1>4, TakeStream
  <1>6. j < Len(sent)
    <2>. SUFFICES ASSUME j = Len(sent) PROVE FALSE
      BY <1>2
    <2>1. pos + k <= e
      BY <1>5
    <2>. DEFINE a == Len(len_buf)
                b == Len(raw_data)
    <2>2. a \in Nat /\ b \in Nat /\ pos = (e + a) + b /\ e \in Nat
      BY <1>2, <1>4
    <2>. HIDE DEF a, b, e, j
    <2>. QED
      BY <2>1, <2>2
  <1>. HIDE DEF j, e, front
  <1>7. CASE raw_data = <<>> /\ raw_data' = raw_data /\ len_buf' = len_buf \o front
    <2>1. Len(raw_data) = 0 /\ Len(raw_data') = 0 /\ pos = e + Len(len_buf)
      BY <1>2, <1>4, <1>7
    <2>2. BytesAt(sent, altered, e, len_buf') /\ Len(len_buf') = Len(len_buf) + k
      <3>1. BytesAt(sent, altered, e + Len(len_buf), front)
        BY <1>5, <2>1
      <3>2. Len(len_buf') = Len(len_buf) + k
        BY <1>2, <1>3, <1>7, ConcatProperties
      <3>. QED
        BY <1>2, <1>3, <1>4, <1>7, <3>1, <3>2, BytesJoin
    <2>3. pos + k = e + Len(len_buf') + Len(raw_data')
      BY <1>2, <2>1, <2>2
    <2>4. \A p : BytesAt(sent, altered, p, raw_data')
      BY <2>1 DEF BytesAt
    <2>5. InStep(pos + k)'
      BY <1>1, <1>5, <2>2, <2>3, <2>4 DEF InStep, j, e
    <2>. QED
      BY <1>6, <2>2, <2>4, <2>5 DEF j, e
  <1>8. CASE raw_data' = raw_data \o front /\ len_buf' = len_buf
    <2>1. Len(raw_data') = Len(raw_data) + k
      <3>1. Len(raw_data \o front) = Len(raw_data) + Len(front)
        BY <1>2, <1>3, ConcatProperties
      <3>. QED
        BY <1>3, <1>8, <3>1, Zenon
    <2>2. BytesAt(sent, altered, e + Len(len_buf), raw_data')
      <3>1. e + Len(len_buf) \in Nat /\ (e + Len(len_buf)) + Len(raw_data) = pos
        BY <1>2, <1>4
      <3>2. BytesAt(sent, altered, (e + Len(len_buf)) + Len(raw_data), front)
        BY <1>5, <3>1
      <3>. QED
        BY <1>2, <1>3, <1>4, <1>8, <3>1, <3>2, BytesJoin
    <2>3. pos + k = e + Len(len_buf') + Len(raw_data')
      BY <1>2, <1>4, <1>8, <2>1
    <2>4. BytesAt(sent, altered, e, len_buf')
      BY <1>4, <1>8
    <2>5. InStep(pos + k)'
      BY <1>1, <1>5, <1>8, <2>2, <2>3, <2>4 DEF InStep, j, e
    <2>. QED
      BY <1>6, <2>2, <2>4, <2>5 DEF j, e
  <1>. QED
    BY <1>7, <1>8 DEF front

\* What a reader that gives up on an open connection may say: a frame it has not
\* handed out is not good.
NotGood ==
  /\ GoodOf(sent, altered) < Len(sent)
  /\ Len(received) >= GoodOf(sent, altered)

\* A read within the prefix keeps the reader's place; only the prefix of a frame
\* that is not good is refused.
LEMMA PrefixStream ==
  ASSUME IInv, Stream, ReadPrefix
  PROVE  Stream' /\ received' = received /\ (reader' = "err" => NotGood)
  <1>. DEFINE j == Len(received)
              g == GoodOf(sent, altered)
  <1>0. Histories
    BY DEF Stream
  <1>1. /\ wire \in Seq(Bytes) /\ Len(wire) \in Nat
        /\ len_buf \in Seq(Bytes) /\ raw_data \in Seq(Bytes) /\ Len(len_buf) \in Nat
        /\ sent \in Seq(WireFrames) /\ Len(sent) \in Nat /\ g \in Nat /\ g <= Len(sent)
        /\ j \in Nat /\ (Garbled => g < Len(sent))
    BY <1>0, StreamTyped
  <1>2. PICK k \in Chunk(PrefixLen - Len(len_buf)) :
          len_buf' = len_buf \o SubSeq(wire, 1, k) /\ wire' = Drop(wire, k)
    BY DEF ReadPrefix
  <1>3. /\ reader = "reading" /\ raw_data' = raw_data /\ received' = received
        /\ UNCHANGED <<writerVars, altered>>
        /\ UNCHANGED <<writerVars, altered, received>>
        /\ sent' = sent /\ altered' = altered
        /\ reader' = IF Len(len_buf') = PrefixLen /\ ~AcceptsLength(from_be_bytes(len_buf'))
                       THEN "err" ELSE reader
    BY DEF ReadPrefix, writerVars
  <1>4. k \in Nat /\ 1 <= k /\ k <= PrefixLen - Len(len_buf) /\ k <= Len(wire)
        /\ k \in 0 .. Len(wire)
    <2>1. PrefixLen - Len(len_buf) \in Int
      BY <1>1, Sizes
    <2>. QED
      BY <1>1, <1>2, <2>1, Chunks
  <1>5. raw_data = <<>>
    <2>1. Len(len_buf) # PrefixLen
      BY <1>1, <1>4, Sizes
    <2>. QED
      BY <1>3, <2>1 DEF IInv, Buffers
  <1>6. PICK pos \in Nat : Placed(pos) /\ (InStep(pos) \/ OffStep(pos))
    BY DEF Stream, Position
  <1>7. /\ Histories' /\ OutboxTail' /\ pos + k \in Nat /\ Placed(pos + k)'
        /\ OffStep(pos) => OffStep(pos + k)'
    <2>1. Len(received') \in Nat /\ Len(received') >= Len(received)
      BY <1>1, <1>3
    <2>. QED
      BY <1>2, <1>3, <1>4, <1>6, <2>1, TakeStream
  <1>8. ASSUME InStep(pos)
        PROVE  /\ InStep(pos + k)' /\ j < Len(sent)
               /\ BytesAt(sent, altered, EndIn(sent, j), len_buf')
    BY <1>2, <1>3, <1>4, <1>5, <1>6, <1>8, StayInStep
  <1>9. Stream'
    BY <1>6, <1>7, <1>8 DEF Stream, Position
  <1>10. ASSUME reader' = "err" PROVE NotGood
    <2>1. Len(len_buf') = PrefixLen /\ ~AcceptsLength(from_be_bytes(len_buf'))
      BY <1>3, <1>10
    <2>2. CASE InStep(pos)
      <3>1. j < Len(sent) /\ BytesAt(sent, altered, EndIn(sent, j), len_buf') /\ j <= g
        BY <1>8, <2>2 DEF InStep
      <3>2. len_buf' \in Seq(Bytes)
        BY <1>1, <1>2, <1>4, Read
      <3>3. j \in 0 .. g
        BY <1>1, <3>1
      <3>4. ~(j < g)
        BY <1>1, <2>1, <3>1, <3>2, <3>3, PrefixKnown
      <3>. QED
        BY <1>1, <3>1, <3>4 DEF NotGood
    <2>3. CASE OffStep(pos)
      BY <1>1, <2>3 DEF OffStep, NotGood
    <2>. QED
      BY <1>6, <2>2, <2>3
  <1>. QED
    BY <1>3, <1>9, <1>10

\* What is read behind the prefix of a good frame is that frame.
LEMMA BodyKnown ==
  ASSUME NEW s \in Seq(WireFrames), NEW offsets, NEW j \in 0 .. GoodOf(s, offsets),
         j < GoodOf(s, offsets), j < Len(s),
         NEW buf \in Seq(Bytes), Len(buf) = PrefixLen, BytesAt(s, offsets, EndIn(s, j), buf),
         NEW data \in Seq(Bytes), Len(data) = from_be_bytes(buf),
         BytesAt(s, offsets, EndIn(s, j) + PrefixLen, data)
  PROVE  /\ s[j + 1] \in Frames /\ parts(data) = s[j + 1] /\ data[1] \in MessageTypes
         /\ EndIn(s, j + 1) = EndIn(s, j) + PrefixLen + Len(data)
         /\ EndIn(s, j + 1) \in Nat
  <1>. DEFINE i == j + 1
              f == s[i]
  <1>1. /\ i \in 1 .. Len(s) /\ i - 1 = j /\ f \in WireFrames /\ i \in 0 .. Len(s)
    <2>1. i \in 1 .. Len(s)
      BY NextGood
    <2>. QED
      BY <2>1
  <1>2. f \in Frames /\ \A o \in offsets : o > EndIn(s, i)
    BY NextGood
  <1>. HIDE DEF f
  <1>3. Len(data) = Size(f)
    BY PrefixKnown DEF f
  <1>4. data = Body(f)
    <2>1. BytesAt(s, offsets, EndIn(s, i - 1) + PrefixLen, data)
      BY <1>1
    <2>. HIDE DEF i
    <2>. QED
      BY <1>1, <1>2, <1>3, <2>1, ReadsBody DEF f
  <1>5. EndIn(s, i) = EndIn(s, j) + PrefixLen + Len(data) /\ EndIn(s, i) \in Nat
    <2>1. /\ EndIn(s, i) = EndIn(s, i - 1) + Len(serialize(s[i])) /\ EndIn(s, i) \in Nat
          /\ EndIn(s, j) \in Nat
      <3>1. j \in 0 .. Len(s)
        BY <1>1
      <3>. QED
        BY <1>1, <3>1, EndSteps
    <2>2. Len(serialize(f)) = PrefixLen + Size(f) /\ Size(f) \in Nat
      BY <1>1, Serialized, FieldsOfFrame
    <2>3. EndIn(s, i) = EndIn(s, j) + (PrefixLen + Size(f))
      BY <1>1, <2>1, <2>2, Zenon DEF f
    <2>. HIDE DEF i
    <2>4. EndIn(s, i) = EndIn(s, j) + PrefixLen + Size(f)
      BY <2>1, <2>2, <2>3, Sizes
    <2>. QED
      BY <1>3, <2>1, <2>4, Zenon
  <1>6. parts(data) = f /\ data[1] \in MessageTypes
    BY <1>1, <1>4, PartsOfFrame, FieldsOfFrame
  <1>. QED
    BY <1>2, <1>5, <1>6 DEF f

\* The bytes behind the prefix belong to the frame that follows those received.
LEMMA InBody ==
  ASSUME IInv, Stream, ReadBody, NEW k \in Nat, 1 <= k, k <= Len(wire), wire' = Drop(wire, k),
         NEW pos \in Nat, Placed(pos), InStep(pos)
  PROVE  LET e == EndIn(sent, Len(received))
             data == raw_data \o SubSeq(wire, 1, k)
         IN  /\ e \in Nat /\ BytesAt(sent, altered, e, len_buf)
             /\ BytesAt(sent, altered, e + PrefixLen, data)
             /\ pos + k = e + PrefixLen + Len(data)
             /\ BytesAt(sent', altered', pos + k, wire')
             /\ Len(received) < Len(sent) /\ Len(received) \in 0 .. GoodOf(sent, altered)
             /\ Len(received) < GoodOf(sent, altered) \/ Garbled
  <1>. DEFINE j == Len(received)
              e == EndIn(sent, j)
              g == GoodOf(sent, altered)
              front == SubSeq(wire, 1, k)
              data == raw_data \o front
              missed == PrefixLen + Len(raw_data)
  <1>0. Histories
    BY DEF Stream
  <1>1. /\ wire \in Seq(Bytes) /\ Len(wire) \in Nat /\ k \in 0 .. Len(wire)
        /\ len_buf \in Seq(Bytes) /\ raw_data \in Seq(Bytes) /\ Len(raw_data) \in Nat
        /\ sent \in Seq(WireFrames) /\ Len(sent) \in Nat /\ g \in Nat /\ g <= Len(sent)
        /\ j \in Nat /\ j <= g /\ e \in Nat /\ j \in 0 .. g
    BY <1>0, StreamTyped, InStepPlace DEF InStep
  <1>2. Len(len_buf) = PrefixLen /\ AcceptsLength(from_be_bytes(len_buf))
    BY AtBody
  <1>3. UNCHANGED <<writerVars, altered>>
    BY DEF ReadBody
  <1>4. /\ pos = e + PrefixLen + Len(raw_data)
        /\ BytesAt(sent, altered, e, len_buf)
        /\ BytesAt(sent, altered, e + PrefixLen, raw_data)
        /\ BytesAt(sent, altered, pos, wire)
    BY <1>2 DEF InStep
  <1>5. /\ BytesAt(sent, altered, pos, front) /\ BytesAt(sent', altered', pos + k, wire')
        /\ pos + k <= EndIn(sent, Len(sent))
    BY <1>3, <1>4, TakeStream
  <1>6. front \in Seq(Bytes) /\ Len(front) = k
    BY <1>1, Parts
  <1>. HIDE DEF j, e, g, front
  <1>7. Len(data) = Len(raw_data) + k
    BY <1>1, <1>6, ConcatProperties
  <1>8. (e + PrefixLen) + Len(raw_data) = pos /\ e + PrefixLen \in Nat
        /\ pos + k = e + PrefixLen + Len(data)
    BY <1>1, <1>4, <1>7, Sizes
  <1>9. BytesAt(sent, altered, e + PrefixLen, data)
    BY <1>1, <1>4, <1>5, <1>6, <1>8, BytesJoin
  <1>10. j < Len(sent)
    <2>. SUFFICES ASSUME j = Len(sent) PROVE FALSE
      BY <1>1
    <2>1. pos + k <= e
      BY <1>5 DEF e
    <2>. QED
      BY <1>1, <1>4, <2>1, Sizes
  <1>11. ASSUME ~(j < g), ~Garbled PROVE FALSE
    <2>1. altered = {} /\ \A i \in 1 .. Len(sent) : ~Wraps(sent[i])
      BY <1>1, <1>11 DEF Garbled
    <2>2. BytesAt(sent, altered, EndIn(sent, j), len_buf)
      BY <1>4 DEF e
    <2>3. j \in 0 .. GoodOf(sent, altered)
      BY <1>1 DEF g
    <2>4. j < GoodOf(sent, altered)
      BY <1>1, <1>2, <1>10, <2>1, <2>2, <2>3, PrefixKnown
    <2>. QED
      BY <1>11, <2>4 DEF g
  <1>. QED
    BY <1>1, <1>4, <1>5, <1>8, <1>9, <1>10, <1>11, Zenon DEF j, e, g, front

\* What the reader may hand out next: a good frame as it was sent, and behind the
\* good ones of a garbled stream any frame.
MayReceive(f) ==
  \/ Len(received) < GoodOf(sent, altered) /\ f = sent[Len(received) + 1]
  \/ Len(received) >= GoodOf(sent, altered) /\ Garbled /\ f \in Frames

\* A read behind the prefix keeps the reader's place, hands out what it may, and
\* refuses only what is not good.
LEMMA BodyStream ==
  ASSUME IInv, Stream, ReadBody
  PROVE  /\ Stream'
         /\ \/ received' = received /\ (reader' = "err" => NotGood)
            \/ reader' = reader /\ \E f : received' = Append(received, f) /\ MayReceive(f)
  <1>. DEFINE j == Len(received)
              g == GoodOf(sent, altered)
              e == EndIn(sent, j)
  <1>0. Histories
    BY DEF Stream
  <1>1. /\ sent \in Seq(WireFrames) /\ Len(sent) \in Nat /\ g \in Nat /\ g <= Len(sent)
        /\ j \in Nat /\ (Garbled => g < Len(sent)) /\ received \in Seq(Frames)
        /\ len_buf \in Seq(Bytes) /\ raw_data \in Seq(Bytes) /\ EndIn(sent, g) \in Nat
    BY <1>0, StreamTyped
  <1>2. PICK k \in 0 .. Len(wire) :
          LET data == raw_data \o SubSeq(wire, 1, k)
          IN  /\ k > 0 /\ wire' = Drop(wire, k)
              /\ data \in Seq(Bytes) /\ Len(data) = Len(raw_data) + k
              /\ Len(wire) - Len(wire') = k /\ wire' \in Seq(Bytes)
              /\ Unfinished(data) \/ Completed(data) \/ Refused(data)
    BY BodyRead
  <1>. DEFINE data == raw_data \o SubSeq(wire, 1, k)
  <1>3. /\ k \in Nat /\ 1 <= k /\ k <= Len(wire) /\ wire' = Drop(wire, k)
        /\ data \in Seq(Bytes) /\ (Unfinished(data) \/ Completed(data) \/ Refused(data))
    <2>1. Len(wire) \in Nat
      BY <1>0, StreamTyped
    <2>. QED
      BY <1>2, <2>1
  <1>4. /\ UNCHANGED <<writerVars, altered>> /\ sent' = sent /\ altered' = altered
    BY DEF ReadBody, writerVars
  <1>5. /\ Len(len_buf) = PrefixLen /\ AcceptsLength(from_be_bytes(len_buf))
        /\ reader = "reading"
    BY AtBody
  <1>6. PICK pos \in Nat : Placed(pos) /\ (InStep(pos) \/ OffStep(pos))
    BY DEF Stream, Position
  <1>7. /\ Histories' /\ OutboxTail' /\ pos + k \in Nat /\ Placed(pos + k)'
        /\ OffStep(pos) /\ Len(received') \in Nat /\ Len(received') >= Len(received) =>
             OffStep(pos + k)'
    BY <1>3, <1>4, <1>6, TakeStream
  <1>8. ASSUME InStep(pos)
        PROVE  /\ e \in Nat /\ BytesAt(sent, altered, e, len_buf)
               /\ BytesAt(sent, altered, e + PrefixLen, data)
               /\ pos + k = e + PrefixLen + Len(data)
               /\ BytesAt(sent', altered', pos + k, wire')
               /\ j < Len(sent) /\ j \in 0 .. g /\ (j < g \/ Garbled)
    BY <1>3, <1>6, <1>8, InBody
  <1>. HIDE DEF data
  <1>9. ASSUME InStep(pos), j < g, Len(data) = from_be_bytes(len_buf)
        PROVE  /\ sent[j + 1] \in Frames /\ parts(data) = sent[j + 1]
               /\ data[1] \in MessageTypes /\ EndIn(sent, j + 1) = pos + k
    <2>1. /\ BytesAt(sent, altered, EndIn(sent, j), len_buf)
          /\ BytesAt(sent, altered, EndIn(sent, j) + PrefixLen, data)
          /\ pos + k = EndIn(sent, j) + PrefixLen + Len(data)
          /\ j < Len(sent) /\ j \in 0 .. GoodOf(sent, altered) /\ j < GoodOf(sent, altered)
      BY <1>8, <1>9
    <2>. HIDE DEF j
    <2>2. /\ sent[j + 1] \in Frames /\ parts(data) = sent[j + 1] /\ data[1] \in MessageTypes
          /\ EndIn(sent, j + 1) = EndIn(sent, j) + PrefixLen + Len(data)
      BY <1>1, <1>3, <1>5, <1>9, <2>1, BodyKnown
    <2>. QED
      BY <2>1, <2>2
  <1>10. CASE Unfinished(data)
    <2>1. /\ received' = received /\ reader' = reader /\ raw_data' = data /\ len_buf' = len_buf
          /\ Len(received') \in Nat /\ Len(received') >= Len(received)
      BY <1>1, <1>10 DEF Unfinished
    <2>2. InStep(pos) => InStep(pos + k)'
      BY <1>3, <1>4, <1>6, <2>1, StayInStep DEF data
    <2>3. Stream'
      BY <1>6, <1>7, <2>1, <2>2 DEF Stream, Position
    <2>. QED
      BY <1>5, <2>1, <2>3
  <1>11. CASE Refused(data)
    <2>1. /\ received' = received /\ raw_data' = data /\ len_buf' = len_buf
          /\ Len(received') \in Nat /\ Len(received') >= Len(received)
          /\ Len(data) = from_be_bytes(len_buf) /\ data[1] \notin MessageTypes
      BY <1>1, <1>11 DEF Refused
    <2>2. InStep(pos) => InStep(pos + k)'
      BY <1>3, <1>4, <1>6, <2>1, StayInStep DEF data
    <2>3. Stream'
      BY <1>6, <1>7, <2>1, <2>2 DEF Stream, Position
    <2>4. CASE InStep(pos)
      <3>1. ~(j < g) /\ j < Len(sent) /\ j <= g
        BY <1>1, <1>8, <1>9, <2>1, <2>4
      <3>. QED
        BY <1>1, <2>1, <2>3, <3>1 DEF NotGood
    <2>5. CASE OffStep(pos)
      BY <1>1, <2>1, <2>3, <2>5 DEF OffStep, NotGood
    <2>. QED
      BY <1>6, <2>4, <2>5
  <1>12. CASE Completed(data)
    <2>. DEFINE f == parts(data)
    <2>1. /\ received' = Append(received, f) /\ reader' = reader
          /\ raw_data' = <<>> /\ len_buf' = <<>>
          /\ Len(data) = from_be_bytes(len_buf) /\ data[1] \in MessageTypes
      BY <1>12 DEF Completed
    <2>2. f \in Frames
      BY <1>3, <1>5, <2>1, PartsTyped
    <2>. HIDE DEF f
    <2>3. /\ Len(received') = j + 1 /\ received'[j + 1] = f
          /\ \A i \in 1 .. j : received'[i] = received[i]
      BY <1>1, <2>1, <2>2
    <2>4. CASE InStep(pos) /\ j < g
      <3>1. f = sent[j + 1] /\ EndIn(sent, j + 1) = pos + k
        BY <1>9, <2>1, <2>4 DEF f
      <3>2. \A i \in 1 .. j + 1 : received'[i] = sent[i]
        <4>1. \A i \in 1 .. j : received[i] = sent[i]
          BY <2>4 DEF InStep
        <4>2. \A i \in 1 .. j + 1 : i \in 1 .. j \/ i = j + 1
          BY <1>1
        <4>. QED
          BY <2>3, <3>1, <4>1, <4>2, Zenon
      <3>3. Len(received') <= GoodOf(sent', altered') /\ Len(received') = j + 1
        BY <1>1, <1>4, <2>3, <2>4
      <3>4. /\ Len(len_buf') = 0 /\ Len(raw_data') = 0
            /\ EndIn(sent', Len(received')) = pos + k /\ pos + k \in Nat
        BY <1>4, <1>7, <2>1, <2>3, <3>1
      <3>. HIDE DEF j, g
      <3>5. pos + k = EndIn(sent', Len(received')) + Len(len_buf') + Len(raw_data')
        BY <3>4
      <3>6. /\ BytesAt(sent', altered', EndIn(sent', Len(received')), len_buf')
            /\ BytesAt(sent', altered', EndIn(sent', Len(received')) + Len(len_buf'), raw_data')
        BY <3>4 DEF BytesAt
      <3>7. BytesAt(sent', altered', pos + k, wire')
        BY <1>8, <2>4
      <3>8. \A i \in 1 .. Len(received') : received'[i] = sent'[i]
        BY <1>4, <3>2, <3>3, Zenon
      <3>9. InStep(pos + k)'
        BY <3>3, <3>5, <3>6, <3>7, <3>8, Zenon DEF InStep
      <3>10. MayReceive(f)
        BY <2>4, <3>1 DEF MayReceive, j, g
      <3>. QED
        BY <1>7, <2>1, <3>9, <3>10 DEF Stream, Position
    <2>5. CASE InStep(pos) /\ ~(j < g)
      <3>1. j = g /\ Garbled /\ pos + k = e + PrefixLen + Len(data) /\ e \in Nat
        BY <1>1, <1>8, <2>5
      <3>2. MayReceive(f)
        BY <1>1, <2>2, <3>1 DEF MayReceive
      <3>3. pos + k >= EndIn(sent, g)
        <4>1. Len(data) \in Nat
          BY <1>3
        <4>2. e = EndIn(sent, g)
          BY <3>1
        <4>. HIDE DEF e, g
        <4>. QED
          BY <3>1, <4>1, <4>2, Sizes
      <3>4. OffStep(pos + k)'
        <4>1. Garbled' /\ Len(received') >= g
          BY <1>1, <1>4, <2>3, <3>1 DEF Garbled
        <4>. QED
          BY <1>4, <3>3, <4>1 DEF OffStep
      <3>. QED
        BY <1>7, <2>1, <3>2, <3>4 DEF Stream, Position
    <2>6. CASE OffStep(pos)
      <3>1. MayReceive(f)
        BY <2>2, <2>6 DEF OffStep, MayReceive
      <3>2. Len(received') \in Nat /\ Len(received') >= Len(received)
        BY <1>1, <2>3
      <3>3. OffStep(pos + k)'
        BY <1>7, <2>6, <3>2
      <3>. QED
        BY <1>7, <2>1, <3>1, <3>3 DEF Stream, Position
    <2>. QED
      BY <1>6, <2>4, <2>5, <2>6
  <1>. QED
    BY <1>3, <1>10, <1>11, <1>12

\* A reader in step holds less than the frame it is in.
LEMMA HoldsLess ==
  ASSUME IInv, Stream, reader = "reading", NEW pos \in Nat, InStep(pos),
         Len(received) < GoodOf(sent, altered)
  PROVE  /\ Len(received) + 1 \in 1 .. Len(sent) /\ EndIn(sent, Len(received) + 1) \in Nat
         /\ pos < EndIn(sent, Len(received) + 1)
  <1>. DEFINE j == Len(received)
              g == GoodOf(sent, altered)
              e == EndIn(sent, j)
              i == j + 1
              f == sent[i]
  <1>0. Histories
    BY DEF Stream
  <1>1. /\ sent \in Seq(WireFrames) /\ Len(sent) \in Nat /\ g \in Nat /\ g <= Len(sent)
        /\ j \in Nat /\ j < g /\ j < Len(sent) /\ j \in 0 .. g /\ e \in Nat
        /\ len_buf \in Seq(Bytes) /\ Len(len_buf) \in Nat /\ Len(raw_data) \in Nat
    BY <1>0, StreamTyped, InStepPlace
  <1>2. i \in 1 .. Len(sent) /\ i - 1 = j /\ i \in 0 .. Len(sent) /\ f \in WireFrames
    BY <1>1
  <1>3. EndIn(sent, i) \in Nat /\ EndIn(sent, i) = e + Len(serialize(f))
    <2>1. EndIn(sent, i) \in Nat /\ EndIn(sent, i) = EndIn(sent, i - 1) + Len(serialize(sent[i]))
      BY <1>1, <1>2, EndSteps
    <2>. QED
      BY <1>2, <2>1, Zenon
  <1>4. /\ Len(serialize(f)) = PrefixLen + Size(f) /\ Size(f) \in Nat /\ Size(f) >= HeaderLen
    BY <1>2, Serialized, FieldsOfFrame
  <1>5. /\ pos = e + Len(len_buf) + Len(raw_data) /\ BytesAt(sent, altered, e, len_buf)
    BY DEF InStep
  <1>6. \/ Len(len_buf) < PrefixLen /\ Len(raw_data) = 0
        \/ Len(len_buf) = PrefixLen /\ Len(raw_data) < from_be_bytes(len_buf)
    BY DEF IInv, Buffers
  <1>7. Len(len_buf) = PrefixLen => from_be_bytes(len_buf) = Size(f)
    BY <1>1, <1>5, PrefixKnown
  <1>8. Len(len_buf) + Len(raw_data) < PrefixLen + Size(f)
    <2>. DEFINE a == Len(len_buf)
                b == Len(raw_data)
                c == Size(f)
    <2>1. a \in Nat /\ b \in Nat /\ c \in Nat /\ c >= HeaderLen
      BY <1>1, <1>4
    <2>2. (a < PrefixLen /\ b = 0) \/ (a = PrefixLen /\ b < c)
      BY <1>6, <1>7
    <2>. HIDE DEF a, b, c
    <2>3. a + b < PrefixLen + c
      BY <2>1, <2>2, Sizes
    <2>. QED
      BY <2>3 DEF a, b, c
  <1>9. pos < EndIn(sent, i)
    <2>. DEFINE a == Len(len_buf)
                b == Len(raw_data)
                c == PrefixLen + Size(f)
    <2>1. a \in Nat /\ b \in Nat /\ c \in Nat /\ a + b < c /\ e \in Nat
      BY <1>1, <1>4, <1>8, Sizes
    <2>2. pos = (e + a) + b /\ EndIn(sent, i) = e + c
      BY <1>3, <1>4, <1>5
    <2>. HIDE DEF a, b, c, e, i
    <2>. QED
      BY <2>1, <2>2
  <1>. QED
    BY <1>2, <1>3, <1>9

\* The end of the connection leaves the reader in its place; after a shutdown
\* only the frame that was being written is missing.
LEMMA FailStream ==
  ASSUME IInv, Stream, ReadFails
  PROVE  /\ Stream' /\ received' = received /\ writer' = writer
         /\ \/ writer = "reset"
            \/ writer = "closed" /\ Len(received) >= GoodOf(sent, altered) - 1
  <1>. DEFINE n == Len(sent)
              j == Len(received)
              g == GoodOf(sent, altered)
              m == serialize(sent[n])
  <1>0. Histories /\ OutboxTail
    BY DEF Stream
  <1>1. /\ sent \in Seq(WireFrames) /\ n \in Nat /\ g \in Nat /\ g <= n /\ j \in Nat
        /\ Len(outbox) \in Nat /\ EndIn(sent, n) \in Nat
    BY <1>0, StreamTyped
  <1>2. /\ reader = "reading" /\ wire = <<>> /\ writer # "open" /\ Len(wire) = 0
        /\ sent' = sent /\ outbox' = outbox /\ writer' = writer /\ wire' = wire
        /\ altered' = altered /\ len_buf' = len_buf /\ raw_data' = raw_data
        /\ received' = received
    BY DEF ReadFails, writerVars
  <1>3. Stream'
    BY <1>2 DEF Stream, Histories, OutboxTail, Position, Placed, InStep, OffStep, Garbled
  <1>4. writer = "reset" \/ writer = "closed"
    BY <1>2, TypedBytes DEF IInv
  <1>5. PICK pos \in Nat : Placed(pos) /\ (InStep(pos) \/ OffStep(pos))
    BY DEF Stream, Position
  <1>6. ASSUME writer = "closed", j < g - 1 PROVE FALSE
    <2>1. InStep(pos) /\ j < g
      BY <1>1, <1>5, <1>6 DEF OffStep
    <2>2. pos < EndIn(sent, j + 1) /\ EndIn(sent, j + 1) \in Nat
      BY <1>2, <2>1, HoldsLess
    <2>3. pos + Len(outbox) = EndIn(sent, n)
      BY <1>1, <1>2, <1>5, <1>6 DEF Placed
    <2>4. Len(outbox) <= Len(m) /\ Len(m) \in Nat
      <3>1. sent # <<>> /\ sent[n] \in WireFrames
        BY <1>1, <1>6
      <3>. QED
        BY <1>0, <3>1, SerializedSize DEF OutboxTail
    <2>5. j + 1 \in 0 .. n /\ n \in (j + 1) .. n /\ j + 1 < n
      BY <1>1, <1>6
    <2>. HIDE DEF j, m
    <2>6. EndIn(sent, j + 1) + Len(m) <= EndIn(sent, n)
      BY <1>1, <2>5, EndsGrow DEF m
    <2>. HIDE DEF n
    <2>. QED
      BY <1>1, <2>2, <2>3, <2>4, <2>6
  <1>. QED
    BY <1>1, <1>2, <1>3, <1>4, <1>6

-----------------------------------------------------------------------------
(* The refinement *)

\* The invariant of the stream is inductive.
LEMMA NextStream == IInv /\ Stream /\ [Next]_vars => Stream'
  <1>. SUFFICES ASSUME IInv, Stream, [Next]_vars PROVE Stream'
    OBVIOUS
  <1>1. ASSUME NEW f \in Outgoing, WriteTo(f) PROVE Stream'
    BY <1>1, SendStream
  <1>2. CASE WriteSome
    BY <1>2, WriteStream
  <1>3. CASE WriterCloses \/ ConnectionReset
    BY <1>3, FinishStream
  <1>4. CASE ByteAltered
    BY <1>4, AlterStream
  <1>5. CASE ReadPrefix
    BY <1>5, PrefixStream
  <1>6. CASE ReadBody
    BY <1>6, BodyStream
  <1>7. CASE ReadFails
    BY <1>7, FailStream
  <1>8. CASE UNCHANGED vars
    BY <1>8
       DEF vars, writerVars, readerVars, Stream, Histories, OutboxTail, Position, Placed,
           InStep, OffStep, Garbled
  <1>. QED
    BY <1>1, <1>2, <1>3, <1>4, <1>5, <1>6, <1>7, <1>8 DEF Next, Writer, Reader, Network

LEMMA StreamInvariant == Spec => [](IInv /\ Stream)
  <1>1. Init => IInv /\ Stream
    BY InitIInv, InitStream
  <1>2. IInv /\ Stream /\ [Next]_vars => (IInv /\ Stream)'
    BY NextIInv, NextStream
  <1>. QED
    BY <1>1, <1>2, PTL DEF Spec

\* Channel's good frames, in terms of the two histories.
LEMMA GoodIsGood == Good = GoodOf(sent, altered) /\ Good' = GoodOf(sent', altered')
  <1>1. Good = GoodOf(sent, altered)
    <2>1. \A i : EndOf(i) = EndIn(sent, i)
      BY DEF EndOf, EndIn, Total
    <2>. QED
      BY <2>1, Zenon DEF Good, GoodOf, GoodCounts
  <1>2. (Good = GoodOf(sent, altered))'
    BY <1>1, PTL
  <1>. QED
    BY <1>1, <1>2

\* A frame sent is sent over the channel.
LEMMA SendRefines ==
  ASSUME IInv, Stream, NEW f \in Outgoing, WriteTo(f)
  PROVE  Channel!Next
  <1>. DEFINE n == Len(sent)
  <1>1. /\ f \in WireFrames
        /\ GoodOf(sent', altered') =
             IF GoodOf(sent, altered) = Len(sent) /\ f \in Frames
               THEN GoodOf(sent, altered) + 1 ELSE GoodOf(sent, altered)
    BY SendStream
  <1>2. Good' = IF Good = Len(sent) /\ f \in Frames THEN Good + 1 ELSE Good
    BY <1>1, GoodIsGood, Zenon
  <1>3. /\ writer = "open" /\ sent' = Append(sent, f) /\ writer' = writer /\ altered' = altered
        /\ received' = received /\ reader' = reader
    BY DEF WriteTo, readerVars
  <1>4. sent \in Seq(WireFrames)
    BY StreamTyped DEF Stream
  <1>5. /\ n + 1 \in DOMAIN sent' /\ sent'[n + 1] = f
        /\ DOMAIN sent' = (DOMAIN sent) \cup {n + 1} /\ \A i \in DOMAIN sent : sent'[i] = sent[i]
    BY <1>1, <1>3, <1>4
  <1>6. Garbled' <=> Garbled \/ Wraps(f)
    BY <1>3, <1>5, Zenon DEF Garbled
  <1>7. Channel!Send(f)
    BY <1>2, <1>3, <1>6, Zenon DEF Channel!Send, Garbled
  <1>. QED
    BY <1>5, <1>7, Zenon DEF Channel!Next

\* A frame handed out is one the channel may deliver.
LEMMA ReceiveRefines ==
  ASSUME IInv, Stream, reader = "reading", reader' = reader, UNCHANGED <<writerVars, altered>>,
         NEW f, received' = Append(received, f), MayReceive(f)
  PROVE  Channel!Next
  <1>1. /\ sent' = sent /\ writer' = writer /\ altered' = altered
    BY DEF writerVars
  <1>2. Good = GoodOf(sent, altered) /\ Good' = Good
    BY <1>1, GoodIsGood
  <1>3. received \in Seq(Frames) /\ f \in Frames
    <2>1. received \in Seq(Frames) /\ sent \in Seq(WireFrames)
      BY StreamTyped DEF Stream
    <2>2. CASE Len(received) < GoodOf(sent, altered) /\ f = sent[Len(received) + 1]
      <3>1. Len(received) \in 0 .. GoodOf(sent, altered) /\ Len(received) < Len(sent)
        BY <2>2, StreamTyped DEF Stream
      <3>. QED
        BY <2>1, <2>2, <3>1, NextGood
    <2>. QED
      BY <2>1, <2>2 DEF MayReceive
  <1>4. Len(received) + 1 \in DOMAIN received' /\ received'[Len(received) + 1] = f
    BY <1>3
  <1>5. Garbled' <=> Garbled
    BY <1>1 DEF Garbled
  <1>6. Channel!Receive(f)
    BY <1>1, <1>2, <1>5, Zenon DEF Channel!Receive, MayReceive, Garbled
  <1>. QED
    BY <1>4, <1>6, Zenon DEF Channel!Next

\* The reader gives up where the channel may end.
LEMMA EndRefines ==
  ASSUME IInv, Stream, reader = "reading", reader' = "err",
         UNCHANGED <<writerVars, altered, received>>,
         \/ NotGood
         \/ writer = "reset"
         \/ writer = "closed" /\ Len(received) >= GoodOf(sent, altered) - 1
  PROVE  Channel!Next
  <1>1. /\ sent' = sent /\ writer' = writer /\ altered' = altered /\ received' = received
    BY DEF writerVars
  <1>2. Good = GoodOf(sent, altered) /\ Good' = Good
    BY <1>1, GoodIsGood
  <1>3. Garbled' <=> Garbled
    BY <1>1 DEF Garbled
  <1>4. \/ writer = "reset"
        \/ writer = "closed" /\ Len(received) >= Good - 1
        \/ writer = "open" /\ Good < Len(sent) /\ Len(received) >= Good
    <2>1. NotGood => Len(received) >= Good - 1 /\ Good < Len(sent) /\ Len(received) >= Good
      <3>1. Good \in Nat /\ Len(received) \in Nat
        BY <1>2, StreamTyped DEF Stream
      <3>. QED
        BY <1>2, <3>1 DEF NotGood
    <2>2. writer \in {"open", "closed", "reset"}
      BY TypedBytes DEF IInv
    <2>. QED
      BY <1>2, <2>1, <2>2
  <1>5. Channel!End
    BY <1>1, <1>2, <1>3, <1>4, Zenon DEF Channel!End, Garbled
  <1>. QED
    BY <1>5, Zenon DEF Channel!Next

\* Every step of the stream is one of the channel, or none.
LEMMA StepRefines ==
  ASSUME IInv, Stream, [Next]_vars
  PROVE  [Channel!Next]_(Channel!vars)
  <1>1. ASSUME NEW f \in Outgoing, WriteTo(f) PROVE Channel!Next
    BY <1>1, SendRefines
  <1>2. ASSUME UNCHANGED <<sent, received, writer, reader, altered>>
        PROVE  UNCHANGED Channel!vars
    <2>1. Good' = Good
      BY <1>2, GoodIsGood
    <2>2. Garbled' <=> Garbled
      BY <1>2 DEF Garbled
    <2>. QED
      BY <1>2, <2>1, <2>2, Zenon DEF Channel!vars, Garbled
  <1>3. CASE WriteSome
    BY <1>2, <1>3 DEF WriteSome, readerVars
  <1>4. CASE WriterCloses \/ ConnectionReset
    <2>1. /\ writer = "open" /\ writer' \in {"closed", "reset"}
          /\ sent' = sent /\ received' = received /\ reader' = reader /\ altered' = altered
      BY <1>4 DEF WriterCloses, ConnectionReset, readerVars
    <2>2. Good' = Good /\ (Garbled' <=> Garbled)
      BY <2>1, GoodIsGood DEF Garbled
    <2>3. Channel!Finish
      BY <2>1, <2>2, Zenon DEF Channel!Finish, Garbled
    <2>. QED
      BY <2>3 DEF Channel!Next
  <1>5. CASE ByteAltered
    <2>1. /\ sent' = sent /\ received' = received /\ writer' = writer /\ reader' = reader
      BY <1>5 DEF ByteAltered, writerVars, readerVars
    <2>2. /\ altered' # {}
          /\ \/ GoodOf(sent, altered') = GoodOf(sent, altered)
             \/ GoodOf(sent, altered') \in Len(received) .. GoodOf(sent, altered)
      BY <1>5, AlterStream
    <2>3. Good' \in (Len(received) .. Good) \cup {Good}
      BY <2>1, <2>2, GoodIsGood, Zenon
    <2>4. Garbled'
      BY <2>2 DEF Garbled
    <2>5. Channel!Garble
      BY <2>1, <2>3, <2>4, Zenon DEF Channel!Garble, Garbled
    <2>. QED
      BY <2>5 DEF Channel!Next
  <1>6. CASE ReadPrefix
    <2>1. /\ reader = "reading" /\ UNCHANGED <<writerVars, altered, received>>
          /\ sent' = sent /\ writer' = writer /\ (reader' = reader \/ reader' = "err")
      BY <1>6 DEF ReadPrefix, writerVars
    <2>2. CASE reader' = reader
      BY <1>2, <2>1, <2>2
    <2>3. CASE reader' = "err"
      BY <1>6, <2>1, <2>3, PrefixStream, EndRefines
    <2>. QED
      BY <2>1, <2>2, <2>3
  <1>7. CASE ReadBody
    <2>1. /\ reader = "reading" /\ UNCHANGED <<writerVars, altered>>
          /\ sent' = sent /\ writer' = writer /\ altered' = altered
          /\ (reader' = reader \/ reader' = "err")
      BY <1>7 DEF ReadBody, writerVars
    <2>2. CASE reader' = reader /\ \E f : received' = Append(received, f) /\ MayReceive(f)
      BY <2>1, <2>2, ReceiveRefines
    <2>3. CASE received' = received /\ reader' = reader
      BY <1>2, <2>1, <2>3
    <2>4. CASE received' = received /\ reader' = "err" /\ NotGood
      <3>1. UNCHANGED <<writerVars, altered, received>>
        BY <2>1, <2>4
      <3>. QED
        BY <2>1, <2>4, <3>1, EndRefines
    <2>. QED
      BY <1>7, <2>1, <2>2, <2>3, <2>4, BodyStream
  <1>8. CASE ReadFails
    <2>1. /\ reader = "reading" /\ reader' = "err" /\ UNCHANGED <<writerVars, altered, received>>
      BY <1>8 DEF ReadFails
    <2>. QED
      BY <1>8, <2>1, FailStream, EndRefines
  <1>9. CASE UNCHANGED vars
    BY <1>2, <1>9 DEF vars, writerVars, readerVars
  <1>. QED
    BY <1>1, <1>3, <1>4, <1>5, <1>6, <1>7, <1>8, <1>9 DEF Next, Writer, Reader, Network

\* write_to and read_from give the two ends a channel of whole frames, for every
\* set of frames, however the bytes are cut into reads, wherever the writer stops
\* and whichever bytes are altered under way.
THEOREM ChannelImplemented == Spec => ImplementsChannel
  <1>1. Init => Channel!Init
    <2>. SUFFICES ASSUME Init PROVE Channel!Init
      OBVIOUS
    <2>1. GoodOf(sent, altered) = 0
      <3>1. <<>> \in Seq(WireFrames) /\ Len(<<>>) = 0
        OBVIOUS
      <3>2. GoodOf(<<>>, {}) \in 0 .. 0
        BY <3>1, GoodIs
      <3>. QED
        BY <3>2 DEF Init
    <2>2. Good = 0
      BY <2>1, GoodIsGood
    <2>3. ~Garbled
      BY DEF Init, Garbled
    <2>. QED
      BY <2>2, <2>3 DEF Init, Channel!Init, Garbled
  <1>2. IInv /\ Stream /\ [Next]_vars => [Channel!Next]_(Channel!vars)
    BY StepRefines
  <1>. QED
    BY <1>1, <1>2, StreamInvariant, PTL DEF Spec, ImplementsChannel, Channel!Spec

=============================================================================
