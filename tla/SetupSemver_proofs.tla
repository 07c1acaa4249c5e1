------------------------- MODULE SetupSemver_proofs -------------------------
(***************************************************************************)
(* Two results about scripts/semver.sh and setup-semver.sh, for all        *)
(* versions, prototypes and numbers of bumps.  compare prints the          *)
(* precedence of semver 2.0.0, which is an order; and no bump takes the    *)
(* numbers of a version down, so package.json never falls behind a release *)
(* it had.                                                                 *)
(*                                                                         *)
(* What the loops compute is proved by induction.  The least-number        *)
(* principle comes from WFMin of WellFoundedInduction, which has no        *)
(* operator among its parameters, and sets take the place of predicates:   *)
(* a lemma for all n is one that Nat is a subset of {n \in Nat : ...}.     *)
(***************************************************************************)
EXTENDS SetupSemver, WellFoundedInduction, SequenceTheorems, TLAPS

Core == Nat \X Nat \X Nat
Command == {"major", "minor", "patch", "release", "prerel", "build"}

IsVersion(v) ==
  /\ v.core \in Core
  /\ v.pre \in Seq(Int)
  /\ v = [core |-> v.core, pre |-> v.pre, build |-> v.build]

\* The file holds a version or nothing, and the numbers are numbers.
FileOK ==
  /\ file = Empty \/ IsVersion(file)
  /\ highest \in Core

IndInv == FileOK /\ NeverBelowARelease
-----------------------------------------------------------------------------
(* Numbers, induction and loops.                                           *)

\* Every set of natural numbers that has an element has a least one.
LEMMA LeastNumber ==
  ASSUME NEW S \in SUBSET Nat, S # {}
  PROVE  \E m \in S : \A n \in S : m <= n
<1>1. PICK m \in S : \A n \in S : <<n, m>> \notin OpToRel(<, Nat)
  BY NatLessThanWellFounded, WFMin, Zenon
<1>2. \A n \in S : ~(n < m)
  BY <1>1 DEF OpToRel
<1>3. m \in S
  OBVIOUS
<1> QED
  BY <1>2, <1>3

\* And a greatest one, when it is bounded.
LEMMA GreatestNumber ==
  ASSUME NEW S \in SUBSET Nat, S # {}, NEW bound \in Nat, \A n \in S : n <= bound
  PROVE  \E m \in S : \A n \in S : m >= n
<1> DEFINE T == {k \in Nat : bound - k \in S}
<1>1. T # {}
  <2>1. PICK n \in S : TRUE
    OBVIOUS
  <2>2. n \in Nat /\ n <= bound
    BY <2>1
  <2>3. bound - n \in Nat /\ bound - (bound - n) = n
    BY <2>2
  <2> QED
    BY <2>1, <2>3
<1>2. PICK k \in T : \A j \in T : k <= j
  BY <1>1, LeastNumber
<1>3. ASSUME NEW n \in S PROVE bound - k >= n
  <2>1. n \in Nat /\ n <= bound
    OBVIOUS
  <2>2. bound - n \in Nat /\ bound - (bound - n) = n
    BY <2>1
  <2>3. k <= bound - n
    BY <1>2, <2>2
  <2> QED
    BY <2>1, <2>3, <1>2
<1> QED
  BY <1>2, <1>3

\* Induction over the natural numbers, with a set for the predicate.
LEMMA SetInduction ==
  ASSUME NEW S, 0 \in S, \A n \in Nat : n \in S => n + 1 \in S
  PROVE  Nat \subseteq S
<1> SUFFICES ASSUME Nat \ S # {} PROVE FALSE
  OBVIOUS
<1>1. PICK m \in Nat \ S : \A n \in Nat \ S : m <= n
  BY LeastNumber
<1>2. m - 1 \in Nat /\ m - 1 \in S
  BY <1>1
<1> QED
  BY <1>1, <1>2

\* A loop over 0..N: the values a step function g leads to from a.
IsLoop(f, T, a, g, N) ==
  /\ f \in [0..N -> T]
  /\ f[0] = a
  /\ \A m \in 0..(N - 1) : f[m + 1] = g[m, f[m]]

\* Every loop has a run.
LEMMA LoopHasARun ==
  ASSUME NEW T, NEW a \in T, NEW g \in [Nat \X T -> T], NEW N \in Nat
  PROVE  \E f : IsLoop(f, T, a, g, N)
<1> DEFINE Run(n, f) == f[0] = a /\ \A m \in 0..(n - 1) : f[m + 1] = g[m, f[m]]
           S == {n \in Nat : \E f \in [0..n -> T] : Run(n, f)}
<1>1. 0 \in S
  <2>1. [m \in 0..0 |-> a] \in [0..0 -> T] /\ Run(0, [m \in 0..0 |-> a])
    OBVIOUS
  <2> QED
    BY <2>1
<1>2. ASSUME NEW n \in Nat, n \in S PROVE n + 1 \in S
  <2>1. PICK f \in [0..n -> T] : Run(n, f)
    BY <1>2
  <2> DEFINE h == [m \in 0..(n + 1) |-> IF m = n + 1 THEN g[n, f[n]] ELSE f[m]]
  <2>2. g[n, f[n]] \in T
    <3>1. <<n, f[n]>> \in Nat \X T
      OBVIOUS
    <3> QED
      BY <3>1
  <2>3. \A m \in 0..(n + 1) : m = n + 1 \/ m \in 0..n
    OBVIOUS
  <2>4. h \in [0..(n + 1) -> T]
    <3>1. \A m \in 0..(n + 1) : (IF m = n + 1 THEN g[n, f[n]] ELSE f[m]) \in T
      BY <2>2, <2>3
    <3> QED
      BY <3>1
  <2>5. h[n + 1] = g[n, f[n]] /\ \A m \in 0..n : h[m] = f[m]
    <3>1. n + 1 \in 0..(n + 1) /\ \A m \in 0..n : m \in 0..(n + 1) /\ m # n + 1
      OBVIOUS
    <3>2. h[n + 1] = g[n, f[n]]
      BY <3>1, Zenon
    <3>3. \A m \in 0..n : h[m] = f[m]
      BY <3>1, Zenon
    <3> QED
      BY <3>2, <3>3
  <2> HIDE DEF h
  <2>6. h[0] = a
    <3>1. f[0] = a
      BY <2>1
    <3>2. 0 \in 0..n
      OBVIOUS
    <3> QED
      BY <2>5, <3>1, <3>2, Zenon
  <2>7. ASSUME NEW m \in 0..n PROVE h[m + 1] = g[m, h[m]]
    <3>1. CASE m = n
      BY <2>5, <3>1
    <3>2. CASE m # n
      <4>1. m \in 0..(n - 1) /\ m + 1 \in 0..n
        BY <3>2
      <4> QED
        BY <2>1, <2>5, <4>1
    <3> QED
      BY <3>1, <3>2
  <2>8. Run(n + 1, h)
    <3>1. (n + 1) - 1 = n
      OBVIOUS
    <3> QED
      BY <2>6, <2>7, <3>1
  <2> HIDE DEF Run
  <2> QED
    BY <2>4, <2>8
<1>3. N \in S
  <2> HIDE DEF S
  <2> QED
    BY <1>1, <1>2, SetInduction
<1> QED
  BY <1>3 DEF IsLoop

-----------------------------------------------------------------------------
(* The value of a number in digits.                                        *)

\* The loop of Value and its run.
ValueRun(f, s, base) ==
  /\ f \in [0..Len(s) -> Nat]
  /\ f[0] = 0
  /\ \A m \in 0..(Len(s) - 1) : f[m + 1] = base * f[m] + s[m + 1]

\* The loop has one run, which the digits read so far determine.
LEMMA ValueRunUnique ==
  ASSUME NEW s \in Seq(Nat), NEW t \in Seq(Nat), NEW base \in Nat, NEW f, NEW g,
         ValueRun(f, s, base), ValueRun(g, t, base), Len(s) <= Len(t),
         \A i \in 1..Len(s) : s[i] = t[i]
  PROVE  \A m \in 0..Len(s) : f[m] = g[m]
<1> DEFINE S == {m \in Nat : m <= Len(s) => f[m] = g[m]}
<1>0. Len(s) \in Nat /\ Len(t) \in Nat
  OBVIOUS
<1>1. 0 \in S
  BY DEF ValueRun
<1>2. ASSUME NEW m \in Nat, m \in S PROVE m + 1 \in S
  <2>1. SUFFICES ASSUME m + 1 <= Len(s) PROVE f[m + 1] = g[m + 1]
    OBVIOUS
  <2>2. m \in 0..(Len(s) - 1) /\ m \in 0..(Len(t) - 1) /\ m + 1 \in 1..Len(s)
    BY <1>0, <2>1
  <2>3. f[m] = g[m]
    BY <1>2, <2>2, <1>0
  <2>4. f[m + 1] = base * f[m] + s[m + 1] /\ g[m + 1] = base * g[m] + t[m + 1]
    BY <2>2 DEF ValueRun
  <2> QED
    BY <2>2, <2>3, <2>4
<1> HIDE DEF S
<1>3. Nat \subseteq S
  BY <1>1, <1>2, SetInduction
<1> QED
  BY <1>0, <1>3 DEF S

\* Value is where that run ends.
LEMMA ValueIsARun ==
  ASSUME NEW s \in Seq(Nat), NEW base \in Nat
  PROVE  \E f : ValueRun(f, s, base) /\ Value(s, base) = f[Len(s)]
<1> DEFINE N == Len(s)
           step == [p \in Nat \X Nat |-> IF p[1] + 1 \in 1..N THEN base * p[2] + s[p[1] + 1] ELSE 0]
           Loop(f) == f = [n \in 0..N |-> IF n = 0 THEN 0 ELSE base * f[n - 1] + s[n]]
<1>0. N \in Nat /\ \A i \in 1..N : s[i] \in Nat
  OBVIOUS
<1>1. \A x \in Nat : base * x \in Nat
  OBVIOUS
<1>2. step \in [Nat \X Nat -> Nat]
  <2>1. \A x \in Nat, y \in Nat : (IF x + 1 \in 1..N THEN base * y + s[x + 1] ELSE 0) \in Nat
    <3> SUFFICES ASSUME NEW x \in Nat, NEW y \in Nat, x + 1 \in 1..N PROVE base * y + s[x + 1] \in Nat
      OBVIOUS
    <3>1. base * y \in Nat /\ s[x + 1] \in Nat
      BY <1>0, <1>1
    <3> QED
      BY <3>1
  <2> QED
    BY <2>1
<1>3. \A x \in Nat, y \in Nat : x + 1 \in 1..N => step[x, y] = base * y + s[x + 1]
  OBVIOUS
<1> HIDE DEF step
<1>4. PICK f : IsLoop(f, Nat, 0, step, N)
  <2>1. 0 \in Nat
    OBVIOUS
  <2> QED
    BY <1>0, <1>2, <2>1, LoopHasARun
<1>4a. f \in [0..N -> Nat] /\ f[0] = 0
  BY <1>4 DEF IsLoop
<1>4b. \A m \in 0..(N - 1) : f[m + 1] = step[m, f[m]]
  BY <1>4 DEF IsLoop
<1>5. ValueRun(f, s, base)
  <2>1. ASSUME NEW m \in 0..(N - 1) PROVE f[m + 1] = base * f[m] + s[m + 1]
    <3>1. m \in Nat /\ f[m] \in Nat /\ m + 1 \in 1..N
      BY <1>0, <1>4a
    <3> QED
      BY <1>3, <1>4b, <3>1
  <2> QED
    BY <1>4a, <2>1 DEF ValueRun
<1>6. \A g : ValueRun(g, s, base) => Loop(g)
  <2> SUFFICES ASSUME NEW g, ValueRun(g, s, base) PROVE Loop(g)
    OBVIOUS
  <2>1. ASSUME NEW n \in 0..N PROVE g[n] = IF n = 0 THEN 0 ELSE base * g[n - 1] + s[n]
    <3>1. CASE n = 0
      BY <3>1 DEF ValueRun
    <3>2. CASE n # 0
      <4>1. n - 1 \in 0..(N - 1) /\ (n - 1) + 1 = n
        BY <1>0, <3>2
      <4> QED
        BY <3>2, <4>1 DEF ValueRun
    <3> QED
      BY <3>1, <3>2
  <2> QED
    BY <2>1 DEF ValueRun
<1>7. ASSUME NEW g, Loop(g) PROVE g = f
  <2> DEFINE S == {m \in Nat : m <= N => g[m] = f[m]}
  <2>1. 0 \in S
    <3>1. 0 \in 0..N
      BY <1>0
    <3>2. g[0] = IF 0 = 0 THEN 0 ELSE base * g[0 - 1] + s[0]
      BY <1>7, <3>1, Zenon
    <3> QED
      BY <1>4a, <3>2
  <2>2. ASSUME NEW m \in Nat, m \in S PROVE m + 1 \in S
    <3>1. SUFFICES ASSUME m + 1 <= N PROVE g[m + 1] = f[m + 1]
      OBVIOUS
    <3>2. m + 1 \in 0..N /\ m + 1 # 0 /\ (m + 1) - 1 = m /\ m \in 0..(N - 1) /\ g[m] = f[m]
      BY <1>0, <2>2, <3>1
    <3>3. g[m + 1] = base * g[m] + s[m + 1]
      <4>1. g[m + 1] = IF m + 1 = 0 THEN 0 ELSE base * g[(m + 1) - 1] + s[m + 1]
        BY <1>7, <3>2, Zenon
      <4> QED
        BY <3>2, <4>1
    <3> QED
      BY <1>5, <3>2, <3>3 DEF ValueRun
  <2> HIDE DEF S
  <2>3. Nat \subseteq S
    BY <2>1, <2>2, SetInduction
  <2>4. \A m \in 0..N : g[m] = f[m]
    BY <1>0, <2>3 DEF S
  <2>5. DOMAIN g = 0..N /\ g = [n \in 0..N |-> g[n]]
    BY <1>7
  <2> QED
    BY <2>4, <2>5
<1>8. Loop(f)
  BY <1>5, <1>6
<1>9. Value(s, base) = f[N]
  <2> DEFINE upto == CHOOSE g : Loop(g)
  <2>1. Value(s, base) = upto[N]
    BY DEF Value
  <2>2. Loop(upto)
    BY <1>8
  <2>3. upto = f
    BY <1>7, <2>2
  <2> QED
    BY <2>1, <2>3
<1> QED
  BY <1>5, <1>9

\* Value, by cases: a number, one digit, one digit more.
LEMMA ValueType ==
  ASSUME NEW s \in Seq(Nat), NEW base \in Nat
  PROVE  Value(s, base) \in Nat
<1>1. PICK f : ValueRun(f, s, base) /\ Value(s, base) = f[Len(s)]
  BY ValueIsARun
<1>2. Len(s) \in 0..Len(s)
  OBVIOUS
<1> QED
  BY <1>1, <1>2 DEF ValueRun

LEMMA ValueOfOne ==
  ASSUME NEW d \in Nat, NEW base \in Nat
  PROVE  Value(<<d>>, base) = d
<1>0. <<d>> \in Seq(Nat) /\ Len(<<d>>) = 1
  OBVIOUS
<1>1. PICK f : ValueRun(f, <<d>>, base) /\ Value(<<d>>, base) = f[1]
  BY <1>0, ValueIsARun
<1>2. f[0] = 0
  BY <1>1 DEF ValueRun
<1>3. f[0 + 1] = base * f[0] + d
  BY <1>0, <1>1 DEF ValueRun
<1> QED
  BY <1>1, <1>2, <1>3

LEMMA ValueOfMore ==
  ASSUME NEW s \in Seq(Nat), NEW d \in Nat, NEW base \in Nat
  PROVE  Value(Append(s, d), base) = base * Value(s, base) + d
<1> DEFINE t == Append(s, d)  N == Len(s)
<1>0. /\ t \in Seq(Nat) /\ Len(t) = N + 1 /\ N \in Nat
      /\ t[N + 1] = d /\ \A i \in 1..N : t[i] = s[i]
  OBVIOUS
<1> HIDE DEF t
<1>1. PICK f : ValueRun(f, s, base) /\ Value(s, base) = f[N]
  BY ValueIsARun
<1>2. PICK g : ValueRun(g, t, base) /\ Value(t, base) = g[N + 1]
  BY <1>0, ValueIsARun
<1>3. f[N] = g[N]
  <2>1. \A m \in 0..N : f[m] = g[m]
    BY <1>0, <1>1, <1>2, ValueRunUnique
  <2> QED
    BY <1>0, <2>1
<1>4. g[N + 1] = base * g[N] + t[N + 1]
  <2>1. N \in 0..(Len(t) - 1)
    BY <1>0
  <2> QED
    BY <1>2, <2>1 DEF ValueRun
<1> QED
  BY <1>0, <1>1, <1>2, <1>3, <1>4 DEF t

\* Numbers in decimal: the fields is_nat accepts.
Nats == {f \in Seq(Digit) : is_nat(f)}

\* A field of digits is a sequence of numbers.
LEMMA DigitsAreNumbers ==
  ASSUME NEW f, f \in Seq(Int), AllDigits(f)
  PROVE  f \in Seq(Digit) /\ f \in Seq(Nat)
BY DEF AllDigits, Digit

\* A number of more than one digit, and how it is split before the last one.
LEMMA LastDigit ==
  ASSUME NEW f \in Nats, Len(f) # 1
  PROVE  \E e \in Nats, d \in Digit :
           /\ f = Append(e, d) /\ Len(e) + 1 = Len(f) /\ e[1] # 0
           /\ Value(f, 10) = 10 * Value(e, 10) + d
<1> DEFINE n == Len(f)  e == SubSeq(f, 1, n - 1)  d == f[n]
<1>1. f \in Seq(Digit) /\ f # <<>> /\ n \in Nat /\ n > 1 /\ f[1] # 0
  <2>1. f \in Seq(Digit) /\ f # <<>> /\ (f[1] = 0 => n = 1)
    BY DEF Nats, is_nat
  <2>2. n \in Nat /\ n # 0
    BY <2>1
  <2>3. n > 1
    BY <2>1, <2>2
  <2>4. f[1] # 0
    BY <2>1, <2>2
  <2> QED
    BY <2>1, <2>2, <2>3, <2>4, Zenon
<1>2. e \in Seq(Digit) /\ Len(e) = n - 1 /\ \A i \in 1..(n - 1) : e[i] = f[i]
  BY <1>1, SubSeqProperties
<1>3. d \in Digit
  BY <1>1
<1> HIDE DEF e, d
<1>4. f = Append(e, d)
  <2>1. Append(e, d) \in Seq(Digit) /\ Len(Append(e, d)) = n
    BY <1>1, <1>2, <1>3
  <2>2. ASSUME NEW i \in 1..n PROVE Append(e, d)[i] = f[i]
    BY <1>1, <1>2, <1>3 DEF d
  <2> QED
    BY <1>1, <2>1, <2>2
<1>5. e \in Nats
  BY <1>1, <1>2 DEF Nats, is_nat, AllDigits
<1>6. e \in Seq(Nat) /\ d \in Nat
  BY <1>2, <1>3 DEF Digit
<1>7. Value(f, 10) = 10 * Value(e, 10) + d
  BY <1>4, <1>6, ValueOfMore
<1> QED
  BY <1>1, <1>2, <1>3, <1>4, <1>5, <1>7

\* A number of one digit.
LEMMA OneDigit ==
  ASSUME NEW f \in Nats, Len(f) = 1
  PROVE  f[1] \in Digit /\ f = <<f[1]>> /\ Value(f, 10) = f[1]
<1>1. f \in Seq(Digit) /\ f[1] \in Digit /\ f = <<f[1]>>
  <2>1. f \in Seq(Digit)
    BY DEF Nats
  <2> QED
    BY <2>1
<1>2. Value(<<f[1]>>, 10) = f[1]
  BY <1>1, ValueOfOne DEF Digit
<1> QED
  BY <1>1, <1>2

\* The types of a number in digits.
LEMMA NatsType ==
  ASSUME NEW f \in Nats
  PROVE  f \in Seq(Digit) /\ f \in Seq(Nat) /\ Len(f) \in Nat \ {0} /\ Value(f, 10) \in Nat
<1>1. f \in Seq(Digit) /\ f # <<>>
  BY DEF Nats, is_nat
<1>2. f \in Seq(Nat)
  BY <1>1 DEF Digit
<1>3. Len(f) \in Nat \ {0}
  BY <1>1
<1> QED
  BY <1>1, <1>2, <1>3, ValueType

\* A number that does not begin with 0 is not 0.
LEMMA PositiveValue ==
  ASSUME NEW f \in Nats, f[1] # 0
  PROVE  Value(f, 10) >= 1
<1> DEFINE S == {n \in Nat : \A e \in Nats : Len(e) = n + 1 /\ e[1] # 0 => Value(e, 10) >= 1}
<1>1. 0 \in S
  <2> SUFFICES ASSUME NEW e \in Nats, Len(e) = 1, e[1] # 0 PROVE Value(e, 10) >= 1
    OBVIOUS
  <2> QED
    BY OneDigit DEF Digit
<1>2. ASSUME NEW n \in Nat, n \in S PROVE n + 1 \in S
  <2> SUFFICES ASSUME NEW e \in Nats, Len(e) = (n + 1) + 1, e[1] # 0 PROVE Value(e, 10) >= 1
    OBVIOUS
  <2>1. Len(e) # 1
    OBVIOUS
  <2>2. PICK c \in Nats, d \in Digit :
          /\ e = Append(c, d) /\ Len(c) + 1 = Len(e) /\ c[1] # 0
          /\ Value(e, 10) = 10 * Value(c, 10) + d
    BY <2>1, LastDigit
  <2>3. Len(c) = n + 1
    BY <2>2, NatsType
  <2>4. Value(c, 10) >= 1 /\ Value(c, 10) \in Nat
    BY <1>2, <2>2, <2>3, NatsType
  <2> QED
    BY <2>2, <2>4 DEF Digit
<1> HIDE DEF S
<1>3. Nat \subseteq S
  BY <1>1, <1>2, SetInduction
<1>4. Len(f) - 1 \in S /\ Len(f) = (Len(f) - 1) + 1
  BY <1>3, NatsType
<1> QED
  BY <1>4 DEF S

\* Two numbers without leading zeros are the same if their values are.
LEMMA ValueDetermines ==
  ASSUME NEW f \in Nats, NEW g \in Nats, Value(f, 10) = Value(g, 10)
  PROVE  f = g
<1> DEFINE S == {n \in Nat : \A a, b \in Nats :
                     Len(a) = n + 1 /\ Value(a, 10) = Value(b, 10) => a = b}
<1>0. ASSUME NEW a \in Nats, Len(a) # 1 PROVE Value(a, 10) >= 10
  <2>1. PICK c \in Nats, d \in Digit :
          c[1] # 0 /\ Value(a, 10) = 10 * Value(c, 10) + d
    BY <1>0, LastDigit
  <2>2. Value(c, 10) \in Nat /\ Value(c, 10) >= 1
    BY <2>1, NatsType, PositiveValue
  <2> QED
    BY <2>1, <2>2 DEF Digit
<1>1. 0 \in S
  <2> SUFFICES ASSUME NEW a \in Nats, NEW b \in Nats,
                      Len(a) = 1, Value(a, 10) = Value(b, 10)
               PROVE  a = b
    OBVIOUS
  <2>1. a[1] \in Digit /\ a = <<a[1]>> /\ Value(a, 10) = a[1]
    BY OneDigit
  <2>2. Len(b) = 1
    <3>1. ~(Value(b, 10) >= 10)
      BY <2>1 DEF Digit
    <3> QED
      BY <1>0, <3>1
  <2>3. b = <<b[1]>> /\ Value(b, 10) = b[1]
    BY <2>2, OneDigit
  <2> QED
    BY <2>1, <2>3
<1>2. ASSUME NEW n \in Nat, n \in S PROVE n + 1 \in S
  <2> SUFFICES ASSUME NEW a \in Nats, NEW b \in Nats,
                      Len(a) = (n + 1) + 1, Value(a, 10) = Value(b, 10)
               PROVE  a = b
    OBVIOUS
  <2>1. Len(a) # 1
    OBVIOUS
  <2>2. Len(b) # 1
    <3> SUFFICES ASSUME Len(b) = 1 PROVE FALSE
      OBVIOUS
    <3>1. Value(b, 10) \in Digit
      BY OneDigit
    <3>2. Value(a, 10) >= 10
      BY <1>0, <2>1
    <3> QED
      BY <3>1, <3>2 DEF Digit
  <2>3. PICK c \in Nats, d \in Digit :
          /\ a = Append(c, d) /\ Len(c) + 1 = Len(a)
          /\ Value(a, 10) = 10 * Value(c, 10) + d
    BY <2>1, LastDigit
  <2>4. PICK e \in Nats, h \in Digit :
          b = Append(e, h) /\ Value(b, 10) = 10 * Value(e, 10) + h
    BY <2>2, LastDigit
  <2>5. Value(c, 10) \in Nat /\ Value(e, 10) \in Nat /\ Len(c) \in Nat
    BY NatsType
  <2>6. Value(c, 10) = Value(e, 10) /\ d = h
    <3> DEFINE x == Value(c, 10)  y == Value(e, 10)
    <3>1. x \in Nat /\ y \in Nat /\ d \in 0..9 /\ h \in 0..9
      BY <2>5 DEF Digit
    <3>2. 10 * x + d = 10 * y + h
      BY <2>3, <2>4
    <3> HIDE DEF x, y
    <3>3. x = y /\ d = h
      BY <3>1, <3>2
    <3> QED
      BY <3>3 DEF x, y
  <2>7. Len(c) = n + 1
    BY <2>3, <2>5
  <2>8. c = e
    BY <1>2, <2>6, <2>7
  <2> QED
    BY <2>3, <2>4, <2>6, <2>8
<1> HIDE DEF S
<1>3. Nat \subseteq S
  BY <1>1, <1>2, SetInduction
<1>4. Len(f) - 1 \in S /\ Len(f) = (Len(f) - 1) + 1
  BY <1>3, NatsType
<1> QED
  BY <1>4 DEF S

\* One more digit behind a number that is not 0.
LEMMA OneMoreDigit ==
  ASSUME NEW e \in Nats, NEW d \in Digit, Value(e, 10) # 0
  PROVE  Append(e, d) \in Nats /\ Value(Append(e, d), 10) = 10 * Value(e, 10) + d
<1>1. e \in Seq(Digit) /\ e \in Seq(Nat) /\ Len(e) \in Nat \ {0}
  BY NatsType
<1>2. e[1] # 0
  <2> SUFFICES ASSUME e[1] = 0 PROVE FALSE
    OBVIOUS
  <2>1. Len(e) = 1
    BY DEF Nats, is_nat
  <2> QED
    BY <2>1, OneDigit
<1>3. Append(e, d) \in Seq(Digit) /\ Append(e, d) # <<>> /\ Append(e, d)[1] = e[1]
  BY <1>1
<1>4. AllDigits(Append(e, d))
  BY <1>3 DEF AllDigits
<1>5. Append(e, d) \in Nats
  BY <1>2, <1>3, <1>4 DEF Nats, is_nat
<1>6. d \in Nat
  BY DEF Digit
<1> QED
  BY <1>1, <1>5, <1>6, ValueOfMore

\* Each digit is a number of its own.
LEMMA OneDigitNumber ==
  ASSUME NEW d \in Digit
  PROVE  <<d>> \in Nats /\ Value(<<d>>, 10) = d
<1>1. <<d>> \in Seq(Digit) /\ Len(<<d>>) = 1 /\ <<d>>[1] = d /\ <<d>> # <<>>
  OBVIOUS
<1>2. AllDigits(<<d>>)
  BY <1>1 DEF AllDigits
<1>3. <<d>> \in Nats
  BY <1>1, <1>2 DEF Nats, is_nat
<1> QED
  BY <1>1, <1>3, OneDigit

\* Every number has a decimal.
LEMMA NumbersHaveDecimals ==
  ASSUME NEW n \in Nat
  PROVE  \E f \in Nats : Value(f, 10) = n
<1> DEFINE S == {k \in Nat : \A m \in 0..k : \E f \in Nats : Value(f, 10) = m}
<1>1. 0 \in S
  <2>1. 0 \in Digit
    BY DEF Digit
  <2>2. <<0>> \in Nats /\ Value(<<0>>, 10) = 0
    BY <2>1, OneDigitNumber
  <2> QED
    BY <2>2
<1>2. ASSUME NEW k \in Nat, k \in S PROVE k + 1 \in S
  <2>1. SUFFICES \E f \in Nats : Value(f, 10) = k + 1
    <3>1. \A m \in 0..(k + 1) : m \in 0..k \/ m = k + 1
      OBVIOUS
    <3> QED
      BY <1>2, <2>1, <3>1
  <2>2. CASE k + 1 < 10
    <3>1. k + 1 \in Digit
      BY <2>2 DEF Digit
    <3> QED
      BY <3>1, OneDigitNumber
  <2>3. CASE k + 1 >= 10
    <3> DEFINE q == (k + 1) \div 10  d == (k + 1) % 10
    <3>1. q \in 0..k /\ q # 0 /\ d \in Digit /\ k + 1 = 10 * q + d
      BY <2>3 DEF Digit
    <3> HIDE DEF q, d
    <3>2. PICK e \in Nats : Value(e, 10) = q
      BY <1>2, <3>1
    <3>3. Append(e, d) \in Nats /\ Value(Append(e, d), 10) = 10 * q + d
      BY <3>1, <3>2, OneMoreDigit
    <3> QED
      BY <3>1, <3>3
  <2> QED
    BY <2>2, <2>3
<1> HIDE DEF S
<1>3. n \in S
  BY <1>1, <1>2, SetInduction
<1> QED
  BY <1>3 DEF S

\* The recursion of Decimal has a solution, so its equation holds.
LEMMA DecimalDef ==
  ASSUME NEW n \in Nat
  PROVE  Decimal[n] = IF n < 10 THEN <<n>> ELSE Append(Decimal[n \div 10], n % 10)
<1> DEFINE Eq(g) == g = [k \in Nat |-> IF k < 10 THEN <<k>> ELSE Append(g[k \div 10], k % 10)]
           F == [k \in Nat |-> CHOOSE f \in Nats : Value(f, 10) = k]
<1>1. ASSUME NEW k \in Nat PROVE F[k] \in Nats /\ Value(F[k], 10) = k
  <2>1. \E f \in Nats : Value(f, 10) = k
    BY NumbersHaveDecimals
  <2>2. F[k] = CHOOSE f \in Nats : Value(f, 10) = k
    OBVIOUS
  <2> QED
    BY <2>1, <2>2
<1>2. ASSUME NEW k \in Nat
      PROVE  F[k] = IF k < 10 THEN <<k>> ELSE Append(F[k \div 10], k % 10)
  <2>0. F[k] \in Nats /\ Value(F[k], 10) = k
    BY <1>1
  <2>1. CASE k < 10
    <3>1. k \in Digit
      BY <2>1 DEF Digit
    <3>2. <<k>> \in Nats /\ Value(<<k>>, 10) = k
      BY <3>1, OneDigitNumber
    <3>3. F[k] = <<k>>
      BY <2>0, <3>2, ValueDetermines
    <3> QED
      BY <2>1, <3>3
  <2>2. CASE ~(k < 10)
    <3> DEFINE q == k \div 10  d == k % 10
    <3>1. q \in Nat /\ q # 0 /\ d \in Digit /\ k = 10 * q + d
      BY <2>2 DEF Digit
    <3> HIDE DEF F, q, d
    <3>2. F[q] \in Nats /\ Value(F[q], 10) = q
      BY <1>1, <3>1
    <3>3. Append(F[q], d) \in Nats /\ Value(Append(F[q], d), 10) = k
      BY <3>1, <3>2, OneMoreDigit
    <3>4. F[k] = Append(F[q], d)
      BY <2>0, <3>3, ValueDetermines
    <3> QED
      BY <2>2, <3>4 DEF q, d
  <2> QED
    BY <2>1, <2>2
<1>3. Eq(F)
  <2> DEFINE G == [k \in Nat |-> IF k < 10 THEN <<k>> ELSE Append(F[k \div 10], k % 10)]
  <2>1. DOMAIN F = Nat /\ F = [k \in DOMAIN F |-> F[k]]
    OBVIOUS
  <2>2. \A k \in Nat : F[k] = G[k]
    BY <1>2, Zenon
  <2>3. DOMAIN G = Nat /\ G = [k \in DOMAIN G |-> G[k]]
    OBVIOUS
  <2> HIDE DEF F, G
  <2>4. F = G
    BY <2>1, <2>2, <2>3
  <2> QED
    BY <2>4 DEF G
<1>4. Decimal = CHOOSE g : Eq(g)
  BY DEF Decimal
<1>5. Eq(Decimal)
  BY <1>3, <1>4, Zenon
<1> HIDE DEF F
<1> QED
  BY <1>5, Zenon

\* Decimal writes the number it is given, without leading zeros.
LEMMA DecimalIsANumber ==
  ASSUME NEW n \in Nat
  PROVE  Decimal[n] \in Nats /\ Value(Decimal[n], 10) = n
<1> DEFINE S == {k \in Nat : \A m \in 0..k : Decimal[m] \in Nats /\ Value(Decimal[m], 10) = m}
<1>1. 0 \in S
  <2>1. 0 \in Digit
    BY DEF Digit
  <2>2. Decimal[0] = <<0>>
    <3>1. Decimal[0] = IF 0 < 10 THEN <<0>> ELSE Append(Decimal[0 \div 10], 0 % 10)
      BY DecimalDef, 0 \in Nat, Zenon
    <3> QED
      BY <3>1
  <2> QED
    BY <2>1, <2>2, OneDigitNumber
<1>2. ASSUME NEW k \in Nat, k \in S PROVE k + 1 \in S
  <2>1. SUFFICES Decimal[k + 1] \in Nats /\ Value(Decimal[k + 1], 10) = k + 1
    <3>1. \A m \in 0..(k + 1) : m \in 0..k \/ m = k + 1
      OBVIOUS
    <3> QED
      BY <1>2, <2>1, <3>1
  <2>2. CASE k + 1 < 10
    <3>1. k + 1 \in Digit
      BY <2>2 DEF Digit
    <3>2. Decimal[k + 1] = <<k + 1>>
      <4>1. k + 1 \in Nat
        OBVIOUS
      <4>2. \A j \in Nat : j < 10 => Decimal[j] = <<j>>
        BY DecimalDef, Zenon
      <4> QED
        BY <2>2, <4>1, <4>2, Zenon
    <3> QED
      BY <3>1, <3>2, OneDigitNumber
  <2>3. CASE k + 1 >= 10
    <3> DEFINE q == (k + 1) \div 10  d == (k + 1) % 10
    <3>1. q \in 0..k /\ q # 0 /\ d \in Digit /\ k + 1 = 10 * q + d
      BY <2>3 DEF Digit
    <3>2. Decimal[k + 1] = Append(Decimal[q], d)
      <4>1. Decimal[k + 1] = IF k + 1 < 10 THEN <<k + 1>> ELSE Append(Decimal[q], d)
        BY DecimalDef
      <4> QED
        BY <2>3, <4>1
    <3> HIDE DEF q, d
    <3>3. Decimal[q] \in Nats /\ Value(Decimal[q], 10) = q
      BY <1>2, <3>1
    <3> QED
      BY <3>1, <3>2, <3>3, OneMoreDigit
  <2> QED
    BY <2>2, <2>3
<1> HIDE DEF S
<1>3. n \in S
  BY <1>1, <1>2, SetInduction
<1> QED
  BY <1>3 DEF S
-----------------------------------------------------------------------------
(* The order of fields.                                                    *)

\* A field of a version of the usage text: a number that fits, or a name.
IsField(f) ==
  f \in Seq(Int) /\ (AllDigits(f) => is_nat(f) /\ Value(f, 10) <= MaxInt)

\* The order of strings: not both ways,
LEMMA StringLessAsymmetric ==
  ASSUME NEW a \in Seq(Int), NEW b \in Seq(Int), StringLess(a, b)
  PROVE  ~StringLess(b, a)
<1>1. PICK i \in DOMAIN b :
        /\ \A j \in 1..(i - 1) : j \in DOMAIN a /\ a[j] = b[j]
        /\ i \in DOMAIN a => a[i] < b[i]
  BY DEF StringLess
<1> SUFFICES ASSUME NEW k \in DOMAIN a,
                    \A j \in 1..(k - 1) : j \in DOMAIN b /\ b[j] = a[j],
                    k \in DOMAIN b => b[k] < a[k]
             PROVE  FALSE
  BY DEF StringLess
<1>2. /\ DOMAIN a = 1..Len(a) /\ DOMAIN b = 1..Len(b) /\ Len(a) \in Nat /\ Len(b) \in Nat
      /\ i \in 1..Len(b) /\ k \in 1..Len(a)
  OBVIOUS
<1>3. CASE i < k
  <2>1. i \in 1..(k - 1) /\ i \in DOMAIN a
    BY <1>2, <1>3
  <2>2. a[i] \in Int /\ b[i] = a[i] /\ a[i] < b[i]
    BY <1>1, <2>1
  <2> QED
    BY <2>2
<1>4. CASE k < i
  <2>1. k \in 1..(i - 1) /\ k \in DOMAIN b
    BY <1>2, <1>4
  <2>2. a[k] \in Int /\ b[k] = a[k] /\ b[k] < a[k]
    BY <1>1, <2>1
  <2> QED
    BY <2>2
<1>5. CASE i = k
  <2>1. a[i] \in Int /\ b[i] \in Int /\ a[i] < b[i] /\ b[i] < a[i]
    BY <1>1, <1>2, <1>5
  <2> QED
    BY <2>1
<1> QED
  BY <1>2, <1>3, <1>4, <1>5

\* one of both ways for two that differ,
LEMMA StringLessTotal ==
  ASSUME NEW a \in Seq(Int), NEW b \in Seq(Int), a # b
  PROVE  StringLess(a, b) \/ StringLess(b, a)
<1> DEFINE S == {i \in Nat \ {0} : i > Len(a) \/ i > Len(b) \/ a[i] # b[i]}
<1>0. /\ DOMAIN a = 1..Len(a) /\ DOMAIN b = 1..Len(b) /\ Len(a) \in Nat /\ Len(b) \in Nat
      /\ \A i \in DOMAIN a : a[i] \in Int
      /\ \A i \in DOMAIN b : b[i] \in Int
  OBVIOUS
<1>1. Len(a) + 1 \in S
  BY <1>0
<1>2. PICK i \in S : \A j \in S : i <= j
  <2>1. S \in SUBSET Nat /\ S # {}
    BY <1>1
  <2> QED
    BY <2>1, LeastNumber
<1>3. i \in Nat /\ i > 0 /\ i <= Len(a) + 1
  BY <1>1, <1>2
<1>4. \A j \in 1..(i - 1) : j \in DOMAIN a /\ j \in DOMAIN b /\ a[j] = b[j]
  <2> SUFFICES ASSUME NEW j \in 1..(i - 1)
               PROVE  j \in DOMAIN a /\ j \in DOMAIN b /\ a[j] = b[j]
    OBVIOUS
  <2>1. j \in Nat \ {0} /\ ~(i <= j)
    BY <1>3
  <2>2. j \notin S
    BY <1>2, <2>1
  <2> QED
    BY <1>0, <2>1, <2>2
<1>5. CASE i > Len(a) /\ i > Len(b)
  <2>1. Len(a) = i - 1 /\ Len(b) = i - 1
    <3>1. ~(Len(a) + 1 < i) /\ ~(Len(b) + 1 < i)
      <4>1. Len(b) + 1 \in S
        BY <1>0
      <4> QED
        BY <1>0, <1>1, <1>2, <1>3, <4>1
    <3> QED
      BY <1>0, <1>3, <1>5, <3>1
  <2>2. a = b
    BY <1>0, <1>4, <2>1
  <2> QED
    BY <2>2
<1>6. CASE i > Len(a) /\ i <= Len(b)
  <2>1. i \in DOMAIN b /\ i \notin DOMAIN a
    BY <1>0, <1>3, <1>6
  <2> QED
    BY <1>4, <2>1 DEF StringLess
<1>7. CASE i <= Len(a) /\ i > Len(b)
  <2>1. i \in DOMAIN a /\ i \notin DOMAIN b
    BY <1>0, <1>3, <1>7
  <2> QED
    BY <1>4, <2>1 DEF StringLess
<1>8. CASE i <= Len(a) /\ i <= Len(b)
  <2>1. i \in DOMAIN a /\ i \in DOMAIN b /\ a[i] # b[i]
    BY <1>0, <1>2, <1>3, <1>8
  <2>2. a[i] < b[i] \/ b[i] < a[i]
    BY <1>0, <2>1
  <2>3. CASE a[i] < b[i]
    BY <1>4, <2>1, <2>3 DEF StringLess
  <2>4. CASE b[i] < a[i]
    BY <1>4, <2>1, <2>4 DEF StringLess
  <2> QED
    BY <2>2, <2>3, <2>4
<1> QED
  BY <1>0, <1>3, <1>5, <1>6, <1>7, <1>8

\* The order of two fields in semver 2.0.0 is total, and order_field has it.
LEMMA IdentifierOrder ==
  ASSUME NEW a, NEW b, IsField(a), IsField(b)
  PROVE  /\ ~(IdentifierLess(a, b) /\ IdentifierLess(b, a))
         /\ a # b => IdentifierLess(a, b) \/ IdentifierLess(b, a)
         /\ order_field(a, b) =
              IF IdentifierLess(a, b) THEN -1 ELSE IF IdentifierLess(b, a) THEN 1 ELSE 0
<1>0. /\ a \in Seq(Int) /\ b \in Seq(Int)
      /\ AllDigits(a) <=> is_nat(a)
      /\ AllDigits(b) <=> is_nat(b)
  BY DEF IsField, is_nat
<1>1. CASE is_nat(a) /\ is_nat(b)
  <2>1. a \in Nats /\ b \in Nats
    BY <1>0, <1>1, DigitsAreNumbers DEF Nats
  <2> DEFINE m == Value(a, 10)  n == Value(b, 10)
  <2>2. m \in Nat /\ n \in Nat
    BY <2>1, NatsType
  <2>3. m <= MaxInt /\ n <= MaxInt
    BY <1>0, <1>1 DEF IsField
  <2>4. m = n => a = b
    BY <2>1, ValueDetermines
  <2>5. order_field(a, b) = order_nat(a, b)
    BY <1>1 DEF order_field
  <2>6. order_nat(a, b) = IF m > MaxInt \/ n > MaxInt \/ m = n THEN 0 ELSE IF m < n THEN -1 ELSE 1
    BY DEF order_nat
  <2>7. (IdentifierLess(a, b) <=> m < n) /\ (IdentifierLess(b, a) <=> n < m)
    BY <1>0, <1>1 DEF IdentifierLess
  <2> HIDE DEF m, n
  <2> QED
    BY <2>2, <2>3, <2>4, <2>5, <2>6, <2>7, MaxIntAssumption
<1>2. CASE is_nat(a) /\ ~is_nat(b)
  <2>1. order_field(a, b) = -1 /\ IdentifierLess(a, b) /\ ~IdentifierLess(b, a)
    BY <1>0, <1>2 DEF order_field, IdentifierLess
  <2> QED
    BY <2>1
<1>3. CASE ~is_nat(a) /\ is_nat(b)
  <2>1. order_field(a, b) = 1 /\ IdentifierLess(b, a) /\ ~IdentifierLess(a, b)
    BY <1>0, <1>3 DEF order_field, IdentifierLess
  <2> QED
    BY <2>1
<1>4. CASE ~is_nat(a) /\ ~is_nat(b)
  <2>1. order_field(a, b) = order_string(a, b)
    BY <1>4 DEF order_field
  <2>2. /\ IdentifierLess(a, b) <=> StringLess(a, b)
        /\ IdentifierLess(b, a) <=> StringLess(b, a)
    BY <1>0, <1>4 DEF IdentifierLess
  <2>3. ~(StringLess(a, b) /\ StringLess(b, a))
    BY <1>0, StringLessAsymmetric
  <2>4. a # b => StringLess(a, b) \/ StringLess(b, a)
    BY <1>0, StringLessTotal
  <2> QED
    BY <2>1, <2>2, <2>3, <2>4 DEF order_string
<1> QED
  BY <1>1, <1>2, <1>3, <1>4, Zenon

\* A list of fields, as the array of compare_fields.
IsFields(l) == l \in Seq(Seq(Int)) /\ \A i \in DOMAIN l : IsField(l[i])

\* compare_fields has the order of lists of fields in semver 2.0.0.
LEMMA FieldsCompare ==
  ASSUME NEW l, NEW r, IsFields(l), IsFields(r)
  PROVE  compare_fields(l, r) = IF PreLess(l, r) THEN -1 ELSE IF PreLess(r, l) THEN 1 ELSE 0
<1> DEFINE i == Min(Decided(l, r))
<1>0. /\ DOMAIN l = 1..Len(l) /\ DOMAIN r = 1..Len(r) /\ Len(l) \in Nat /\ Len(r) \in Nat
      /\ l \in Seq(Seq(Int)) /\ r \in Seq(Seq(Int))
  BY DEF IsFields
<1>1. i \in Decided(l, r) /\ \A j \in Decided(l, r) : i <= j
  <2>1. Decided(l, r) \in SUBSET Nat
    BY DEF Decided
  <2>2. Len(l) + 1 \in Decided(l, r)
    BY <1>0 DEF Decided
  <2>3. \E m \in Decided(l, r) : \A j \in Decided(l, r) : m <= j
    BY <2>1, <2>2, LeastNumber
  <2>4. i = CHOOSE m \in Decided(l, r) : \A j \in Decided(l, r) : m <= j
    BY DEF Min
  <2> QED
    BY <2>3, <2>4
<1>2. compare_fields(l, r) =
        IF i > Len(l) /\ i > Len(r) THEN 0
        ELSE IF i > Len(l) THEN -1
        ELSE IF i > Len(r) THEN 1
        ELSE order_field(l[i], r[i])
  BY DEF compare_fields
<1> HIDE DEF i
<1>3. i \in 1..(Len(l) + 1)
  BY <1>1 DEF Decided
\* Before the turn that decides, the fields are there and are the same.
<1>4. ASSUME NEW j \in 1..(i - 1)
      PROVE  j \in DOMAIN l /\ j \in DOMAIN r /\ l[j] = r[j]
  <2>1. j \in 1..(Len(l) + 1) /\ j \in Int /\ ~(i <= j)
    BY <1>0, <1>3
  <2>2. j \notin Decided(l, r)
    BY <1>1, <2>1
  <2>3. j <= Len(l) /\ j <= Len(r) /\ order_field(l[j], r[j]) = 0
    BY <1>0, <2>1, <2>2 DEF Decided
  <2>4. j \in DOMAIN l /\ j \in DOMAIN r
    BY <1>0, <2>1, <2>3
  <2>5. IsField(l[j]) /\ IsField(r[j])
    BY <2>4 DEF IsFields
  <2>6. l[j] = r[j]
    BY <2>3, <2>5, IdentifierOrder
  <2> QED
    BY <2>4, <2>6
\* A list is not below another that agrees with it up to the turn i.
<1>5. ASSUME NEW p, NEW q, IsFields(p), IsFields(q),
             \A j \in 1..(i - 1) : j \in DOMAIN p /\ p[j] = q[j],
             i \in DOMAIN q => i \in DOMAIN p /\ IdentifierLess(q[i], p[i])
      PROVE  ~PreLess(p, q)
  <2> SUFFICES ASSUME NEW k \in DOMAIN q,
                      \A j \in 1..(k - 1) : j \in DOMAIN p /\ p[j] = q[j],
                      k \in DOMAIN p => IdentifierLess(p[k], q[k])
               PROVE  FALSE
    BY DEF PreLess
  <2>1. k \in Nat \ {0} /\ DOMAIN q = 1..Len(q) /\ Len(q) \in Nat
    BY <1>5 DEF IsFields
  <2>2. CASE k < i
    <3>1. k \in 1..(i - 1)
      BY <1>0, <1>3, <2>1, <2>2
    <3>2. k \in DOMAIN p /\ p[k] = q[k] /\ IsField(p[k])
      BY <1>5, <3>1 DEF IsFields
    <3>3. IdentifierLess(p[k], p[k])
      BY <3>2
    <3> QED
      BY <3>2, <3>3, IdentifierOrder
  <2>3. CASE k = i
    <3>1. k \in DOMAIN p /\ IsField(p[k]) /\ IsField(q[k])
      BY <1>5, <2>3 DEF IsFields
    <3>2. IdentifierLess(p[k], q[k]) /\ IdentifierLess(q[k], p[k])
      BY <1>5, <2>3, <3>1
    <3> QED
      BY <3>1, <3>2, IdentifierOrder
  <2>4. CASE k > i
    <3>1. i \in 1..(k - 1) /\ i \in DOMAIN q
      BY <1>0, <1>3, <2>1, <2>4
    <3>2. i \in DOMAIN p /\ p[i] = q[i] /\ IsField(p[i]) /\ IdentifierLess(q[i], p[i])
      BY <1>5, <3>1 DEF IsFields
    <3> QED
      BY <3>2, IdentifierOrder
  <2> QED
    BY <1>0, <1>3, <2>1, <2>2, <2>3, <2>4
<1>6. CASE i > Len(l) /\ i > Len(r)
  <2>1. i \notin DOMAIN l /\ i \notin DOMAIN r
    BY <1>0, <1>3, <1>6
  <2>2. ~PreLess(l, r) /\ ~PreLess(r, l)
    BY <1>4, <1>5, <2>1
  <2> QED
    BY <1>2, <1>6, <2>2
<1>7. CASE i > Len(l) /\ ~(i > Len(r))
  <2>1. i \notin DOMAIN l /\ i \in DOMAIN r
    BY <1>0, <1>3, <1>7
  <2>2. PreLess(l, r)
    BY <1>4, <2>1 DEF PreLess
  <2> QED
    BY <1>2, <1>7, <2>2
<1>8. CASE ~(i > Len(l)) /\ i > Len(r)
  <2>1. i \in DOMAIN l /\ i \notin DOMAIN r
    BY <1>0, <1>3, <1>8
  <2>2. PreLess(r, l)
    BY <1>4, <2>1 DEF PreLess
  <2>3. ~PreLess(l, r)
    BY <1>4, <1>5, <2>1
  <2> QED
    BY <1>2, <1>8, <2>2, <2>3
<1>9. CASE ~(i > Len(l)) /\ ~(i > Len(r))
  <2>1. i \in DOMAIN l /\ i \in DOMAIN r
    BY <1>0, <1>3, <1>9
  <2>2. IsField(l[i]) /\ IsField(r[i])
    BY <2>1 DEF IsFields
  <2>3. compare_fields(l, r) = order_field(l[i], r[i]) /\ order_field(l[i], r[i]) # 0
    BY <1>1, <1>2, <1>9 DEF Decided
  <2>4. CASE IdentifierLess(l[i], r[i])
    <3>1. PreLess(l, r)
      BY <1>4, <2>1, <2>4 DEF PreLess
    <3> QED
      BY <2>2, <2>3, <2>4, <3>1, IdentifierOrder
  <2>5. CASE ~IdentifierLess(l[i], r[i])
    <3>1. IdentifierLess(r[i], l[i]) /\ order_field(l[i], r[i]) = 1
      BY <2>2, <2>3, <2>5, IdentifierOrder
    <3>2. PreLess(r, l)
      BY <1>4, <2>1, <3>1 DEF PreLess
    <3>3. ~PreLess(l, r)
      BY <1>4, <1>5, <2>1, <3>1
    <3> QED
      BY <2>3, <3>1, <3>2, <3>3
  <2> QED
    BY <2>4, <2>5
<1> QED
  BY <1>6, <1>7, <1>8, <1>9, Zenon

\* The numbers of a version, as compare_version has them.
Numbers(c) == [i \in 1..3 |-> Decimal[c[i]]]

\* The numbers of a version are fields.
LEMMA NumberField ==
  ASSUME NEW n \in Nat, n <= MaxInt
  PROVE  IsField(Decimal[n]) /\ AllDigits(Decimal[n])
<1>1. Decimal[n] \in Nats /\ Value(Decimal[n], 10) = n
  BY DecimalIsANumber
<1>2. Decimal[n] \in Seq(Int) /\ is_nat(Decimal[n])
  BY <1>1 DEF Nats, Digit
<1> QED
  BY <1>1, <1>2 DEF IsField, is_nat

\* compare_fields has the order of major, minor and patch.
LEMMA NumbersCompare ==
  ASSUME NEW c \in Nat \X Nat \X Nat, NEW d \in Nat \X Nat \X Nat,
         \A i \in 1..3 : c[i] <= MaxInt /\ d[i] <= MaxInt
  PROVE  compare_fields(Numbers(c), Numbers(d)) =
           IF CoreLess(c, d) THEN -1 ELSE IF CoreLess(d, c) THEN 1 ELSE 0
<1> DEFINE l == Numbers(c)  r == Numbers(d)
<1>1. \A i \in 1..3 : c[i] \in Nat /\ d[i] \in Nat /\ c[i] <= MaxInt /\ d[i] <= MaxInt
  OBVIOUS
<1>2. DOMAIN l = 1..3 /\ DOMAIN r = 1..3 /\ \A i \in 1..3 : l[i] = Decimal[c[i]] /\ r[i] = Decimal[d[i]]
  BY DEF Numbers
<1>3. IsFields(l) /\ IsFields(r)
  <2>1. \A i \in 1..3 : IsField(l[i]) /\ IsField(r[i])
    BY <1>1, <1>2, NumberField
  <2>2. l \in [1..3 -> Seq(Int)] /\ r \in [1..3 -> Seq(Int)]
    BY <2>1 DEF IsField, Numbers
  <2>3. l \in Seq(Seq(Int)) /\ r \in Seq(Seq(Int))
    <3>1. Seq(Seq(Int)) = UNION {[1..n -> Seq(Int)] : n \in Nat}
      BY SeqDef, Zenon
    <3>2. [1..3 -> Seq(Int)] \subseteq Seq(Seq(Int))
      BY <3>1, 3 \in Nat, Zenon
    <3> QED
      BY <2>2, <3>2, Zenon
  <2> QED
    BY <1>2, <2>1, <2>3 DEF IsFields
<1>4. \A m, n \in Nat : m <= MaxInt /\ n <= MaxInt =>
        /\ IdentifierLess(Decimal[m], Decimal[n]) <=> m < n
        /\ Decimal[m] = Decimal[n] <=> m = n
  <2> SUFFICES ASSUME NEW m \in Nat, NEW n \in Nat, m <= MaxInt, n <= MaxInt
               PROVE  /\ IdentifierLess(Decimal[m], Decimal[n]) <=> m < n
                      /\ Decimal[m] = Decimal[n] <=> m = n
    OBVIOUS
  <2>1. Value(Decimal[m], 10) = m /\ Value(Decimal[n], 10) = n
    BY DecimalIsANumber
  <2>2. AllDigits(Decimal[m]) /\ AllDigits(Decimal[n])
    BY NumberField
  <2>3. IdentifierLess(Decimal[m], Decimal[n]) <=> m < n
    BY <2>1, <2>2 DEF IdentifierLess
  <2> QED
    BY <2>1, <2>3
<1> HIDE DEF l, r
<1>5. ASSUME NEW p, NEW q, NEW a \in Nat \X Nat \X Nat, NEW b \in Nat \X Nat \X Nat,
             DOMAIN p = 1..3, DOMAIN q = 1..3,
             \A i \in 1..3 : /\ a[i] = b[i] <=> p[i] = q[i]
                             /\ IdentifierLess(p[i], q[i]) <=> a[i] < b[i]
      PROVE  PreLess(p, q) <=> CoreLess(a, b)
  <2>1. PreLess(p, q) <=> \E i \in 1..3 : /\ \A j \in 1..(i - 1) : a[j] = b[j]
                                          /\ a[i] < b[i]
    <3>1. \A i \in 1..3 : \A j \in 1..(i - 1) : j \in 1..3
      OBVIOUS
    <3>2. PreLess(p, q) <=> \E i \in 1..3 : /\ \A j \in 1..(i - 1) : p[j] = q[j]
                                            /\ IdentifierLess(p[i], q[i])
      BY <1>5, <3>1, Zenon DEF PreLess
    <3> QED
      BY <1>5, <3>1, <3>2, Zenon
  <2>2. (\E i \in 1..3 : /\ \A j \in 1..(i - 1) : a[j] = b[j]
                         /\ a[i] < b[i]) <=> CoreLess(a, b)
    BY DEF CoreLess
  <2> QED
    BY <2>1, <2>2
<1>6. PreLess(l, r) <=> CoreLess(c, d)
  BY <1>1, <1>2, <1>4, <1>5
<1>7. PreLess(r, l) <=> CoreLess(d, c)
  BY <1>1, <1>2, <1>4, <1>5
<1>8. compare_fields(l, r) = IF PreLess(l, r) THEN -1 ELSE IF PreLess(r, l) THEN 1 ELSE 0
  BY <1>3, FieldsCompare
<1> QED
  BY <1>6, <1>7, <1>8 DEF l, r

\* and along chains.
LEMMA StringLessTransitive ==
  ASSUME NEW a \in Seq(Int), NEW b \in Seq(Int), NEW c \in Seq(Int),
         StringLess(a, b), StringLess(b, c)
  PROVE  StringLess(a, c)
<1>1. PICK i \in DOMAIN b :
        /\ \A j \in 1..(i - 1) : j \in DOMAIN a /\ a[j] = b[j]
        /\ i \in DOMAIN a => a[i] < b[i]
  BY DEF StringLess
<1>2. PICK k \in DOMAIN c :
        /\ \A j \in 1..(k - 1) : j \in DOMAIN b /\ b[j] = c[j]
        /\ k \in DOMAIN b => b[k] < c[k]
  BY DEF StringLess
<1>3. /\ DOMAIN b = 1..Len(b) /\ DOMAIN c = 1..Len(c) /\ Len(b) \in Nat /\ Len(c) \in Nat
      /\ i \in 1..Len(b) /\ k \in 1..Len(c)
      /\ \A j \in DOMAIN a : a[j] \in Int
      /\ \A j \in DOMAIN b : b[j] \in Int
      /\ \A j \in DOMAIN c : c[j] \in Int
  OBVIOUS
<1>4. CASE i < k
  <2>1. i \in 1..(k - 1) /\ i \in DOMAIN c /\ b[i] = c[i]
    BY <1>2, <1>3, <1>4
  <2>2. ASSUME NEW j \in 1..(i - 1) PROVE j \in DOMAIN a /\ a[j] = c[j]
    <3>1. j \in 1..(k - 1)
      BY <1>3, <1>4
    <3> QED
      BY <1>1, <1>2, <3>1
  <2>3. i \in DOMAIN a => a[i] < c[i]
    BY <1>1, <2>1
  <2> QED
    BY <2>1, <2>2, <2>3 DEF StringLess
<1>5. CASE ~(i < k)
  <2>1. ASSUME NEW j \in 1..(k - 1) PROVE j \in DOMAIN a /\ a[j] = c[j]
    <3>1. j \in 1..(i - 1)
      BY <1>3, <1>5
    <3> QED
      BY <1>1, <1>2, <3>1
  <2>2. ASSUME k \in DOMAIN a PROVE a[k] < c[k]
    <3>1. CASE k = i
      BY <1>1, <1>2, <1>3, <2>2, <3>1
    <3>2. CASE k # i
      <4>1. k \in 1..(i - 1) /\ k \in DOMAIN b
        BY <1>3, <1>5, <3>2
      <4>2. a[k] = b[k] /\ b[k] < c[k]
        BY <1>1, <1>2, <4>1
      <4> QED
        BY <4>2
    <3> QED
      BY <3>1, <3>2
  <2> QED
    BY <2>1, <2>2 DEF StringLess
<1> QED
  BY <1>4, <1>5

\* The order of fields is transitive.
LEMMA IdentifierTransitive ==
  ASSUME NEW a, NEW b, NEW c, IsField(a), IsField(b), IsField(c),
         IdentifierLess(a, b), IdentifierLess(b, c)
  PROVE  IdentifierLess(a, c)
<1>1. a \in Seq(Int) /\ b \in Seq(Int) /\ c \in Seq(Int)
  BY DEF IsField
<1>2. CASE AllDigits(a) /\ AllDigits(b) /\ AllDigits(c)
  <2>1. a \in Seq(Nat) /\ b \in Seq(Nat) /\ c \in Seq(Nat)
    BY <1>1, <1>2, DigitsAreNumbers
  <2>2. Value(a, 10) \in Nat /\ Value(b, 10) \in Nat /\ Value(c, 10) \in Nat
    BY <2>1, ValueType
  <2>3. Value(a, 10) < Value(b, 10) /\ Value(b, 10) < Value(c, 10)
    BY <1>2 DEF IdentifierLess
  <2>4. Value(a, 10) < Value(c, 10)
    BY <2>2, <2>3
  <2> QED
    BY <1>2, <2>4 DEF IdentifierLess
<1>3. CASE ~AllDigits(a)
  <2>1. ~AllDigits(b) /\ StringLess(a, b)
    BY <1>3 DEF IdentifierLess
  <2>2. ~AllDigits(c) /\ StringLess(b, c)
    BY <2>1 DEF IdentifierLess
  <2>3. StringLess(a, c)
    BY <1>1, <2>1, <2>2, StringLessTransitive
  <2> QED
    BY <1>3, <2>2, <2>3 DEF IdentifierLess
<1>4. CASE AllDigits(a) /\ ~(AllDigits(b) /\ AllDigits(c))
  <2>1. ~AllDigits(c)
    BY <1>4 DEF IdentifierLess
  <2> QED
    BY <1>4, <2>1 DEF IdentifierLess
<1> QED
  BY <1>2, <1>3, <1>4

\* The order of lists of fields is transitive.
LEMMA PreLessTransitive ==
  ASSUME NEW p, NEW q, NEW r, IsFields(p), IsFields(q), IsFields(r),
         PreLess(p, q), PreLess(q, r)
  PROVE  PreLess(p, r)
<1>1. PICK i \in DOMAIN q :
        /\ \A j \in 1..(i - 1) : j \in DOMAIN p /\ p[j] = q[j]
        /\ i \in DOMAIN p => IdentifierLess(p[i], q[i])
  BY DEF PreLess
<1>2. PICK k \in DOMAIN r :
        /\ \A j \in 1..(k - 1) : j \in DOMAIN q /\ q[j] = r[j]
        /\ k \in DOMAIN q => IdentifierLess(q[k], r[k])
  BY DEF PreLess
<1>3. /\ DOMAIN q = 1..Len(q) /\ DOMAIN r = 1..Len(r) /\ Len(q) \in Nat /\ Len(r) \in Nat
      /\ i \in 1..Len(q) /\ k \in 1..Len(r)
  BY DEF IsFields
<1>4. CASE i < k
  <2>1. i \in 1..(k - 1) /\ i \in DOMAIN r /\ q[i] = r[i]
    BY <1>2, <1>3, <1>4
  <2>2. ASSUME NEW j \in 1..(i - 1) PROVE j \in DOMAIN p /\ p[j] = r[j]
    <3>1. j \in 1..(k - 1)
      BY <1>3, <1>4
    <3> QED
      BY <1>1, <1>2, <3>1
  <2>3. i \in DOMAIN p => IdentifierLess(p[i], r[i])
    BY <1>1, <2>1
  <2> QED
    BY <2>1, <2>2, <2>3 DEF PreLess
<1>5. CASE ~(i < k)
  <2>1. ASSUME NEW j \in 1..(k - 1) PROVE j \in DOMAIN p /\ p[j] = r[j]
    <3>1. j \in 1..(i - 1)
      BY <1>3, <1>5
    <3> QED
      BY <1>1, <1>2, <3>1
  <2>2. ASSUME k \in DOMAIN p PROVE IdentifierLess(p[k], r[k])
    <3>1. CASE k = i
      <4>1. IsField(p[k]) /\ IsField(q[k]) /\ IsField(r[k])
        BY <2>2, <3>1 DEF IsFields
      <4> QED
        BY <1>1, <1>2, <2>2, <3>1, <4>1, IdentifierTransitive
    <3>2. CASE k # i
      <4>1. k \in 1..(i - 1) /\ k \in DOMAIN q
        BY <1>3, <1>5, <3>2
      <4> QED
        BY <1>1, <1>2, <4>1
    <3> QED
      BY <3>1, <3>2
  <2> QED
    BY <2>1, <2>2 DEF PreLess
<1> QED
  BY <1>4, <1>5

\* No list of fields is below one that is below it: two of them would
\* be ordered both ways, or one below itself.
LEMMA FieldsDisagree ==
  ASSUME NEW p, NEW q, IsFields(p), IsFields(q), PreLess(p, q), PreLess(q, p)
  PROVE  FALSE
<1>1. PreLess(p, p)
  BY PreLessTransitive
<1>2. PICK i \in DOMAIN p : i \in DOMAIN p => IdentifierLess(p[i], p[i])
  BY <1>1 DEF PreLess
<1>3. IsField(p[i])
  BY DEF IsFields
<1> QED
  BY <1>2, <1>3, IdentifierOrder
-----------------------------------------------------------------------------
(* Versions, their fields and their order.                                 *)

\* The fields of a pre-release are sequences of characters.
LEMMA FieldsType ==
  ASSUME NEW s \in Seq(Int)
  PROVE  Fields(s) \in Seq(Seq(Int))
<1> DEFINE T == Seq(Seq(Int)) \ {<<>>}
           N == Len(s)
           More(w, c) == IF c = Dot THEN Append(w, <<>>)
                         ELSE [w EXCEPT ![Len(w)] = Append(@, c)]
           Loop(f) == f = [n \in 0..N |-> IF n = 0 THEN <<<<>>>>
                                          ELSE IF s[n] = Dot THEN Append(f[n - 1], <<>>)
                                          ELSE [f[n - 1] EXCEPT ![Len(f[n - 1])] = Append(@, s[n])]]
           step == [p \in Nat \X T |-> IF p[1] + 1 \in 1..N THEN More(p[2], s[p[1] + 1]) ELSE p[2]]
<1>0. N \in Nat /\ \A i \in 1..N : s[i] \in Int
  OBVIOUS
<1>1. <<<<>>>> \in T
  OBVIOUS
<1>2. ASSUME NEW w \in T, NEW c \in Int PROVE More(w, c) \in T
  <2>1. w \in Seq(Seq(Int)) /\ w # <<>> /\ Len(w) \in 1..Len(w) /\ w[Len(w)] \in Seq(Int)
    OBVIOUS
  <2>2. CASE c = Dot
    <3>1. <<>> \in Seq(Int)
      OBVIOUS
    <3>2. Append(w, <<>>) \in Seq(Seq(Int)) /\ Append(w, <<>>) # <<>>
      BY <2>1, <3>1, AppendProperties
    <3> QED
      BY <2>2, <3>2
  <2>3. CASE c # Dot
    <3> DEFINE x == Append(w[Len(w)], c)
               v == [w EXCEPT ![Len(w)] = x]
    <3>1. x \in Seq(Int)
      BY <2>1
    <3> HIDE DEF x
    <3>2. v \in Seq(Seq(Int)) /\ Len(v) = Len(w)
      BY <2>1, <3>1
    <3>3. v # <<>>
      BY <2>1, <3>2
    <3>4. More(w, c) = v
      BY <2>3 DEF x
    <3> QED
      BY <3>2, <3>3, <3>4
  <2> QED
    BY <2>2, <2>3
<1> HIDE DEF More, T
<1>3. step \in [Nat \X T -> T]
  <2>1. ASSUME NEW x \in Nat, NEW w \in T
        PROVE  (IF x + 1 \in 1..N THEN More(w, s[x + 1]) ELSE w) \in T
    BY <1>0, <1>2
  <2> QED
    BY <2>1
<1>4. \A x \in Nat, w \in T : x + 1 \in 1..N => step[x, w] = More(w, s[x + 1])
  OBVIOUS
<1> HIDE DEF step
<1>5. PICK f : IsLoop(f, T, <<<<>>>>, step, N)
  BY <1>0, <1>1, <1>3, LoopHasARun
<1>6. f \in [0..N -> T] /\ f[0] = <<<<>>>>
  BY <1>5 DEF IsLoop
<1>7. \A m \in 0..(N - 1) : f[m + 1] = step[m, f[m]]
  BY <1>5 DEF IsLoop
<1>8. Loop(f)
  <2>1. ASSUME NEW n \in 0..N
        PROVE  f[n] = IF n = 0 THEN <<<<>>>> ELSE More(f[n - 1], s[n])
    <3>1. CASE n = 0
      BY <1>6, <3>1
    <3>2. CASE n # 0
      <4>1. n - 1 \in 0..(N - 1) /\ (n - 1) + 1 = n /\ n \in 1..N /\ n - 1 \in Nat /\ f[n - 1] \in T
        BY <1>0, <1>6, <3>2
      <4>2. f[n] = step[n - 1, f[n - 1]]
        BY <1>7, <4>1
      <4> QED
        BY <1>4, <3>2, <4>1, <4>2
    <3> QED
      BY <3>1, <3>2
  <2>2. f = [n \in 0..N |-> f[n]]
    BY <1>6
  <2>3. f = [n \in 0..N |-> IF n = 0 THEN <<<<>>>> ELSE More(f[n - 1], s[n])]
    BY <2>1, <2>2
  <2> QED
    BY <2>3, Zenon DEF More
<1> DEFINE upto == CHOOSE g : Loop(g)
<1>9. Fields(s) = upto[N]
  BY DEF Fields
<1>10. Loop(upto)
  BY <1>8, Zenon
<1> HIDE DEF upto
<1>11. upto[0] = <<<<>>>> /\ \A n \in 1..N : upto[n] = More(upto[n - 1], s[n])
  <2>1. upto = [n \in 0..N |-> IF n = 0 THEN <<<<>>>> ELSE More(upto[n - 1], s[n])]
    BY <1>10, Zenon DEF More
  <2>2. \A n \in 0..N : upto[n] = IF n = 0 THEN <<<<>>>> ELSE More(upto[n - 1], s[n])
    BY <2>1, Zenon
  <2>3. 0 \in 0..N /\ \A n \in 1..N : n \in 0..N /\ n # 0
    BY <1>0
  <2> QED
    BY <2>2, <2>3, Zenon
<1> DEFINE S == {n \in Nat : n <= N => upto[n] \in T}
<1>12. 0 \in S
  BY <1>1, <1>11
<1>13. ASSUME NEW n \in Nat, n \in S PROVE n + 1 \in S
  <2> SUFFICES ASSUME n + 1 <= N PROVE upto[n + 1] \in T
    OBVIOUS
  <2>1. n + 1 \in 1..N /\ (n + 1) - 1 = n /\ upto[n] \in T /\ s[n + 1] \in Int
    BY <1>0, <1>13
  <2>2. upto[n + 1] = More(upto[n], s[n + 1])
    BY <1>11, <2>1
  <2> QED
    BY <1>2, <2>1, <2>2
<1> HIDE DEF S
<1>14. N \in S
  BY <1>0, <1>12, <1>13, SetInduction
<1>15. upto[N] \in T
  BY <1>0, <1>14 DEF S
<1> QED
  BY <1>9, <1>15 DEF T

\* The fields of a version of the usage text.
LEMMA CanonicalFields ==
  ASSUME NEW v, IsVersion(v), Canonical(v), v.pre # <<>>
  PROVE  IsFields(Fields(v.pre))
<1>1. Fields(v.pre) \in Seq(Seq(Int))
  BY FieldsType DEF IsVersion
<1>2. \A k \in DOMAIN Fields(v.pre) : Fields(v.pre)[k] \in Seq(Int)
  BY <1>1
<1> QED
  BY <1>1, <1>2, Zenon DEF Canonical, IsFields, IsField

\* compare prints the precedence of semver 2.0.0 for every two versions of
\* the usage text: numbers by value, names by ASCII, numbers below names, a
\* longer list of fields above its prefix, a release above its pre-releases.
THEOREM CompareIsPrecedence ==
  ASSUME NEW v, NEW w, IsVersion(v), IsVersion(w), Canonical(v), Canonical(w)
  PROVE  compare_version(v, w) =
           IF Precedes(v, w) THEN -1 ELSE IF Precedes(w, v) THEN 1 ELSE 0
<1> DEFINE core == compare_fields(Numbers(v.core), Numbers(w.core))
           pre  == compare_fields(Fields(v.pre), Fields(w.pre))
<1>1. compare_version(v, w) =
        IF core # 0 THEN core
        ELSE IF v.pre = <<>> /\ w.pre = <<>> THEN 0
        ELSE IF v.pre = <<>> THEN 1
        ELSE IF w.pre = <<>> THEN -1
        ELSE pre
  BY DEF compare_version, Numbers
<1>2. v.core \in Core /\ w.core \in Core /\ v.pre \in Seq(Int) /\ w.pre \in Seq(Int)
  BY DEF IsVersion
<1>3. \A i \in 1..3 : v.core[i] <= MaxInt /\ w.core[i] <= MaxInt
  BY DEF Canonical
<1>4. core = IF CoreLess(v.core, w.core) THEN -1 ELSE IF CoreLess(w.core, v.core) THEN 1 ELSE 0
  BY <1>2, <1>3, NumbersCompare DEF Core
<1>5. v.pre # <<>> /\ w.pre # <<>> =>
        /\ pre = IF PreLess(Fields(v.pre), Fields(w.pre)) THEN -1
                 ELSE IF PreLess(Fields(w.pre), Fields(v.pre)) THEN 1 ELSE 0
  <2> SUFFICES ASSUME v.pre # <<>>, w.pre # <<>>
               PROVE  pre = IF PreLess(Fields(v.pre), Fields(w.pre)) THEN -1
                            ELSE IF PreLess(Fields(w.pre), Fields(v.pre)) THEN 1 ELSE 0
    OBVIOUS
  <2>2. IsFields(Fields(v.pre)) /\ IsFields(Fields(w.pre))
    BY CanonicalFields
  <2> QED
    BY <2>2, FieldsCompare
<1>6. /\ ~(CoreLess(v.core, w.core) /\ CoreLess(w.core, v.core))
      /\ CoreLess(v.core, w.core) \/ CoreLess(w.core, v.core) \/ v.core = w.core
      /\ v.core = w.core => ~CoreLess(v.core, w.core) /\ ~CoreLess(w.core, v.core)
  <2>1. \A c, d \in Core : /\ ~(CoreLess(c, d) /\ CoreLess(d, c))
                           /\ CoreLess(c, d) \/ CoreLess(d, c) \/ c = d
                           /\ ~CoreLess(c, c)
    BY DEF Core, CoreLess
  <2> QED
    BY <1>2, <2>1
<1> HIDE DEF core, pre
<1>7. CASE CoreLess(v.core, w.core)
  BY <1>1, <1>4, <1>7 DEF Precedes
<1>8. CASE CoreLess(w.core, v.core)
  <2>1. ~Precedes(v, w) /\ Precedes(w, v)
    BY <1>6, <1>8 DEF Precedes
  <2> QED
    BY <1>1, <1>4, <1>6, <1>8, <2>1
<1>9. CASE v.core = w.core
  <2>1. core = 0
    BY <1>4, <1>6, <1>9
  <2>2. /\ Precedes(v, w) <=> v.pre # <<>> /\ (w.pre = <<>> \/ PreLess(Fields(v.pre), Fields(w.pre)))
        /\ Precedes(w, v) <=> w.pre # <<>> /\ (v.pre = <<>> \/ PreLess(Fields(w.pre), Fields(v.pre)))
    BY <1>6, <1>9 DEF Precedes
  <2>3. CASE v.pre = <<>> \/ w.pre = <<>>
    BY <1>1, <2>1, <2>2, <2>3
  <2>4. CASE v.pre # <<>> /\ w.pre # <<>>
    BY <1>1, <1>5, <2>1, <2>2, <2>4
  <2> QED
    BY <2>3, <2>4
<1> QED
  BY <1>6, <1>7, <1>8, <1>9

\* What compare prints is an order: it turns its sign when the versions
\* change places, and a chain of smaller versions stays a chain.
THEOREM CompareIsAnOrder ==
  ASSUME NEW u, NEW v, NEW w, IsVersion(u), IsVersion(v), IsVersion(w),
         Canonical(u), Canonical(v), Canonical(w)
  PROVE  /\ compare_version(u, v) = -compare_version(v, u)
         /\ compare_version(u, v) = -1 /\ compare_version(v, w) = -1
              => compare_version(u, w) = -1
<1>1. u.core \in Core /\ v.core \in Core /\ w.core \in Core
  BY DEF IsVersion
<1>2. \A c, d, e \in Core : CoreLess(c, d) /\ CoreLess(d, e) => CoreLess(c, e)
  BY DEF Core, CoreLess
<1>3. Precedes(u, v) /\ Precedes(v, w) => Precedes(u, w)
  <2> SUFFICES ASSUME Precedes(u, v), Precedes(v, w) PROVE Precedes(u, w)
    OBVIOUS
  <2>1. CASE CoreLess(u.core, v.core) \/ CoreLess(v.core, w.core)
    <3>1. CoreLess(u.core, w.core)
      BY <1>1, <1>2, <2>1 DEF Precedes
    <3> QED
      BY <3>1 DEF Precedes
  <2>2. CASE ~CoreLess(u.core, v.core) /\ ~CoreLess(v.core, w.core)
    <3>1. /\ u.core = v.core /\ v.core = w.core /\ u.pre # <<>> /\ v.pre # <<>>
          /\ PreLess(Fields(u.pre), Fields(v.pre))
          /\ w.pre = <<>> \/ PreLess(Fields(v.pre), Fields(w.pre))
      BY <2>2 DEF Precedes
    <3>2. w.pre = <<>> \/ PreLess(Fields(u.pre), Fields(w.pre))
      BY <3>1, CanonicalFields, PreLessTransitive
    <3> QED
      BY <3>1, <3>2 DEF Precedes
  <2> QED
    BY <2>1, <2>2
<1>4. ~(Precedes(u, v) /\ Precedes(v, u))
  <2>1. \A c, d \in Core : ~(CoreLess(c, d) /\ CoreLess(d, c)) /\ ~CoreLess(c, c)
    BY DEF Core, CoreLess
  <2> SUFFICES ASSUME Precedes(u, v), Precedes(v, u) PROVE FALSE
    OBVIOUS
  <2>2. /\ u.pre # <<>> /\ v.pre # <<>>
        /\ PreLess(Fields(u.pre), Fields(v.pre)) /\ PreLess(Fields(v.pre), Fields(u.pre))
    BY <1>1, <2>1 DEF Precedes
  <2>3. IsFields(Fields(u.pre)) /\ IsFields(Fields(v.pre))
    BY <2>2, CanonicalFields
  <2> QED
    BY <2>2, <2>3, FieldsDisagree
<1>5. /\ compare_version(u, v) = IF Precedes(u, v) THEN -1 ELSE IF Precedes(v, u) THEN 1 ELSE 0
      /\ compare_version(v, u) = IF Precedes(v, u) THEN -1 ELSE IF Precedes(u, v) THEN 1 ELSE 0
      /\ compare_version(v, w) = IF Precedes(v, w) THEN -1 ELSE IF Precedes(w, v) THEN 1 ELSE 0
      /\ compare_version(u, w) = IF Precedes(u, w) THEN -1 ELSE IF Precedes(w, u) THEN 1 ELSE 0
  BY CompareIsPrecedence
<1> QED
  BY <1>3, <1>4, <1>5
-----------------------------------------------------------------------------
(* Bumps.                                                                  *)

\* The number after the one at the end of a pre-release is one.
LEMMA IncrementType ==
  ASSUME NEW s \in Seq(Digit), s # <<>>
  PROVE  Increment(s) \in Seq(Int)
<1> DEFINE base == IF s[1] = 0 THEN 8 ELSE 10
<1>1. s \in Seq(Nat) /\ base \in Nat
  BY DEF Digit
<1>2. Value(s, base) + 1 \in Nat
  <2> HIDE DEF base
  <2>1. Value(s, base) \in Nat
    BY <1>1, ValueType
  <2> QED
    BY <2>1
<1>3. Decimal[Value(s, base) + 1] \in Seq(Int)
  <2>1. Decimal[Value(s, base) + 1] \in Seq(Digit)
    BY <1>2, DecimalIsANumber DEF Nats
  <2> QED
    BY <2>1 DEF Digit
<1>4. Increment(s) \in {<<>>, Decimal[Value(s, base) + 1]}
  BY DEF Increment
<1> HIDE DEF base
<1>5. <<>> \in Seq(Int)
  OBVIOUS
<1> QED
  BY <1>3, <1>4, <1>5

\* What a bump of a pre-release yields is a pre-release again.
LEMMA BumpPrerelType ==
  ASSUME NEW arg \in Seq(Int), NEW previous \in Seq(Int)
  PROVE  bump_prerel(arg, previous) \in Seq(Int)
<1> DEFINE Names   == {i \in DOMAIN previous : previous[i] \notin Digit}
           cut     == Max({0} \cup Names)
           prefix  == SubSeq(previous, 1, cut)
           numeric == SubSeq(previous, cut + 1, Len(previous))
           number  == IF numeric = <<>> THEN <<1>> ELSE Increment(numeric)
<1>0. Len(previous) \in Nat /\ DOMAIN previous = 1..Len(previous)
  OBVIOUS
<1>1. cut \in {0} \cup Names /\ \A i \in {0} \cup Names : cut >= i
  <2>1. {0} \cup Names \in SUBSET Nat
    BY <1>0
  <2>2. \A i \in {0} \cup Names : i <= Len(previous)
    BY <1>0
  <2>3. \E m \in {0} \cup Names : \A i \in {0} \cup Names : m >= i
    BY <1>0, <2>1, <2>2, GreatestNumber
  <2> HIDE DEF Names
  <2>4. cut = CHOOSE m \in {0} \cup Names : \A i \in {0} \cup Names : m >= i
    BY DEF Max
  <2> QED
    BY <2>3, <2>4
<1> HIDE DEF cut
<1>2. cut \in 0..Len(previous)
  BY <1>0, <1>1
<1>3. prefix \in Seq(Int)
  BY <1>0, <1>2, SubSeqProperties
<1>4. numeric \in Seq(Digit)
  <2>1. /\ numeric \in Seq(Int) /\ Len(numeric) = Len(previous) - cut
        /\ \A i \in 1..(Len(previous) - cut) : numeric[i] = previous[cut + i]
    <3>1. cut + 1 \in 1..(Len(previous) + 1) /\ Len(previous) \in ((cut + 1) - 1)..Len(previous)
      BY <1>0, <1>2
    <3>2. numeric \in Seq(Int)
      BY <3>1, SubSeqProperties
    <3>3. Len(numeric) = IF cut + 1 <= Len(previous) THEN Len(previous) - (cut + 1) + 1 ELSE 0
      BY <3>1, SubSeqProperties
    <3>4. \A i \in 1..(Len(previous) - (cut + 1) + 1) : numeric[i] = previous[(cut + 1) + i - 1]
      BY <3>1, SubSeqProperties
    <3> HIDE DEF numeric
    <3>5. Len(numeric) = Len(previous) - cut
      <4>1. CASE cut + 1 <= Len(previous)
        BY <1>0, <1>2, <3>3, <4>1
      <4>2. CASE ~(cut + 1 <= Len(previous))
        <5>1. cut = Len(previous)
          <6>1. \A n \in Nat : \A c \in 0..n : c + 1 <= n \/ c = n
            OBVIOUS
          <6> QED
            BY <1>0, <1>2, <4>2, <6>1, Zenon
        <5>2. Len(numeric) = 0
          BY <3>3, <4>2
        <5> QED
          BY <1>0, <5>1, <5>2
      <4> QED
        BY <4>1, <4>2
    <3>6. ASSUME NEW i \in 1..(Len(previous) - cut) PROVE numeric[i] = previous[cut + i]
      <4>1. i \in 1..(Len(previous) - (cut + 1) + 1) /\ (cut + 1) + i - 1 = cut + i
        BY <1>0, <1>2
      <4> QED
        BY <3>4, <4>1
    <3> QED
      BY <3>2, <3>5, <3>6
  <2>2. ASSUME NEW i \in DOMAIN numeric PROVE numeric[i] \in Digit
    <3>1. i \in 1..(Len(previous) - cut)
      BY <2>1
    <3>2. cut + i \in DOMAIN previous /\ ~(cut >= cut + i)
      BY <1>0, <1>2, <3>1
    <3>3. cut + i \notin Names
      BY <1>1, <3>2
    <3>4. numeric[i] = previous[cut + i]
      BY <2>1, <3>1
    <3> QED
      BY <3>2, <3>3, <3>4
  <2> HIDE DEF numeric
  <2> QED
    BY <2>1, <2>2, DigitsAreNumbers DEF AllDigits
<1> HIDE DEF numeric, prefix
<1>5. number \in Seq(Int)
  <2>1. <<1>> \in Seq(Int)
    OBVIOUS
  <2> QED
    BY <1>4, <2>1, IncrementType
<1> HIDE DEF number
<1>6. prefix \o number \in Seq(Int) /\ <<>> \in Seq(Int)
  BY <1>3, <1>5
<1>7. arg # <<>> => Append(Front(arg), 1) \in Seq(Int)
  <2> SUFFICES ASSUME arg # <<>> PROVE Append(Front(arg), 1) \in Seq(Int)
    OBVIOUS
  <2>1. Len(arg) \in Nat /\ Len(arg) >= 1
    OBVIOUS
  <2>2. SubSeq(arg, 1, Len(arg) - 1) \in Seq(Int)
    BY <2>1, SubSeqProperties
  <2> QED
    BY <2>2 DEF Front
<1>8. bump_prerel(arg, previous) =
        IF arg = <<>> \/ Last(arg) # Dot THEN arg
        ELSE IF arg # NoProto /\ prefix # Front(arg) THEN Append(Front(arg), 1)
        ELSE IF number = <<>> THEN <<>>
        ELSE prefix \o number
  BY DEF bump_prerel, number, numeric, prefix, cut
<1> QED
  BY <1>6, <1>7, <1>8

\* The empty output of a failed bump is not a version.
LEMMA EmptyHasNoCore == Empty.core \notin Core
BY DEF Empty, Core

\* The order of the numbers is transitive in the form used below.
LEMMA CoreLessTransitive ==
  ASSUME NEW c \in Core, NEW d \in Core, NEW e \in Core,
         ~CoreLess(d, c), ~CoreLess(e, d)
  PROVE  ~CoreLess(e, c)
BY DEF Core, CoreLess

\* A version without a pre-release.
LEMMA EmptyPre == <<>> \in Seq(Int)
OBVIOUS

\* A bump yields nothing, or a version whose numbers are not smaller.
LEMMA BumpGoesUp ==
  ASSUME NEW v, IsVersion(v), NEW command \in Command, NEW arg \in Seq(Int)
  PROVE  LET new == command_bump(command, arg, v)
         IN  \/ new = Empty
             \/ IsVersion(new) /\ ~CoreLess(new.core, v.core)
<1> DEFINE new == command_bump(command, arg, v)
<1>0. v # Empty
  BY EmptyHasNoCore DEF IsVersion
<1>1. PICK ma \in Nat, mi \in Nat, pa \in Nat : v.core = <<ma, mi, pa>>
  BY DEF Core, IsVersion
<1> HIDE DEF new
<1>2. CASE command = "major"
  <2>1. new = Plain(<<ma + 1, 0, 0>>)
    BY <1>0, <1>1, <1>2 DEF new, command_bump
  <2> QED
    BY <1>1, <2>1, EmptyPre DEF Core, CoreLess, IsVersion, Plain, new
<1>3. CASE command = "minor"
  <2>1. new = Plain(<<ma, mi + 1, 0>>)
    BY <1>0, <1>1, <1>3 DEF new, command_bump
  <2> QED
    BY <1>1, <2>1, EmptyPre DEF Core, CoreLess, IsVersion, Plain, new
<1>4. CASE command = "patch"
  <2>1. new = Plain(<<ma, mi, pa + 1>>)
    BY <1>0, <1>1, <1>4 DEF new, command_bump
  <2> QED
    BY <1>1, <2>1, EmptyPre DEF Core, CoreLess, IsVersion, Plain, new
<1>5. CASE command \in {"release", "prerel", "build"}
  <2>1. new = Empty \/ (IsVersion(new) /\ new.core = v.core)
    <3>1. CASE command = "release"
      BY <1>0, <3>1, EmptyPre DEF new, command_bump, Plain, IsVersion
    <3>2. CASE command = "prerel"
      <4> DEFINE pre == bump_prerel(arg, v.pre)
      <4>1. new = Empty \/ new = [core |-> v.core, pre |-> pre, build |-> FALSE]
        BY <1>0, <3>2 DEF new, command_bump, Plain
      <4>2. pre \in Seq(Int)
        BY BumpPrerelType DEF IsVersion
      <4> HIDE DEF pre
      <4> QED
        BY <4>1, <4>2 DEF IsVersion
    <3>3. CASE command = "build"
      <4>1. new = [v EXCEPT !.build = TRUE]
        BY <1>0, <3>3 DEF new, command_bump
      <4>2. new = [core |-> v.core, pre |-> v.pre, build |-> TRUE]
        BY <4>1 DEF IsVersion
      <4> QED
        BY <4>2 DEF IsVersion
    <3> QED
      BY <1>5, <3>1, <3>2, <3>3
  <2> QED
    BY <1>1, <2>1 DEF Core, CoreLess, new
<1> QED
  BY <1>2, <1>3, <1>4, <1>5 DEF Command, new
-----------------------------------------------------------------------------
\* The versions package.json may have in the beginning are versions.
LEMMA InitIndInv == Init => IndInv
<1> SUFFICES ASSUME Init PROVE IndInv
  OBVIOUS
<1>1. IsVersion(file)
  BY SemverAssumption DEF Init, IsVersion, Core
<1>2. highest \in Core /\ ~CoreLess(file.core, highest)
  BY <1>1 DEF Init, IsVersion, Core, CoreLess, Unreleased
<1> QED
  BY <1>1, <1>2 DEF IndInv, FileOK, NeverBelowARelease

\* A step that writes the output of a bump.
LEMMA WriteKeepsIndInv ==
  ASSUME IndInv, NEW command \in Command, NEW arg \in Seq(Int),
         Write(command_bump(command, arg, file))
  PROVE  IndInv'
<1> DEFINE new == command_bump(command, arg, file)
<1>1. file' = new
  BY DEF Write
<1>2. CASE new = Empty
  BY <1>1, <1>2 DEF Write, IndInv, FileOK, NeverBelowARelease
<1>3. CASE new # Empty
  <2>1. IsVersion(file)
    BY <1>3 DEF IndInv, FileOK, command_bump
  <2>2. IsVersion(new) /\ ~CoreLess(new.core, file.core)
    BY <1>3, <2>1, BumpGoesUp
  <2>3. ~CoreLess(new.core, highest)
    <3>1. ~CoreLess(file.core, highest) /\ highest \in Core
      BY <2>1, EmptyHasNoCore DEF IndInv, FileOK, NeverBelowARelease, IsVersion
    <3> QED
      BY <2>1, <2>2, <3>1, CoreLessTransitive DEF IsVersion
  <2>4. highest' \in {highest, new.core}
    BY DEF Write
  <2>5. ~CoreLess(new.core, new.core)
    BY <2>2 DEF IsVersion, Core, CoreLess
  <2> HIDE DEF new
  <2>6. FileOK'
    BY <1>1, <2>2, <2>4 DEF FileOK, IsVersion, IndInv
  <2>7. NeverBelowARelease'
    BY <1>1, <2>3, <2>4, <2>5 DEF NeverBelowARelease
  <2> QED
    BY <2>6, <2>7 DEF IndInv
<1> QED
  BY <1>2, <1>3

\* The inductive invariant holds in every state.
LEMMA Invariance == Spec => []IndInv
<1>1. IndInv /\ [Next]_vars => IndInv'
  <2> SUFFICES ASSUME IndInv, [Next]_vars PROVE IndInv'
    OBVIOUS
  <2>1. CASE UNCHANGED <<file, highest>>
    BY <2>1 DEF IndInv, FileOK, NeverBelowARelease, IsVersion
  <2>2. ASSUME NEW command \in {"patch", "minor", "major", "release", "prerel"},
               setup_new_version(command)
        PROVE  IndInv'
    <3>1. UNCHANGED <<file, highest>> \/ Write(command_bump(command, NoProto, file))
      BY <2>2 DEF setup_new_version
    <3>2. NoProto \in Seq(Int)
      BY DEF NoProto, Plus, Dot
    <3> QED
      BY <2>1, <3>1, <3>2, WriteKeepsIndInv DEF Command
  <2>3. ASSUME NEW command \in {"prerel", "build"}, NEW arg \in Seq(Int),
               BumpByHand(command, arg)
        PROVE  IndInv'
    BY <2>3, WriteKeepsIndInv DEF BumpByHand, Command
  <2> QED
    BY <2>1, <2>2, <2>3, EmptyPre, SemverAssumption DEF Next, vars
<1> QED
  BY <1>1, InitIndInv, PTL DEF Spec
-----------------------------------------------------------------------------
\* Whatever bumps follow each other, the numbers of the version are never
\* below those of a release that package.json had before.
THEOREM VersionsNeverFallBehind == Spec => []NeverBelowARelease
<1>1. IndInv => NeverBelowARelease
  BY DEF IndInv
<1> QED
  BY <1>1, Invariance, PTL

\* compare is asked about the version in package.json, whatever bumps it
\* comes from, and any of the versions package.json began with.
THEOREM ComparesAsSpecified == Spec => []ComparesBySpec
<1>1. IndInv => ComparesBySpec
  <2> SUFFICES ASSUME IndInv, NEW w \in Versions, file # Empty,
                      Canonical(file), Canonical(w)
               PROVE  compare_version(file, w) =
                        IF Precedes(file, w) THEN -1 ELSE IF Precedes(w, file) THEN 1 ELSE 0
    BY DEF ComparesBySpec
  <2>1. IsVersion(file)
    BY DEF IndInv, FileOK
  <2>2. IsVersion(w)
    BY SemverAssumption DEF IsVersion, Core
  <2> QED
    BY <2>1, <2>2, CompareIsPrecedence
<1> QED
  BY <1>1, Invariance, PTL

\* What setup-semver.sh writes for a patch, a minor or a major comes after
\* the version it read, and so does the release of a pre-release.
THEOREM NewVersionsComeAfter ==
  Spec => [][\A command \in {"patch", "minor", "major", "release"} :
               /\ setup_new_version(command)
               /\ file # Empty /\ ~file.build
               /\ command = "release" => file.pre # <<>>
               => Precedes(file, file')]_vars
<1>1. ASSUME FileOK, file # Empty, ~file.build,
             NEW command \in {"patch", "minor", "major", "release"},
             setup_new_version(command), command = "release" => file.pre # <<>>
      PROVE  Precedes(file, file')
  <2>1. PICK ma \in Nat, mi \in Nat, pa \in Nat : file.core = <<ma, mi, pa>>
    BY <1>1 DEF FileOK, IsVersion, Core
  <2>2. file' = command_bump(command, NoProto, file)
    BY <1>1 DEF setup_new_version, Write
  <2>3. CASE command = "patch"
    <3>1. file' = Plain(<<ma, mi, pa + 1>>)
      BY <1>1, <2>1, <2>2, <2>3 DEF command_bump
    <3> QED
      BY <2>1, <3>1 DEF Precedes, CoreLess, Plain
  <2>4. CASE command = "minor"
    <3>1. file' = Plain(<<ma, mi + 1, 0>>)
      BY <1>1, <2>1, <2>2, <2>4 DEF command_bump
    <3> QED
      BY <2>1, <3>1 DEF Precedes, CoreLess, Plain
  <2>5. CASE command = "major"
    <3>1. file' = Plain(<<ma + 1, 0, 0>>)
      BY <1>1, <2>1, <2>2, <2>5 DEF command_bump
    <3> QED
      BY <2>1, <3>1 DEF Precedes, CoreLess, Plain
  <2>6. CASE command = "release"
    <3>1. file' = Plain(file.core)
      BY <1>1, <2>2, <2>6 DEF command_bump
    <3> QED
      BY <1>1, <2>6, <3>1 DEF Precedes, Plain
  <2> QED
    BY <1>1, <2>3, <2>4, <2>5, <2>6
<1>2. IndInv => FileOK
  BY DEF IndInv
<1>3. FileOK => \A command \in {"patch", "minor", "major", "release"} :
                  /\ setup_new_version(command)
                  /\ file # Empty /\ ~file.build
                  /\ command = "release" => file.pre # <<>>
                  => Precedes(file, file')
  BY <1>1
<1> QED
  BY <1>2, <1>3, Invariance, PTL
=============================================================================
