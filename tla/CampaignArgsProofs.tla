------------------------- MODULE CampaignArgsProofs -------------------------
(***************************************************************************)
(* The machine is divided soundly for every number of harnesses and every  *)
(* --ncpu and --workers, zero and negative ones included.                  *)
(***************************************************************************)
EXTENDS CampaignArgs, TLAPS

LEMMA Quotient ==
  ASSUME NEW n \in Int, NEW w \in Nat \ {0}
  PROVE  n \div w \in Int /\ w * (n \div w) <= n
OBVIOUS

LEMMA Monotone ==
  ASSUME NEW a \in Nat, NEW b \in Nat, NEW c \in Nat, a <= b
  PROVE  c * a <= c * b /\ a * c <= b * c
OBVIOUS

(* Workers that are not positive pin a fuzzer to no CPU.                   *)
LEMMA Empty ==
  ASSUME NEW w \in Int, NEW i \in Int, w <= 0
  PROVE  w * i .. w * i + w - 1 = {}
<1>1. w * i \in Int
  OBVIOUS
<1>2. QED BY <1>1

LEMMA Fields ==
  ASSUME NEW a \in Namespace
  PROVE  a.ncpu \in Int /\ a.workers \in Int /\ a.threads \in Int /\ a.pipes \in Nat
BY DEF Namespace

LEMMA Typed ==
  ASSUME NEW o \in Option
  PROVE  o.ncpu \in Int /\ o.workers \in Int /\ o.threads \in Int
<1>1. -MaxCpu .. MaxCpu \subseteq Int
  BY ArgsAssumption
<1>2. /\ o.ncpu \in -MaxCpu .. MaxCpu /\ o.workers \in -MaxCpu .. MaxCpu
      /\ o.threads \in Threads
  BY Zenon DEF Option
<1>3. QED BY <1>1, <1>2, ArgsAssumption

(* Before there is a plan the options are what the user typed.             *)
AsTyped ==
  step = "parsed" => args.ncpu = given.ncpu /\ args.workers = given.workers

(* Where the plan is refused.                                              *)
Refused == given.workers = 0 /\ given.ncpu >= 0

Planned == step \in {"planned", "ready"}

(* What a plan, p pipes of w workers and t threads on n CPUs, guarantees   *)
(* as soon as there is one.                                                *)
Sound(n, w, t, p) ==
  /\ p >= 1
  /\ w >= 1 <=> t >= 1
  /\ w >= 1 => p * w <= n /\ (p > 1 => p * w <= n - 2)
  /\ w <= 0 /\ p > 1 => n <= 0
  /\ p * t <= 2 * n

Fits ==
  /\ step = "raised" => Refused
  /\ Planned => /\ ~Refused
                /\ (given.ncpu >= 1 /\ given.workers >= 1) <=> args.workers >= 1
                /\ Sound(args.ncpu, args.workers, args.threads, args.pipes)
  /\ step = "ready" => args.pipes <= dirs

Plan == TypeOK /\ AsTyped /\ Fits

LEMMA PlanInit == Init => Plan
<1> SUFFICES ASSUME Init PROVE Plan
  OBVIOUS
<1>1. given \in Option /\ given.ncpu \in Int /\ given.workers \in Int /\ given.threads \in Int
  BY Typed DEF Init
<1>2. args \in Namespace
  BY <1>1 DEF Init, Namespace
<1>3. QED BY <1>1, <1>2 DEF Init, Plan, TypeOK, AsTyped, Fits, Planned

LEMMA PlanFewKeeps == ASSUME Plan, PlanFew PROVE Plan'
<1> DEFINE n == args.ncpu
           w == args.workers
           d == 2 * n
<1>1. /\ args \in Namespace /\ given \in Option
      /\ n \in Int /\ w \in Int /\ d \in Int /\ n < w
  BY Fields DEF Plan, TypeOK, PlanFew
<1>2. n = given.ncpu /\ w = given.workers
  BY DEF Plan, AsTyped, PlanFew
<1>3. args' = [args EXCEPT !.pipes = 1, !.workers = n, !.threads = d]
  BY DEF PlanFew
<1> HIDE DEF d
<1>4. /\ args' \in Namespace
      /\ args'.ncpu = n /\ args'.workers = n /\ args'.pipes = 1 /\ args'.threads = d
  BY <1>1, <1>3 DEF Namespace
<1>5. Sound(n, n, d, 1)
  BY <1>1 DEF Sound, d
<1>6. ~Refused' /\ ((given'.ncpu >= 1 /\ given'.workers >= 1) <=> n >= 1)
  BY <1>1, <1>2 DEF PlanFew, Refused
<1>7. QED BY <1>4, <1>5, <1>6 DEF Plan, TypeOK, AsTyped, Fits, Planned, PlanFew

(* How many pipes fit: workers that are not positive never leave the plan  *)
(* with CPUs and several pipes at once.                                    *)
LEMMA Enough ==
  ASSUME NEW n \in Int, NEW w \in Int, w # 0, n >= w
  PROVE  LET p == larger(1, FloorDiv(n - 2, w))
         IN  p \in Nat \ {0} /\ Sound(n, w, 2 * w, p)
<1> DEFINE f == FloorDiv(n - 2, w)
           p == larger(1, f)
<1> SUFFICES p \in Nat \ {0} /\ Sound(n, w, 2 * w, p)
  OBVIOUS
<1>1. p = IF 1 > f THEN 1 ELSE f
  BY DEF larger
<1>2. CASE w > 0
  <2>1. f = (n - 2) \div w
    BY <1>2 DEF FloorDiv
  <2>2. f \in Int /\ w * f <= n - 2
    <3> HIDE DEF f
    <3>1. n - 2 \in Int /\ w \in Nat \ {0}
      BY <1>2
    <3>2. QED BY <2>1, <3>1, Quotient
  <2> HIDE DEF f, p
  <2>3. p \in Nat \ {0} /\ p * w <= n /\ (p > 1 => p * w <= n - 2)
    <3>1. CASE 1 > f
      BY <1>1, <1>2, <3>1
    <3>2. CASE ~(1 > f)
      <4>1. p = f /\ f \in Nat \ {0} /\ f * w = w * f
        BY <1>1, <1>2, <2>2, <3>2
      <4>2. QED BY <1>2, <2>2, <4>1
    <3>3. QED BY <3>1, <3>2
  <2>4. p * (2 * w) = 2 * (p * w) /\ p * w \in Int
    BY <2>3
  <2>5. p * (2 * w) <= 2 * n
    BY <2>3, <2>4
  <2>6. QED BY <1>2, <2>3, <2>5 DEF Sound
<1>3. CASE w < 0
  <2> DEFINE d == -w
             m == 2 - n
  <2>1. d \in Nat \ {0} /\ m \in Int /\ -(n - 2) = m
    BY <1>3
  <2>2. f = m \div d
    BY <1>3, <2>1 DEF FloorDiv
  <2>3. f \in Int /\ d * f <= m
    <3> HIDE DEF f, d, m
    <3>1. QED BY <2>1, <2>2, Quotient
  <2> HIDE DEF f, p
  <2>4. p \in Nat \ {0} /\ (p > 1 => p = f)
    BY <1>1, <2>3
  <2>5. p > 1 => n <= 0
    <3> SUFFICES ASSUME p > 1 PROVE n <= 0
      OBVIOUS
    <3>1. 2 <= f /\ f \in Nat /\ d \in Nat \ {0}
      BY <2>1, <2>3, <2>4
    <3>2. d * 2 <= d * f
      <4> HIDE DEF d
      <4>1. QED BY <3>1, Monotone
    <3>3. QED BY <2>1, <2>3, <3>1, <3>2
  <2>6. d <= p * d /\ p * d \in Nat
    <3> HIDE DEF d
    <3>1. 1 * d <= p * d
      BY <2>1, <2>4, Monotone
    <3>2. QED BY <2>1, <2>4, <3>1
  <2>7. p * (2 * w) = -(2 * (p * d))
    BY <2>4
  <2>8. p * (2 * w) <= 2 * n
    BY <2>1, <2>6, <2>7
  <2>9. QED BY <1>3, <2>4, <2>5, <2>8 DEF Sound
<1>4. QED BY <1>2, <1>3

LEMMA PlanManyKeeps == ASSUME Plan, PlanMany PROVE Plan'
<1> DEFINE n == args.ncpu
           w == args.workers
           d == 2 * w
<1>1. /\ args \in Namespace /\ given \in Option
      /\ n \in Int /\ w \in Int /\ d \in Int /\ w # 0 /\ n >= w
  BY Fields DEF Plan, TypeOK, PlanMany
<1>2. n = given.ncpu /\ w = given.workers
  BY DEF Plan, AsTyped, PlanMany
<1>3. PipesFor \in Nat \ {0} /\ Sound(n, w, d, PipesFor)
  BY <1>1, Enough DEF PipesFor
<1>4. args' = [args EXCEPT !.pipes = PipesFor, !.threads = d]
  BY DEF PlanMany
<1> HIDE DEF d
<1>5. /\ args' \in Namespace
      /\ args'.ncpu = n /\ args'.workers = w /\ args'.pipes = PipesFor /\ args'.threads = d
  BY <1>1, <1>3, <1>4 DEF Namespace
<1>6. ~Refused' /\ ((given'.ncpu >= 1 /\ given'.workers >= 1) <=> w >= 1)
  BY <1>1, <1>2 DEF PlanMany, Refused
<1>7. QED BY <1>3, <1>5, <1>6 DEF Plan, TypeOK, AsTyped, Fits, Planned, PlanMany

LEMMA DivideByZeroKeeps == ASSUME Plan, DivideByZero PROVE Plan'
BY DEF Plan, TypeOK, AsTyped, Fits, Planned, Refused, DivideByZero

LEMMA ScaleKeeps == ASSUME Plan, Scale PROVE Plan'
<1> DEFINE n == args.ncpu
           w == args.workers
           p == args.pipes
           q == n \div dirs
<1>1. /\ args \in Namespace /\ n \in Int /\ w \in Int /\ args.threads \in Int
      /\ p \in Nat \ {0} /\ dirs \in Nat \ {0} /\ Sound(n, w, args.threads, p)
      /\ Planned
  BY ArgsAssumption, Fields DEF Plan, TypeOK, Fits, Planned, Sound, Scale
<1>2. CASE p > dirs
  <2>1. q \in Int /\ dirs * q <= n
    <3> HIDE DEF n
    <3>1. QED BY <1>1, Quotient
  <2> DEFINE d == 2 * q
  <2>2. args' = [args EXCEPT !.pipes = dirs, !.threads = d] /\ d \in Int
    BY <1>2, <2>1 DEF Scale
  <2>3. /\ args' \in Namespace
        /\ args'.ncpu = n /\ args'.workers = w /\ args'.pipes = dirs /\ args'.threads = d
    <3> HIDE DEF d
    <3>1. QED BY <1>1, <2>2 DEF Namespace
  <2>4. w >= 1 => dirs * w <= p * w /\ p <= p * w /\ dirs * w \in Nat /\ p * w \in Nat
    <3> HIDE DEF w, p
    <3> SUFFICES ASSUME w >= 1
                 PROVE  dirs * w <= p * w /\ p <= p * w /\ dirs * w \in Nat /\ p * w \in Nat
      OBVIOUS
    <3>1. dirs * w <= p * w
      BY <1>1, <1>2, Monotone
    <3>2. p * 1 <= p * w
      BY <1>1, Monotone
    <3>3. QED BY <1>1, <3>1, <3>2
  <2>5. w >= 1 => dirs * w <= n /\ dirs * w <= n - 2 /\ n >= dirs
    <3> HIDE DEF n, w, p
    <3>1. QED BY <1>1, <1>2, <2>4 DEF Sound
  <2>6. w >= 1 => q >= 1
    <3> HIDE DEF n, w, p
    <3>1. QED BY <1>1, <2>5
  <2>7. w <= 0 => q <= 0
    <3> SUFFICES ASSUME w <= 0 PROVE q <= 0
      OBVIOUS
    <3>1. n <= 0
      BY <1>1, <1>2 DEF Sound
    <3>2. q >= 1 => dirs * 1 <= dirs * q
      <4> HIDE DEF q
      <4>1. QED BY <1>1, <2>1, Monotone
    <3>3. QED BY <1>1, <2>1, <3>1, <3>2
  <2>8. dirs * (2 * q) = 2 * (dirs * q) /\ dirs * q \in Int
    BY <1>1, <2>1
  <2>9. Sound(n, w, d, dirs)
    <3> HIDE DEF n, w, p, q
    <3>1. dirs * d <= 2 * n
      BY <1>1, <2>1, <2>8
    <3>2. w >= 1 <=> d >= 1
      BY <1>1, <2>1, <2>6, <2>7
    <3>3. w <= 0 /\ dirs > 1 => n <= 0
      BY <1>1, <1>2 DEF Sound
    <3>4. QED BY <1>1, <2>5, <3>1, <3>2, <3>3 DEF Sound
  <2>10. QED BY <1>1, <2>3, <2>9 DEF Plan, TypeOK, AsTyped, Fits, Planned, Refused, Scale
<1>3. CASE ~(p > dirs)
  <2>1. args' = args /\ p <= dirs
    BY <1>1, <1>3 DEF Scale
  <2>2. QED BY <1>1, <2>1 DEF Plan, TypeOK, AsTyped, Fits, Planned, Refused, Scale
<1>4. QED BY <1>2, <1>3

LEMMA PlanInvariant == Spec => []Plan
<1>1. Plan /\ [Next]_vars => Plan'
  <2> SUFFICES ASSUME Plan, [Next]_vars PROVE Plan'
    OBVIOUS
  <2>1. CASE Campaign \/ UNCHANGED vars
    BY <2>1 DEF Campaign, vars, Plan, TypeOK, AsTyped, Fits, Planned, Refused
  <2>2. QED BY <2>1, PlanFewKeeps, PlanManyKeeps, DivideByZeroKeeps, ScaleKeeps DEF Next
<1>2. QED BY <1>1, PlanInit, PTL DEF Spec

(* The options are of their types, whatever integers are typed: the number *)
(* of pipes is never negative.                                             *)
THEOREM Typing == Spec => []TypeOK
<1>1. Plan => TypeOK
  BY DEF Plan
<1>2. QED BY <1>1, PlanInvariant, PTL

(* Which command lines main() refuses, and which of the others it gives    *)
(* workers and threads: zero and negative options go through unnoticed.    *)
THEOREM Usable == Spec => []PlanUsable
<1>1. Plan => PlanUsable
  <2> SUFFICES ASSUME Plan PROVE PlanUsable
    OBVIOUS
  <2>1. Ready => args.pipes \in 1..dirs
    BY ArgsAssumption, Fields DEF Plan, TypeOK, Fits, Planned, Sound, Ready
  <2>2. QED BY <2>1 DEF Plan, Fits, Planned, Sound, Refused, Ready, PlanUsable
<1>2. QED BY <1>1, PlanInvariant, PTL

(* No two fuzzers are ever pinned to the same CPU.                         *)
THEOREM Disjoint == Spec => []CpusDisjoint
<1>1. Plan => CpusDisjoint
  <2> DEFINE w == args.workers
  <2> SUFFICES ASSUME Plan, NEW i \in Pipe, NEW j \in Pipe, i < j
               PROVE  CpusOf(i) \cap CpusOf(j) = {}
    BY Fields DEF Pipe, CpusDisjoint, Plan, TypeOK
  <2>1. w \in Int /\ i \in Nat /\ j \in Nat /\ i + 1 <= j
    BY Fields DEF Plan, TypeOK, Pipe
  <2>2. CASE w <= 0
    BY <2>1, <2>2, Empty DEF CpusOf
  <2>3. CASE w >= 1
    <3>1. w * (i + 1) <= w * j
      BY <2>1, <2>3, Monotone
    <3>2. w * (i + 1) = w * i + w /\ w * i \in Nat /\ w * j \in Nat
      BY <2>1, <2>3
    <3> HIDE DEF w
    <3>3. (w * i .. w * i + w - 1) \cap (w * j .. w * j + w - 1) = {}
      BY <2>1, <2>3, <3>1, <3>2
    <3>4. QED BY <3>3 DEF CpusOf, w
  <2>4. QED BY <2>1, <2>2, <2>3
<1>2. QED BY <1>1, PlanInvariant, PTL

(* The machine has every CPU that a fuzzer is pinned to, and two more when *)
(* several fuzzers run.                                                    *)
THEOREM Exist == Spec => []CpusExist
<1>1. Plan => CpusExist
  <2> DEFINE w == args.workers
             p == args.pipes
             n == args.ncpu
  <2> SUFFICES ASSUME Plan, Ready, NEW i \in Pipe, NEW c \in CpusOf(i)
               PROVE  c \in 0..(n - 1) /\ (p > 1 => c \notin {n - 2, n - 1})
    BY DEF CpusExist
  <2>1. w \in Int /\ p \in Nat \ {0} /\ n \in Int /\ i \in Nat /\ i + 1 <= p
    BY Fields DEF Plan, TypeOK, Fits, Planned, Sound, Pipe, Ready
  <2>2. w >= 1
    <3>1. w <= 0 => CpusOf(i) = {}
      BY <2>1, Empty DEF CpusOf
    <3>2. QED BY <2>1, <3>1
  <2>3. w * (i + 1) <= w * p
    BY <2>1, <2>2, Monotone
  <2>4. w * (i + 1) = w * i + w /\ w * i \in Nat /\ w * p = p * w /\ p * w \in Nat
    BY <2>1, <2>2
  <2>5. p * w <= n /\ (p > 1 => p * w <= n - 2)
    BY <2>2 DEF Plan, Fits, Planned, Sound, Ready
  <2>6. c \in w * i .. w * i + w - 1
    BY DEF CpusOf
  <2> HIDE DEF w, p, n
  <2>7. c \in Nat /\ c <= n - 1 /\ (p > 1 => c <= n - 3)
    BY <2>1, <2>2, <2>3, <2>4, <2>5, <2>6
  <2>8. QED BY <2>1, <2>7
<1>2. QED BY <1>1, PlanInvariant, PTL

(* The builds of all pipes together use at most two threads per CPU.       *)
THEOREM Threaded == Spec => []ThreadsBounded
<1>1. Plan => ThreadsBounded
  BY DEF Plan, Fits, Planned, Sound, ThreadsBounded, Ready
<1>2. QED BY <1>1, PlanInvariant, PTL
=============================================================================
