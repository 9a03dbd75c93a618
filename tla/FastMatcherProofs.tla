------------------------- MODULE FastMatcherProofs --------------------------
(***************************************************************************)
(* What holds of fast_matcher for every number of trace files and threads, *)
(* whatever the files contain.                                             *)
(***************************************************************************)
EXTENDS FastMatcher, FiniteSetTheorems, WellFoundedInduction, TLAPS

(* Why a thread is where it is.                                            *)
Outcomes ==
  /\ \A t \in Thread : Holding(t) => file[t] \in File
  /\ \A t \in Thread : state[t] = "dead" => Panics(trace[file[t]])
  /\ \A t \in Thread : state[t] = "merging" => ~ Panics(trace[file[t]])
  /\ \A f \in merged : ~ Panics(trace[f])
  /\ \A t \in Thread : state[t] = "ended" => queue = <<>>
  /\ main = "reporting" => \A t \in Thread : state[t] \in {"ended", "dead"}

Inv == TypeOK /\ EachFileOnce /\ Outcomes

LEMMA InvInit == Init => Inv
<1> SUFFICES ASSUME Init PROVE Inv
  OBVIOUS
<1>1. queue \in Seq(File) /\ Len(queue) = Files /\ DOMAIN queue = File
  BY MatcherAssumption DEF Init, File
<1>2. Queued = File
  BY <1>1 DEF Init, Queued
<1>3. TypeOK
  BY <1>1 DEF Init, TypeOK
<1>4. EachFileOnce
  BY <1>1, <1>2 DEF Init, EachFileOnce, Holding
<1>5. Outcomes
  BY DEF Init, Outcomes, Holding
<1>6. QED BY <1>3, <1>4, <1>5 DEF Inv

(* Taking the head of a queue without repetitions.                         *)
LEMMA Taken ==
  ASSUME TypeOK, EachFileOnce, queue # <<>>, queue' = Tail(queue)
  PROVE  /\ Head(queue) \in File /\ queue' \in Seq(File)
         /\ \A i, j \in DOMAIN queue' : i # j => queue'[i] # queue'[j]
         /\ Head(queue) \in Queued
         /\ Queued' = Queued \ {Head(queue)}
<1>1. queue \in Seq(File) /\ DOMAIN queue = 1..Len(queue) /\ Len(queue) \in Nat \ {0}
  BY DEF TypeOK
<1>2. /\ queue' \in Seq(File) /\ DOMAIN queue' = 1..(Len(queue) - 1)
      /\ \A i \in 1..(Len(queue) - 1) : queue'[i] = queue[i + 1]
      /\ Head(queue) = queue[1]
  BY <1>1
<1>3. \A i, j \in 1..Len(queue) : i # j => queue[i] # queue[j]
  BY <1>1 DEF EachFileOnce
<1>4. \A i, j \in DOMAIN queue' : i # j => queue'[i] # queue'[j]
  BY <1>1, <1>2, <1>3
<1>5. Queued' = Queued \ {Head(queue)}
  <2>1. ASSUME NEW f \in Queued' PROVE f \in Queued /\ f # queue[1]
    <3>1. PICK i \in 1..(Len(queue) - 1) : f = queue[i + 1]
      BY <1>2, <2>1 DEF Queued
    <3>2. i + 1 \in 1..Len(queue) /\ i + 1 # 1 /\ 1 \in 1..Len(queue)
      BY <1>1
    <3>3. QED BY <1>1, <1>3, <3>1, <3>2 DEF Queued
  <2>2. ASSUME NEW f \in Queued, f # queue[1] PROVE f \in Queued'
    <3>1. PICK i \in 1..Len(queue) : f = queue[i]
      BY <1>1, <2>2 DEF Queued
    <3>2. i - 1 \in 1..(Len(queue) - 1) /\ queue'[i - 1] = queue[i]
      BY <1>1, <1>2, <2>2, <3>1
    <3>3. QED BY <1>2, <3>1, <3>2 DEF Queued
  <2>3. QED BY <1>2, <2>1, <2>2
<1>6. Head(queue) \in Queued /\ Head(queue) \in File
  BY <1>1, <1>2 DEF Queued
<1>7. QED BY <1>2, <1>4, <1>5, <1>6

LEMMA PullKeeps == ASSUME Inv, NEW t \in Thread, Pull(t) PROVE Inv'
<1> DEFINE f == Head(queue)
<1>1. TypeOK /\ EachFileOnce /\ Outcomes
  BY DEF Inv
<1>2. /\ f \in File /\ queue' \in Seq(File) /\ f \in Queued /\ Queued' = Queued \ {f}
      /\ \A i, j \in DOMAIN queue' : i # j => queue'[i] # queue'[j]
  BY <1>1, Taken DEF Pull
<1>3. /\ state' = [state EXCEPT ![t] = "reading"] /\ file' = [file EXCEPT ![t] = f]
      /\ trace' = trace /\ db' = db /\ merged' = merged /\ main' = main
      /\ state[t] = "pulling" /\ queue # <<>>
  BY DEF Pull
<1> HIDE DEF f
<1>4. TypeOK'
  BY <1>1, <1>2, <1>3 DEF TypeOK
<1>5. \A u \in Thread : /\ state'[u] = IF u = t THEN "reading" ELSE state[u]
                        /\ file'[u] = IF u = t THEN f ELSE file[u]
  BY <1>1, <1>3 DEF TypeOK
<1>6. \A u \in Thread : Holding(u)' <=> u = t \/ Holding(u)
  BY <1>5 DEF Holding
<1>7. ~ Holding(t)
  BY <1>3 DEF Holding
<1>8. EachFileOnce'
  <2>1. Queued' \cap merged' = {}
    BY <1>1, <1>2, <1>3 DEF EachFileOnce
  <2>2. \A u \in Thread : Holding(u)' => file'[u] \notin Queued' \cup merged'
    BY <1>1, <1>2, <1>3, <1>5, <1>6 DEF EachFileOnce
  <2>3. \A u, v \in Thread : u # v /\ Holding(u)' /\ Holding(v)' => file'[u] # file'[v]
    BY <1>1, <1>2, <1>5, <1>6 DEF EachFileOnce
  <2>4. File = Queued' \cup merged' \cup {file'[u] : u \in {v \in Thread : Holding(v)'}}
    <3>1. {file'[u] : u \in {v \in Thread : Holding(v)'}}
            = {file[u] : u \in {v \in Thread : Holding(v)}} \cup {f}
      BY <1>5, <1>6, <1>7
    <3>2. QED BY <1>1, <1>2, <1>3, <3>1 DEF EachFileOnce
  <2>5. QED BY <1>2, <2>1, <2>2, <2>3, <2>4 DEF EachFileOnce
<1>9. Outcomes'
  BY <1>1, <1>2, <1>3, <1>5, <1>6 DEF Outcomes
<1>10. QED BY <1>4, <1>8, <1>9 DEF Inv

(* A thread that does not touch the queue keeps or drops its file.         *)
LEMMA LeaveKeeps == ASSUME Inv, NEW t \in Thread, Leave(t) PROVE Inv'
<1>1. TypeOK /\ EachFileOnce /\ Outcomes
  BY DEF Inv
<1>2. \A u \in Thread : state'[u] = IF u = t THEN "ended" ELSE state[u]
  BY <1>1 DEF TypeOK, Leave
<1>3. \A u \in Thread : Holding(u)' <=> Holding(u)
  BY <1>2 DEF Holding, Leave
<1>4. TypeOK'
  BY <1>1 DEF TypeOK, Leave
<1>5. EachFileOnce'
  <2>1. Queued' = Queued
    BY DEF Queued, Leave
  <2>2. {v \in Thread : Holding(v)'} = {v \in Thread : Holding(v)}
    BY <1>3
  <2>3. QED BY <1>1, <1>3, <2>1, <2>2 DEF EachFileOnce, Leave
<1>6. Outcomes'
  BY <1>1, <1>2, <1>3 DEF Outcomes, Leave
<1>7. QED BY <1>4, <1>5, <1>6 DEF Inv

LEMMA ReadKeeps == ASSUME Inv, NEW t \in Thread, Read(t) PROVE Inv'
<1> DEFINE p == Panics(trace[file[t]])
<1>1. TypeOK /\ EachFileOnce /\ Outcomes
  BY DEF Inv
<1>2. state' = [state EXCEPT ![t] = IF p THEN "dead" ELSE "merging"] /\ state[t] = "reading"
  BY DEF Read
<1> HIDE DEF p
<1>3. \A u \in Thread : state'[u] = IF u = t THEN IF p THEN "dead" ELSE "merging" ELSE state[u]
  BY <1>1, <1>2 DEF TypeOK
<1>4. \A u \in Thread : Holding(u)' <=> Holding(u)
  BY <1>2, <1>3 DEF Holding
<1>5. TypeOK'
  BY <1>1, <1>2 DEF TypeOK, Read
<1>6. EachFileOnce'
  <2>1. Queued' = Queued
    BY DEF Queued, Read
  <2>2. {v \in Thread : Holding(v)'} = {v \in Thread : Holding(v)}
    BY <1>4
  <2>3. QED BY <1>1, <1>4, <2>1, <2>2 DEF EachFileOnce, Read
<1>7. Outcomes'
  <2>1. trace' = trace /\ file' = file /\ merged' = merged /\ queue' = queue /\ main' = main
    BY DEF Read
  <2>2. state[t] \notin {"ended", "dead"}
    BY <1>2
  <2>3. \A u \in Thread : state'[u] = "dead" => Panics(trace[file[u]])
    BY <1>1, <1>3 DEF Outcomes, p
  <2>4. \A u \in Thread : state'[u] = "merging" => ~ Panics(trace[file[u]])
    BY <1>1, <1>3 DEF Outcomes, p
  <2>5. QED BY <1>1, <1>3, <1>4, <2>1, <2>2, <2>3, <2>4 DEF Outcomes
<1>8. QED BY <1>5, <1>6, <1>7 DEF Inv

LEMMA MergeKeeps == ASSUME Inv, NEW t \in Thread, Merge(t) PROVE Inv'
<1>1. TypeOK /\ EachFileOnce /\ Outcomes
  BY DEF Inv
<1>2. Holding(t) /\ file[t] \in File
  BY <1>1 DEF Merge, Holding, Outcomes
<1>3. \A u \in Thread : state'[u] = IF u = t THEN "pulling" ELSE state[u]
  BY <1>1 DEF TypeOK, Merge
<1>4. \A u \in Thread : Holding(u)' <=> u # t /\ Holding(u)
  BY <1>3 DEF Holding
<1>5. TypeOK'
  BY <1>1, <1>2 DEF TypeOK, Merge
<1>6. EachFileOnce'
  <2>1. Queued' = Queued /\ file' = file /\ queue' = queue /\ merged' = merged \cup {file[t]}
    BY DEF Queued, Merge
  <2>2. {file'[u] : u \in {v \in Thread : Holding(v)'}} \cup {file[t]}
          = {file[u] : u \in {v \in Thread : Holding(v)}}
    BY <1>2, <1>4, <2>1
  <2>3. QED BY <1>1, <1>2, <1>4, <2>1, <2>2 DEF EachFileOnce
<1>7. Outcomes'
  BY <1>1, <1>3, <1>4 DEF Outcomes, Merge
<1>8. QED BY <1>5, <1>6, <1>7 DEF Inv

LEMMA Invariant == Spec => []Inv
<1>1. Inv /\ [Next]_vars => Inv'
  <2> SUFFICES ASSUME Inv, [Next]_vars PROVE Inv'
    OBVIOUS
  <2>1. CASE Join \/ Report \/ UNCHANGED vars
    <3>1. UNCHANGED <<trace, queue, state, file, db, merged>>
      BY <2>1 DEF Join, Report, vars
    <3>2. TypeOK' /\ EachFileOnce'
      BY <2>1, <3>1 DEF Inv, TypeOK, EachFileOnce, Queued, Holding, Join, Report, vars
    <3>3. Outcomes'
      BY <2>1, <3>1 DEF Inv, Outcomes, Holding, Join, Report, vars
    <3>4. QED BY <3>2, <3>3 DEF Inv
  <2>2. CASE \E t \in Thread : Step(t)
    BY <2>2, PullKeeps, LeaveKeeps, ReadKeeps, MergeKeeps DEF Step
  <2>3. QED BY <2>1, <2>2 DEF Next
<1>2. QED BY <1>1, InvInit, PTL DEF Spec

(* The queue, the threads and the range set are of their types.            *)
THEOREM Typing == Spec => []TypeOK
<1>1. Inv => TypeOK
  BY DEF Inv
<1>2. QED BY <1>1, Invariant, PTL

(* Every trace file is read exactly once or not at all, and is never in    *)
(* two places.                                                             *)
THEOREM Conservation == Spec => []EachFileOnce
<1>1. Inv => EachFileOnce
  BY DEF Inv
<1>2. QED BY <1>1, Invariant, PTL

(* Fewer panicking files than threads cost nothing but themselves: the     *)
(* dead threads hold distinct panicking files, so one thread has lived to  *)
(* see the queue empty.                                                    *)
THEOREM SurvivorsCounted == Spec => []Survivors
<1> DEFINE Bad == {f \in File : Panics(trace[f])}
<1>1. Inv => Survivors
  <2> SUFFICES ASSUME Inv, main = "reporting", Cardinality(Bad) < nproc
               PROVE  merged = File \ Bad
    BY DEF Survivors
  <2>1. TypeOK /\ EachFileOnce /\ Outcomes
    BY DEF Inv
  <2>2. IsFiniteSet(File) /\ IsFiniteSet(Bad) /\ Cardinality(Bad) \in Nat
    <3>1. IsFiniteSet(File)
      BY FS_Interval, MatcherAssumption DEF File
    <3>2. QED BY <3>1, FS_Subset, FS_CardinalityType
  <2>3. Cardinality(Thread) = nproc
    BY FS_Interval, MatcherAssumption DEF Thread
  <2>4. PICK t \in Thread : state[t] = "ended"
    <3> SUFFICES ASSUME \A u \in Thread : state[u] = "dead" PROVE FALSE
      BY <2>1 DEF Outcomes
    <3>1. \A u \in Thread : file[u] \in Bad
      BY <2>1 DEF Outcomes, Holding
    <3>2. \A u, v \in Thread : u # v => file[u] # file[v]
      BY <2>1 DEF EachFileOnce, Holding
    <3>3. file \in Injection(Thread, Bad)
      BY <2>1, <3>1, <3>2 DEF Injection, IsInjective, TypeOK
    <3>4. Cardinality(Thread) <= Cardinality(Bad)
      BY <2>2, <3>3, FS_Injection
    <3>5. QED BY <2>2, <2>3, <3>4, MatcherAssumption
  <2>5. queue = <<>> /\ Queued = {}
    BY <2>1, <2>4 DEF Outcomes, Queued
  <2>6. \A u \in Thread : Holding(u) => file[u] \in Bad
    BY <2>1 DEF Outcomes, Holding
  <2>7. QED BY <2>1, <2>5, <2>6 DEF EachFileOnce, Outcomes, TypeOK
<1>2. QED BY <1>1, Invariant, PTL
-----------------------------------------------------------------------------
(* Reading a trace goes from its end to its start: the definitions recur   *)
(* on later lines.                                                         *)

LEMMA Least == ASSUME NEW T, T \subseteq Nat, T # {} PROVE \E i \in T : \A j \in T : i <= j
<1> DEFINE R == OpToRel(<, Nat)
<1>1. IsWellFoundedOn(R, Nat)
  BY NatLessThanWellFounded
<1>2. ASSUME NEW x \in Nat, NEW y \in Nat, x < y PROVE <<x, y>> \in R
  BY <1>2 DEF OpToRel
<1> HIDE DEF R
<1>3. PICK i \in T : \A j \in T : ~ (<<j, i>> \in R)
  BY <1>1, WFMin
<1>4. ASSUME NEW j \in T PROVE i <= j
  <2>1. i \in Nat /\ j \in Nat
    OBVIOUS
  <2>2. ~ (j < i)
    BY <2>1, <1>2, <1>3
  <2>3. QED BY <2>1, <2>2
<1>5. QED BY <1>4

(* What holds of a place when it holds of all later ones holds everywhere. *)
LEMMA Downwards ==
  ASSUME NEW m \in Nat, NEW S,
         \A i \in 1..m : (\A j \in (i + 1)..m : j \in S) => i \in S
  PROVE  \A i \in 1..m : i \in S
<1> SUFFICES ASSUME NEW i \in 1..m, i \notin S PROVE FALSE
  OBVIOUS
<1> DEFINE Bad == {d \in 0..m : m - d >= 1 /\ m - d \notin S}
<1>1. Bad \subseteq Nat /\ m - i \in Bad
  OBVIOUS
<1>2. PICK d \in Bad : \A e \in Bad : d <= e
  BY <1>1, Least
<1>3. d \in 0..m /\ m - d \in 1..m /\ m - d \notin S
  BY <1>2
<1>4. ASSUME NEW j \in (m - d + 1)..m, j \notin S PROVE FALSE
  <2>1. m - j \in 0..m /\ m - (m - j) = j /\ m - j < d /\ j >= 1
    BY <1>3, <1>4
  <2>2. m - j \in Bad
    BY <1>4, <2>1
  <2>3. QED BY <1>2, <1>3, <2>1, <2>2
<1>5. QED BY <1>3, <1>4

(* A function may be defined by its values at later places: by the value b *)
(* at the place behind the last, m, and by g of the place and of the value *)
(* at the later place that h names.                                        *)
Later(m, h) == \A i \in 1..m : h[i] \in (i + 1)..(m + 1)
Recurs(f, m, V, g, h, b) ==
  /\ f \in [1..(m + 1) -> V]
  /\ f[m + 1] = b
  /\ \A i \in 1..m : f[i] = g[<<i, f[h[i]]>>]

LEMMA Recursion ==
  ASSUME NEW m \in Nat, NEW V, NEW g \in [(1..m) \X V -> V], NEW h, Later(m, h), NEW b \in V
  PROVE  \E f : Recurs(f, m, V, g, h, b)
<1> USE DEF Later
<1> DEFINE Good(k, f) == /\ f \in [k..(m + 1) -> V]
                         /\ f[m + 1] = b
                         /\ \A i \in k..m : f[i] = g[<<i, f[h[i]]>>]
           S == {k \in 1..(m + 1) : \E f : Good(k, f)}
<1>1. ASSUME NEW k \in 1..(m + 1), \A j \in (k + 1)..(m + 1) : j \in S PROVE k \in S
  <2>1. CASE k = m + 1
    <3>1. Good(k, [i \in k..(m + 1) |-> b])
      BY <2>1
    <3>2. QED BY <3>1
  <2>2. CASE k # m + 1
    <3>1. k \in 1..m /\ k + 1 \in (k + 1)..(m + 1)
      BY <2>2
    <3>2. PICK f : Good(k + 1, f)
      BY <1>1, <3>1
    <3>3. h[k] \in (k + 1)..(m + 1) /\ f[h[k]] \in V
      BY <3>1, <3>2
    <3> DEFINE v == g[<<k, f[h[k]]>>]
               e == [i \in k..(m + 1) |-> IF i = k THEN v ELSE f[i]]
    <3>4. v \in V
      BY <3>1, <3>3
    <3>5. e \in [k..(m + 1) -> V] /\ e[m + 1] = b
      BY <3>1, <3>2, <3>4
    <3>6. ASSUME NEW i \in k..m PROVE e[i] = g[<<i, e[h[i]]>>]
      <4>1. h[i] \in (i + 1)..(m + 1) /\ e[h[i]] = f[h[i]]
        BY <3>1
      <4>2. CASE i = k
        <5>1. e[i] = g[<<i, f[h[i]]>>]
          BY <4>2
        <5>2. QED BY <4>1, <5>1, Zenon
      <4>3. CASE i # k
        BY <3>2, <4>1, <4>3
      <4>4. QED BY <4>2, <4>3
    <3>7. Good(k, e)
      BY <3>5, <3>6
    <3>8. QED BY <3>7
  <2>3. QED BY <2>1, <2>2
<1> HIDE DEF S
<1>2. 1 \in S
  <2>1. m + 1 \in Nat /\ 1 \in 1..(m + 1)
    OBVIOUS
  <2>2. \A i \in 1..(m + 1) : i \in S
    BY <1>1, <2>1, Downwards
  <2>3. QED BY <2>1, <2>2
<1>3. PICK f : Good(1, f)
  BY <1>2 DEF S
<1>4. QED BY <1>3 DEF Recurs

(* What next() makes of line i, from what it makes of the lines behind it. *)
Item(t, i, following) ==
  LET src == t.lines[i][1]
      dst == t.lines[i][2]
  IN  IF dst # PT_TOKEN \/ following.kind = "none" THEN Some(src, dst, i + 1)
      ELSE IF following.kind = "panic" \/ following.src # PT_TOKEN THEN Panic
      ELSE Joined(src, following)

Items == {Nothing, Panic} \cup [kind : {"some"}, src : Node, dst : Node, rest : Nat]

LEMMA Lines ==
  ASSUME NEW t \in TraceFile
  PROVE  /\ Len(t.lines) \in Nat
         /\ \A i \in 1..Len(t.lines) : t.lines[i][1] \in Node /\ t.lines[i][2] \in Node
<1>1. t.lines \in Seq(Node \X Node)
  BY DEF TraceFile
<1>2. QED BY <1>1

LEMMA ItemIs ==
  ASSUME NEW t, NEW i, NEW v
  PROVE  \/ Item(t, i, v) = Some(t.lines[i][1], t.lines[i][2], i + 1)
         \/ Item(t, i, v) = Panic
         \/ /\ Item(t, i, v) = Some(t.lines[i][1], v.dst, v.rest)
            /\ v.kind \notin {"none", "panic"}
BY DEF Item, Joined

LEMMA ItemType ==
  ASSUME NEW t \in TraceFile, NEW i \in 1..Len(t.lines), NEW v \in Items
  PROVE  Item(t, i, v) \in Items
<1>1. t.lines[i][1] \in Node /\ t.lines[i][2] \in Node /\ i + 1 \in Nat
  BY Lines
<1>2. v.kind \notin {"none", "panic"} => v.src \in Node /\ v.dst \in Node /\ v.rest \in Nat
  BY DEF Items, Nothing, Panic
<1>3. QED BY <1>1, <1>2, ItemIs DEF Items, Some, Panic

LEMMA NextIs ==
  ASSUME NEW t \in TraceFile
  PROVE  /\ next(t)[Len(t.lines) + 1] = IF t.tail = "empty" THEN Panic ELSE Nothing
         /\ \A i \in 1..Len(t.lines) : next(t)[i] = Item(t, i, next(t)[i + 1])
<1> DEFINE m == Len(t.lines)
           b == IF t.tail = "empty" THEN Panic ELSE Nothing
           Whole(n) == [i \in 1..(m + 1) |-> IF i = m + 1 THEN b ELSE Item(t, i, n[i + 1])]
           g == [p \in (1..m) \X Items |-> Item(t, p[1], p[2])]
           h == [i \in 1..m |-> i + 1]
<1>1. m \in Nat /\ b \in Items
  BY Lines DEF Items
<1>2. g \in [(1..m) \X Items -> Items]
  BY ItemType
<1>3. \A i \in 1..m : h[i] \in (i + 1)..(m + 1) /\ h[i] = i + 1 /\ i + 1 \in 1..(m + 1)
  BY <1>1
<1>4. \A i \in 1..m, v \in Items : g[<<i, v>>] = Item(t, i, v)
  OBVIOUS
<1>5. next(t) = CHOOSE n : n = Whole(n)
  BY DEF next, Item
<1> HIDE DEF m, b, g, h
<1>6. PICK f : Recurs(f, m, Items, g, h, b)
  <2>1. Later(m, h)
    BY <1>3 DEF Later
  <2>2. QED BY <1>1, <1>2, <2>1, Recursion
<1>7. f = Whole(f)
  <2>1. ASSUME NEW i \in 1..m PROVE f[i] = Item(t, i, f[i + 1])
    BY <1>3, <1>4, <1>6 DEF Recurs
  <2>2. QED BY <1>1, <1>6, <2>1 DEF Recurs
<1>8. next(t) = Whole(next(t))
  BY <1>5, <1>7
<1>9. QED BY <1>1, <1>8 DEF m, b

(* The next line to read lies behind the one that was read.                *)
LEMMA Advances ==
  ASSUME NEW t \in TraceFile
  PROVE  \A i \in 1..(Len(t.lines) + 1) :
           /\ next(t)[i] \in Items
           /\ next(t)[i].kind \notin {"none", "panic"} => next(t)[i].rest \in (i + 1)..(Len(t.lines) + 1)
<1> DEFINE m == Len(t.lines)
           n == next(t)
           S == {i \in 1..(m + 1) :
                   /\ n[i] \in Items
                   /\ n[i].kind \notin {"none", "panic"} => n[i].rest \in (i + 1)..(m + 1)}
<1>1. m \in Nat
  BY Lines
<1>2. n[m + 1] = (IF t.tail = "empty" THEN Panic ELSE Nothing)
  BY NextIs
<1>3. \A i \in 1..m : n[i] = Item(t, i, n[i + 1])
  BY NextIs
<1> HIDE DEF n
<1>4. ASSUME NEW i \in 1..(m + 1), \A j \in (i + 1)..(m + 1) : j \in S PROVE i \in S
  <2>1. CASE i = m + 1
    BY <1>1, <1>2, <2>1 DEF Items, Panic, Nothing
  <2>2. CASE i # m + 1
    <3>1. i \in 1..m /\ i + 1 \in S
      BY <1>1, <1>4, <2>2
    <3>2. n[i + 1] \in Items
      BY <3>1
    <3>3. n[i] \in Items
      BY <1>3, <3>1, <3>2, ItemType
    <3>4. \/ n[i].kind \in {"none", "panic"}
          \/ n[i].rest = i + 1
          \/ n[i].rest = n[i + 1].rest /\ n[i + 1].kind \notin {"none", "panic"}
      <4>1. n[i] = Item(t, i, n[i + 1])
        BY <1>3, <3>1
      <4>2. QED BY <4>1, ItemIs DEF Some, Panic
    <3>5. QED BY <1>1, <3>1, <3>3, <3>4
  <2>3. QED BY <2>1, <2>2
<1> HIDE DEF S
<1>5. \A i \in 1..(m + 1) : i \in S
  <2>1. m + 1 \in Nat
    BY <1>1
  <2>2. QED BY <1>4, <2>1, Downwards
<1>6. QED BY <1>5 DEF S, n

(* What a loop has read from line i on, from the item there and from what  *)
(* it has read behind that.                                                *)
After(item, result) ==
  CASE item.kind = "none"  -> [edges |-> <<>>, panics |-> FALSE]
    [] item.kind = "panic" -> [edges |-> <<>>, panics |-> TRUE]
    [] OTHER -> [result EXCEPT !.edges = <<<<item.src, item.dst>>>> \o @]

Results == [edges : Seq(Node \X Node), panics : BOOLEAN]

LEMMA AfterType ==
  ASSUME NEW item \in Items, NEW result \in Results
  PROVE  After(item, result) \in Results
<1>1. CASE item.kind \in {"none", "panic"}
  <2>1. <<>> \in Seq(Node \X Node)
    OBVIOUS
  <2>2. [edges |-> <<>>, panics |-> FALSE] \in Results /\ [edges |-> <<>>, panics |-> TRUE] \in Results
    BY <2>1, Zenon DEF Results
  <2>3. QED BY <1>1, <2>2 DEF After
<1>2. CASE item.kind \notin {"none", "panic"}
  <2>1. item.src \in Node /\ item.dst \in Node
    BY <1>2 DEF Items, Nothing, Panic
  <2>2. result.edges \in Seq(Node \X Node) /\ result.panics \in BOOLEAN
    BY DEF Results
  <2>3. <<<<item.src, item.dst>>>> \o result.edges \in Seq(Node \X Node)
    BY <2>1, <2>2
  <2>4. After(item, result) = [result EXCEPT !.edges = <<<<item.src, item.dst>>>> \o result.edges]
    BY <1>2 DEF After
  <2>5. QED BY <2>3, <2>4 DEF Results
<1>3. QED BY <1>1, <1>2

LEMMA EdgesAre ==
  ASSUME NEW t \in TraceFile
  PROVE  \E read : /\ Edges(t) = read[1]
                   /\ read[Len(t.lines) + 1] \in Results
                   /\ \A i \in 1..(Len(t.lines) + 1) :
                        read[i] = After(next(t)[i], read[next(t)[i].rest])
<1> DEFINE m == Len(t.lines)
           n == next(t)
           Whole(read) == [i \in 1..(m + 1) |-> After(n[i], read[n[i].rest])]
           none == [edges |-> <<>>, panics |-> FALSE]
           b == After(n[m + 1], none)
           g == [p \in (1..m) \X Results |-> After(n[p[1]], p[2])]
           h == [i \in 1..m |-> IF n[i].kind \in {"none", "panic"} THEN i + 1 ELSE n[i].rest]
<1>1. m \in Nat /\ m + 1 \in 1..(m + 1)
  BY Lines
<1>2. none \in Results
  BY DEF Results
<1>3. /\ \A i \in 1..(m + 1) : n[i] \in Items
      /\ \A i \in 1..m : n[i].kind \notin {"none", "panic"} => n[i].rest \in (i + 1)..(m + 1)
  BY <1>1, Advances
<1>4. n[m + 1].kind \in {"none", "panic"}
  BY NextIs DEF Nothing, Panic
<1>5. \E f : f = Whole(f)
  <2> HIDE DEF n, none, m
  <2>1. b \in Results
    BY <1>1, <1>2, <1>3, AfterType
  <2>2. \A i \in 1..m, v \in Results : g[<<i, v>>] = After(n[i], v) /\ After(n[i], v) \in Results
    BY <1>1, <1>3, AfterType
  <2>3. g \in [(1..m) \X Results -> Results]
    BY <2>2
  <2>4. Later(m, h)
    BY <1>1, <1>3 DEF Later
  <2> HIDE DEF b, g
  <2>5. PICK f : Recurs(f, m, Results, g, h, b)
    <3> HIDE DEF h
    <3>1. QED BY <1>1, <2>1, <2>3, <2>4, Recursion
  <2>6. ASSUME NEW i \in 1..m PROVE f[i] = After(n[i], f[n[i].rest])
    <3>1. f[i] = After(n[i], f[h[i]]) /\ f[h[i]] \in Results
      <4>1. f \in [1..(m + 1) -> Results] /\ f[i] = g[<<i, f[h[i]]>>]
        BY <2>5 DEF Recurs
      <4>2. h[i] \in 1..(m + 1)
        BY <1>1, <2>4 DEF Later
      <4>3. f[h[i]] \in Results
        BY <4>1, <4>2
      <4>4. QED BY <2>2, <4>1, <4>3
    <3>2. CASE n[i].kind \in {"none", "panic"}
      BY <3>1, <3>2 DEF After
    <3>3. CASE n[i].kind \notin {"none", "panic"}
      BY <3>1, <3>3
    <3>4. QED BY <3>2, <3>3
  <2>7. f[m + 1] = After(n[m + 1], f[n[m + 1].rest])
    BY <1>4, <2>5 DEF Recurs, After, b
  <2>8. f = Whole(f)
    BY <1>1, <2>5, <2>6, <2>7 DEF Recurs
  <2>9. QED BY <2>8
<1> DEFINE read == CHOOSE read : read = Whole(read)
<1>6. Edges(t) = read[1]
  BY DEF Edges, After
<1>7. read = Whole(read)
  BY <1>5
<1> HIDE DEF read
<1>8. \A i \in 1..(m + 1) : read[i] = After(n[i], read[n[i].rest])
  BY <1>7
<1>9. read[m + 1] \in Results
  <2>1. read[m + 1] = After(n[m + 1], none)
    BY <1>1, <1>4, <1>8 DEF After
  <2>2. QED BY <1>1, <1>2, <1>3, <2>1, AfterType
<1>10. QED BY <1>6, <1>8, <1>9

(* What remains of a trace from line i on when PT_TOKEN is left out.       *)
LEMMA KeptType == ASSUME NEW a \in Node PROVE Kept(a) \in Seq(Node)
BY DEF Kept

LEMMA Behind ==
  ASSUME NEW T, NEW s \in Seq(T), NEW u \in Seq(T)
  PROVE  s \o u \in Seq(T)
OBVIOUS

LEMMA InFront ==
  ASSUME NEW T, NEW p \in T, NEW s \in Seq(T)
  PROVE  <<p>> \o s = [k \in 1..(Len(s) + 1) |-> IF k = 1 THEN p ELSE s[k - 1]]
<1> DEFINE a == <<p>> \o s
<1>1. Len(s) \in Nat /\ a \in Seq(T) /\ Len(a) = Len(s) + 1
  OBVIOUS
<1>2. a[1] = p /\ \A k \in 2..(Len(s) + 1) : a[k] = s[k - 1]
  OBVIOUS
<1> HIDE DEF a
<1>3. a = [k \in 1..(Len(s) + 1) |-> a[k]]
  BY <1>1
<1>4. \A k \in 1..(Len(s) + 1) : a[k] = IF k = 1 THEN p ELSE s[k - 1]
  BY <1>1, <1>2
<1>5. QED BY <1>3, <1>4 DEF a

LEMMA RemainingIs ==
  ASSUME NEW t \in TraceFile
  PROVE  /\ Remaining(t)[Len(t.lines) + 1] = <<>>
         /\ \A i \in 1..Len(t.lines) :
              Remaining(t)[i] = Kept(t.lines[i][1]) \o Kept(t.lines[i][2]) \o Remaining(t)[i + 1]
         /\ \A i \in 1..(Len(t.lines) + 1) : Remaining(t)[i] \in Seq(Node)
<1> DEFINE m == Len(t.lines)
           V == Seq(Node)
           E(i) == Kept(t.lines[i][1]) \o Kept(t.lines[i][2])
           b == <<>>
           Whole(r) == [i \in 1..(m + 1) |-> IF i = m + 1 THEN b ELSE E(i) \o r[i + 1]]
           g == [p \in (1..m) \X V |-> E(p[1]) \o p[2]]
           h == [i \in 1..m |-> i + 1]
           r == Remaining(t)
<1>1. m \in Nat /\ b \in V
  BY Lines
<1>2. \A i \in 1..m : E(i) \in V
  BY Lines, KeptType
<1>3. Remaining(t) = CHOOSE f : f = Whole(f)
  BY DEF Remaining
<1> HIDE DEF m, E, b
<1>4. \A i \in 1..m, v \in V : g[<<i, v>>] = E(i) \o v /\ E(i) \o v \in V
  <2>1. \A i \in 1..m, v \in V : E(i) \o v \in V
    BY <1>2, Behind
  <2> HIDE DEF V
  <2>2. \A i \in 1..m, v \in V : g[<<i, v>>] = E(i) \o v
    OBVIOUS
  <2>3. QED BY <2>1, <2>2
<1>5. g \in [(1..m) \X V -> V]
  BY <1>4
<1>6. \A i \in 1..m : h[i] \in (i + 1)..(m + 1) /\ h[i] = i + 1 /\ i + 1 \in 1..(m + 1)
  BY <1>1
<1>7. PICK f : Recurs(f, m, V, g, h, b)
  <2>1. Later(m, h)
    BY <1>6 DEF Later
  <2> HIDE DEF g, h, V
  <2>2. QED BY <1>1, <1>5, <2>1, Recursion
<1>8. f = Whole(f)
  <2>1. f \in [1..(m + 1) -> V] /\ f[m + 1] = b
    BY <1>7 DEF Recurs
  <2>2. ASSUME NEW i \in 1..m PROVE f[i] = E(i) \o f[i + 1]
    <3>1. f[i] = g[<<i, f[i + 1]>>] /\ f[i + 1] \in V
      BY <1>6, <1>7, <2>1 DEF Recurs
    <3>2. QED BY <1>4, <3>1
  <2> HIDE DEF V
  <2>3. QED BY <1>1, <2>1, <2>2
<1>9. r = Whole(r)
  BY <1>3, <1>8
<1> HIDE DEF r
<1>10. /\ r[m + 1] = b
       /\ \A i \in 1..m : r[i] = E(i) \o r[i + 1]
  <2>1. m + 1 \in 1..(m + 1) /\ \A i \in 1..m : i \in 1..(m + 1) /\ i # m + 1
    BY <1>1
  <2>2. \A i \in 1..(m + 1) : r[i] = Whole(r)[i]
    BY <1>9, Zenon
  <2>3. \A i \in 1..(m + 1) : Whole(r)[i] = IF i = m + 1 THEN b ELSE E(i) \o r[i + 1]
    BY Zenon
  <2>4. QED BY <2>1, <2>2, <2>3, Zenon
<1>11. \A i \in 1..(m + 1) : r[i] \in V
  <2> DEFINE S == {i \in 1..(m + 1) : r[i] \in V}
  <2>1. ASSUME NEW i \in 1..(m + 1), \A j \in (i + 1)..(m + 1) : j \in S PROVE i \in S
    <3>1. CASE i = m + 1
      BY <1>1, <1>10, <3>1
    <3>2. CASE i # m + 1
      <4>1. i \in 1..m /\ i + 1 \in S
        BY <1>1, <2>1, <3>2
      <4>2. E(i) \in V /\ r[i + 1] \in V /\ r[i] = E(i) \o r[i + 1]
        BY <1>2, <1>10, <4>1
      <4>3. QED BY <4>2, Behind
    <3>3. QED BY <3>1, <3>2
  <2> HIDE DEF S
  <2>2. m + 1 \in Nat
    BY <1>1
  <2>3. \A i \in 1..(m + 1) : i \in S
    BY <2>1, <2>2, Downwards
  <2>4. QED BY <2>3 DEF S
<1>12. QED BY <1>10, <1>11 DEF m, E, b, r

LEMMA PairedFirst ==
  ASSUME NEW x \in Node, NEW y \in Node, NEW s \in Seq(Node)
  PROVE  Paired(<<x, y>> \o s) = <<<<x, y>>>> \o Paired(s)
<1> DEFINE a == <<x, y>> \o s
           n == Len(s) \div 2
<1>1. /\ a \in Seq(Node) /\ Len(a) = Len(s) + 2 /\ Len(s) \in Nat
      /\ a[1] = x /\ a[2] = y /\ \A k \in 1..Len(s) : a[k + 2] = s[k]
  OBVIOUS
<1>2. n \in Nat /\ Len(a) \div 2 = n + 1 /\ 2 * n <= Len(s)
  BY <1>1
<1> HIDE DEF a, n
<1>3. Paired(a) = [k \in 1..(n + 1) |-> <<a[2*k - 1], a[2*k]>>]
  BY <1>2 DEF Paired
<1>4. Paired(s) = [k \in 1..n |-> <<s[2*k - 1], s[2*k]>>]
  BY DEF Paired, n
<1>5. <<<<x, y>>>> \o Paired(s) = [k \in 1..(n + 1) |-> IF k = 1 THEN <<x, y>> ELSE Paired(s)[k - 1]]
  <2> DEFINE q == Paired(s)
  <2>1. q \in Seq(Node \X Node) /\ Len(q) = n
    <3>1. \A k \in 1..n : 2*k - 1 \in 1..Len(s) /\ 2*k \in 1..Len(s)
      BY <1>1, <1>2
    <3>2. \A k \in 1..n : <<s[2*k - 1], s[2*k]>> \in Node \X Node
      BY <3>1
    <3>3. QED BY <1>2, <1>4, <3>2
  <2> HIDE DEF q
  <2>2. <<<<x, y>>>> \o q = [k \in 1..(n + 1) |-> IF k = 1 THEN <<x, y>> ELSE q[k - 1]]
    BY <2>1, InFront
  <2>3. QED BY <2>2 DEF q
<1>6. ASSUME NEW k \in 1..(n + 1)
      PROVE  <<a[2*k - 1], a[2*k]>> = IF k = 1 THEN <<x, y>> ELSE Paired(s)[k - 1]
  <2>1. CASE k = 1
    BY <1>1, <2>1
  <2>2. CASE k # 1
    <3> DEFINE l == k - 1
    <3>1. l \in 1..n /\ 2*l - 1 \in 1..Len(s) /\ 2*l \in 1..Len(s)
      BY <1>1, <1>2, <2>2
    <3>2. 2*k - 1 = (2*l - 1) + 2 /\ 2*k = 2*l + 2
      BY <1>2
    <3>3. a[2*k - 1] = s[2*l - 1] /\ a[2*k] = s[2*l]
      BY <1>1, <3>1, <3>2
    <3>4. QED BY <1>4, <2>2, <3>1, <3>3
  <2>3. QED BY <2>1, <2>2
<1>7. QED BY <1>3, <1>5, <1>6 DEF a

(* One step of reading: from line i on, next() yields the source of line i *)
(* with the next target that is known, and goes on at a line with a known  *)
(* source; in between nothing but PT_TOKEN is left out.                    *)
OneEdge(t, i, d, j) ==
  /\ next(t)[i] = Some(t.lines[i][1], d, j)
  /\ d \in Node /\ j \in (i + 1)..(Len(t.lines) + 1)
  /\ j = Len(t.lines) + 1 \/ Known(t.lines[j][1])
  /\ Remaining(t)[i] = Kept(t.lines[i][1]) \o <<d>> \o Remaining(t)[j]

LEMMA SkipsToken ==
  ASSUME NEW t \in TraceFile, Returns(t)
  PROVE  \A i \in 1..Len(t.lines) : \E d, j : OneEdge(t, i, d, j)
<1> DEFINE m == Len(t.lines)
           S == {i \in 1..m : \E d, j : OneEdge(t, i, d, j)}
<1>1. /\ m \in Nat
      /\ \A i \in 1..m : t.lines[i][1] \in Node /\ t.lines[i][2] \in Node
  BY Lines
<1>2. /\ m > 0 => Known(t.lines[m][2])
      /\ \A i \in 1..(m - 1) : Known(t.lines[i][2]) <=> Known(t.lines[i + 1][1])
  BY DEF Returns
<1>3. ASSUME NEW i \in 1..m, \A j \in (i + 1)..m : j \in S PROVE i \in S
  <2> DEFINE src == t.lines[i][1]
             dst == t.lines[i][2]
             n == next(t)
             r == Remaining(t)
  <2>1. /\ n[i] = Item(t, i, n[i + 1])
        /\ r[i] = Kept(src) \o Kept(dst) \o r[i + 1]
        /\ src \in Node /\ dst \in Node
        /\ r[i + 1] \in Seq(Node) /\ Kept(src) \in Seq(Node)
    <3>1. n[i] = Item(t, i, n[i + 1])
      BY NextIs
    <3>2. i + 1 \in 1..(m + 1)
      BY <1>1
    <3>3. /\ r[i] = Kept(src) \o Kept(dst) \o r[i + 1]
          /\ r[i + 1] \in Seq(Node)
      BY <3>2, RemainingIs
    <3>4. src \in Node /\ dst \in Node /\ Kept(src) \in Seq(Node)
      BY <1>1, KeptType
    <3>5. QED BY <3>1, <3>3, <3>4
  <2>2. CASE Known(dst)
    <3>1. n[i] = Some(src, dst, i + 1) /\ Kept(dst) = <<dst>>
      BY <2>1, <2>2 DEF Item, Known, Kept
    <3>2. i + 1 = m + 1 \/ Known(t.lines[i + 1][1])
      BY <1>1, <1>2, <2>2
    <3>3. i + 1 \in (i + 1)..(m + 1)
      BY <1>1
    <3>4. OneEdge(t, i, dst, i + 1)
      BY <2>1, <3>1, <3>2, <3>3 DEF OneEdge
    <3>5. QED BY <3>4
  <2>3. CASE ~ Known(dst)
    <3>1. i \in 1..(m - 1) /\ i + 1 \in (i + 1)..m /\ ~ Known(t.lines[i + 1][1])
      BY <1>1, <1>2, <2>3
    <3>2. PICK d, j : OneEdge(t, i + 1, d, j)
      BY <1>3, <3>1
    <3>3. /\ n[i + 1] = Some(t.lines[i + 1][1], d, j)
          /\ d \in Node /\ j \in (i + 1 + 1)..(m + 1)
          /\ j = m + 1 \/ Known(t.lines[j][1])
          /\ r[i + 1] = Kept(t.lines[i + 1][1]) \o <<d>> \o r[j]
      BY <3>2 DEF OneEdge
    <3>4. n[i] = Some(src, d, j)
      <4>1. /\ n[i + 1].kind = "some" /\ n[i + 1].src = PT_TOKEN
            /\ n[i + 1].dst = d /\ n[i + 1].rest = j
        BY <3>1, <3>3 DEF Some, Known
      <4>2. dst = PT_TOKEN
        BY <2>3 DEF Known
      <4>3. Item(t, i, n[i + 1]) = Joined(src, n[i + 1])
        BY <4>1, <4>2 DEF Item
      <4>4. Joined(src, n[i + 1]) = Some(src, d, j)
        BY <4>1 DEF Joined
      <4>5. QED BY <2>1, <4>3, <4>4
    <3>5. j \in (i + 1)..(m + 1) /\ j \in 1..(m + 1)
      BY <1>1, <3>3
    <3>6. r[i] = Kept(src) \o <<d>> \o r[j]
      <4>1. Kept(dst) = <<>> /\ Kept(t.lines[i + 1][1]) = <<>>
        BY <2>3, <3>1 DEF Kept
      <4>2. r[j] \in Seq(Node)
        BY <3>5, RemainingIs
      <4>3. r[i + 1] = <<d>> \o r[j]
        BY <3>3, <4>1, <4>2
      <4>4. r[i] = Kept(src) \o r[i + 1]
        BY <2>1, <4>1
      <4>5. ASSUME NEW s \in Seq(Node), NEW u \in Seq(Node) PROVE s \o (<<d>> \o u) = s \o <<d>> \o u
        BY <3>3
      <4>6. Kept(src) \o (<<d>> \o r[j]) = Kept(src) \o <<d>> \o r[j]
        BY <2>1, <4>2, <4>5
      <4>7. QED BY <4>3, <4>4, <4>6, Zenon
    <3>7. OneEdge(t, i, d, j)
      BY <3>3, <3>4, <3>5, <3>6 DEF OneEdge
    <3>8. QED BY <3>7
  <2>4. QED BY <2>2, <2>3
<1> HIDE DEF S
<1>4. \A i \in 1..m : i \in S
  BY <1>1, <1>3, Downwards
<1>5. QED BY <1>4 DEF S

(* Read from the front, the edges of a trace that returns are the          *)
(* remaining addresses in pairs.                                           *)
LEMMA EdgesPaired ==
  ASSUME NEW t \in TraceFile, Returns(t)
  PROVE  Edges(t) = [edges |-> Paired(Remaining(t)[1]), panics |-> FALSE]
<1> DEFINE m == Len(t.lines)
           n == next(t)
           r == Remaining(t)
           Expected(i) == [edges |-> Paired(r[i]), panics |-> FALSE]
           Front(i) == i = m + 1 \/ Known(t.lines[i][1])
<1>1. PICK read : /\ Edges(t) = read[1]
                  /\ \A i \in 1..(m + 1) : read[i] = After(n[i], read[n[i].rest])
  BY EdgesAre
<1> DEFINE S == {i \in 1..(m + 1) : Front(i) => read[i] = Expected(i)}
<1>2. m \in Nat
  BY Lines
<1>3. ASSUME NEW i \in 1..(m + 1), \A j \in (i + 1)..(m + 1) : j \in S, Front(i)
      PROVE  read[i] = Expected(i)
  <2>1. CASE i = m + 1
    <3>1. n[i] = Nothing
      BY <2>1, NextIs DEF Returns
    <3>2. read[i] = [edges |-> <<>>, panics |-> FALSE]
      <4>1. read[i] = After(n[i], read[n[i].rest])
        BY <1>1
      <4> HIDE DEF n
      <4>2. n[i].kind = "none"
        BY <3>1 DEF Nothing
      <4>3. QED BY <4>1, <4>2 DEF After
    <3>3. Paired(<<>>) = <<>>
      BY DEF Paired
    <3>4. r[i] = <<>>
      BY <2>1, RemainingIs
    <3>5. QED BY <3>2, <3>3, <3>4
  <2>2. CASE i # m + 1
    <3>1. i \in 1..m
      BY <1>2, <2>2
    <3>2. PICK d, j : OneEdge(t, i, d, j)
      BY <3>1, SkipsToken
    <3> DEFINE src == t.lines[i][1]
    <3>3. /\ n[i] = Some(src, d, j)
          /\ d \in Node /\ j \in (i + 1)..(m + 1) /\ Front(j)
          /\ r[i] = Kept(src) \o <<d>> \o r[j]
      BY <3>2 DEF OneEdge
    <3>4. src \in Node /\ Kept(src) = <<src>> /\ r[j] \in Seq(Node)
      <4>1. j \in 1..(m + 1)
        BY <1>2, <3>1, <3>3
      <4>2. QED BY <1>3, <2>2, <3>1, <4>1, Lines, RemainingIs DEF Kept
    <3>5. read[j] = Expected(j)
      BY <1>3, <3>3
    <3>6. read[i] = [read[j] EXCEPT !.edges = <<<<src, d>>>> \o read[j].edges]
      <4>1. read[i] = After(n[i], read[n[i].rest])
        BY <1>1
      <4> HIDE DEF n
      <4>2. n[i].kind = "some" /\ n[i].src = src /\ n[i].dst = d /\ n[i].rest = j
        BY <3>3 DEF Some
      <4>3. QED BY <4>1, <4>2 DEF After
    <3> HIDE DEF r, src
    <3>7. r[i] = <<src, d>> \o r[j]
      BY <3>3, <3>4
    <3>8. Paired(r[i]) = <<<<src, d>>>> \o Paired(r[j])
      BY <3>3, <3>4, <3>7, PairedFirst
    <3>9. [read[j] EXCEPT !.edges = <<<<src, d>>>> \o read[j].edges]
            = [edges |-> <<<<src, d>>>> \o Paired(r[j]), panics |-> FALSE]
      <4>1. read[j].edges = Paired(r[j])
        BY <3>5
      <4>2. read[j] \in [edges : {Paired(r[j])}, panics : BOOLEAN] /\ read[j].panics = FALSE
        BY <3>5
      <4>3. ASSUME NEW x PROVE [read[j] EXCEPT !.edges = x] = [edges |-> x, panics |-> read[j].panics]
        BY <4>2
      <4>4. QED BY <4>1, <4>2, <4>3, Zenon
    <3>10. QED BY <3>6, <3>8, <3>9
  <2>3. QED BY <2>1, <2>2
<1>4. \A i \in 1..(m + 1) : i \in S
  <2>1. \A i \in 1..(m + 1) : (\A j \in (i + 1)..(m + 1) : j \in S) => i \in S
    BY <1>3
  <2> HIDE DEF S
  <2>2. m + 1 \in Nat
    BY <1>2
  <2>3. QED BY <2>1, <2>2, Downwards
<1>5. 1 \in 1..(m + 1) /\ Front(1)
  BY <1>2 DEF Returns
<1>6. QED BY <1>1, <1>4, <1>5

(* For a trace that was written to its end and returns from everywhere it  *)
(* leaves to, joining the edges at PT_TOKEN means to forget PT_TOKEN, for  *)
(* traces of every length and every address.                               *)
THEOREM TokenForgotten == Spec => []JoinedAtToken
<1>1. TypeOK => JoinedAtToken
  <2> SUFFICES ASSUME TypeOK, NEW f \in File, Returns(trace[f])
               PROVE  Edges(trace[f])
                        = [edges |-> Paired(Remaining(trace[f])[1]), panics |-> FALSE]
    BY DEF JoinedAtToken
  <2>1. trace[f] \in TraceFile
    BY MatcherAssumption DEF TypeOK
  <2>2. QED BY <2>1, EdgesPaired
<1>2. QED BY <1>1, Typing, PTL

-----------------------------------------------------------------------------
(* The threads implement the sequential matcher.                           *)

LEMMA Attempts ==
  /\ IsFiniteSet(Alive) /\ Cardinality(Alive) \in Nat
  /\ Alive = {} <=> Cardinality(Alive) = 0
  /\ \A t \in Alive : Cardinality(Alive) > 0 /\ Cardinality(Alive \ {t}) = Cardinality(Alive) - 1
<1>1. IsFiniteSet(Thread)
  BY FS_Interval, MatcherAssumption DEF Thread
<1>2. Alive \in SUBSET Thread
  BY DEF Alive
<1>3. IsFiniteSet(Alive)
  BY <1>1, <1>2, FS_Subset
<1>4. Cardinality(Alive) \in Nat
  BY <1>3, FS_CardinalityType
<1>5. Alive = {} <=> Cardinality(Alive) = 0
  BY <1>3, FS_EmptySet
<1>6. ASSUME NEW t \in Alive
      PROVE  Cardinality(Alive) > 0 /\ Cardinality(Alive \ {t}) = Cardinality(Alive) - 1
  BY <1>3, <1>4, <1>5, <1>6, FS_RemoveElement
<1>7. QED BY <1>3, <1>4, <1>5, <1>6

LEMMA MapsInit == Init => M!Init
<1> SUFFICES ASSUME Init PROVE M!Init
  OBVIOUS
<1>1. queue \in Seq(File) /\ DOMAIN queue = File
  BY MatcherAssumption DEF Init, File
<1>2. Rest = File
  BY <1>1 DEF Init, Rest, Queued
<1>3. Alive = Thread /\ Cardinality(Thread) = nproc
  BY FS_Interval, MatcherAssumption DEF Init, Alive, Thread
<1>4. QED BY <1>2, <1>3 DEF Init, M!Init, File, M!File

LEMMA MapsPull == ASSUME Inv, NEW t \in Thread, Pull(t) PROVE UNCHANGED M!matcherVars
<1> DEFINE f == Head(queue)
<1>1. TypeOK /\ EachFileOnce
  BY DEF Inv
<1>2. f \in Queued /\ Queued' = Queued \ {f}
  BY <1>1, Taken DEF Pull
<1>3. /\ state' = [state EXCEPT ![t] = "reading"] /\ file' = [file EXCEPT ![t] = f]
      /\ trace' = trace /\ db' = db /\ main' = main /\ state[t] = "pulling"
  BY DEF Pull
<1> HIDE DEF f
<1>4. \A u \in Thread : /\ state'[u] = IF u = t THEN "reading" ELSE state[u]
                        /\ file'[u] = IF u = t THEN f ELSE file[u]
  BY <1>1, <1>3 DEF TypeOK
<1>5. Alive' = Alive
  BY <1>3, <1>4 DEF Alive
<1>6. Rest' = Rest
  BY <1>2, <1>3, <1>4 DEF Rest
<1>7. QED BY <1>3, <1>5, <1>6 DEF M!matcherVars

LEMMA MapsLeave == ASSUME Inv, NEW t \in Thread, Leave(t) PROVE UNCHANGED M!matcherVars
<1>1. \A u \in Thread : state'[u] = IF u = t THEN "ended" ELSE state[u]
  BY DEF Inv, TypeOK, Leave
<1>2. Rest' = Rest /\ Alive' = Alive
  BY <1>1 DEF Rest, Alive, Queued, Leave
<1>3. QED BY <1>2 DEF M!matcherVars, Leave

LEMMA MapsRead ==
  ASSUME Inv, NEW t \in Thread, Read(t)
  PROVE  UNCHANGED M!matcherVars \/ (main # "reporting" /\ M!Lose(file[t]) /\ file[t] \in File)
<1> DEFINE f == file[t]
           p == Panics(trace[f])
<1>1. TypeOK /\ EachFileOnce /\ Outcomes
  BY DEF Inv
<1>2. state' = [state EXCEPT ![t] = IF p THEN "dead" ELSE "merging"] /\ state[t] = "reading"
  BY DEF Read
<1>3. UNCHANGED <<trace, queue, file, db, merged, main>>
  BY DEF Read
<1>4. \A u \in Thread : state'[u] = IF u = t THEN IF p THEN "dead" ELSE "merging" ELSE state[u]
  BY <1>1, <1>2 DEF TypeOK
<1>5. Queued' = Queued
  BY <1>3 DEF Queued
<1>6. CASE ~ p
  <2>1. Rest' = Rest /\ Alive' = Alive
    BY <1>2, <1>3, <1>4, <1>5, <1>6 DEF Rest, Alive
  <2>2. QED BY <1>3, <2>1 DEF M!matcherVars
<1>7. CASE p
  <2>1. Holding(t) /\ f \in File
    BY <1>1, <1>2 DEF Holding, Outcomes
  <2>2. f \in Rest
    BY <1>2 DEF Rest
  <2>3. f \notin Queued /\ \A u \in Thread : u # t /\ Holding(u) => file[u] # f
    BY <1>1, <2>1 DEF EachFileOnce
  <2>4. Rest' = Rest \ {f}
    BY <1>2, <1>3, <1>4, <1>5, <1>7, <2>3 DEF Rest, Holding
  <2>5. t \in Alive /\ Alive' = Alive \ {t}
    BY <1>2, <1>4, <1>7 DEF Alive
  <2>6. Cardinality(Alive) > 0 /\ Cardinality(Alive') = Cardinality(Alive) - 1
    BY <2>5, Attempts
  <2>7. main # "reporting"
    BY <1>1, <1>2 DEF Outcomes
  <2>8. QED BY <1>3, <1>7, <2>1, <2>2, <2>4, <2>6, <2>7 DEF M!Lose
<1>8. QED BY <1>6, <1>7

LEMMA MapsMerge ==
  ASSUME Inv, NEW t \in Thread, Merge(t)
  PROVE  main # "reporting" /\ M!Count(file[t]) /\ file[t] \in File
<1> DEFINE f == file[t]
<1>1. TypeOK /\ EachFileOnce /\ Outcomes
  BY DEF Inv
<1>2. \A u \in Thread : state'[u] = IF u = t THEN "pulling" ELSE state[u]
  BY <1>1 DEF TypeOK, Merge
<1>3. /\ UNCHANGED <<trace, queue, file, main>> /\ state[t] = "merging"
      /\ db' = db \cup Covered(trace[f]) /\ Queued' = Queued
  BY DEF Merge, Queued
<1>4. Holding(t) /\ f \in File /\ ~ Panics(trace[f])
  BY <1>1, <1>3 DEF Holding, Outcomes
<1>5. f \in Rest
  BY <1>3 DEF Rest
<1>6. f \notin Queued /\ \A u \in Thread : u # t /\ Holding(u) => file[u] # f
  BY <1>1, <1>4 DEF EachFileOnce
<1>7. Rest' = Rest \ {f}
  BY <1>2, <1>3, <1>6 DEF Rest, Holding
<1>8. Alive' = Alive /\ t \in Alive
  BY <1>2, <1>3 DEF Alive
<1>9. Cardinality(Alive) > 0
  BY <1>8, Attempts
<1>10. main # "reporting"
  BY <1>1, <1>3 DEF Outcomes
<1>11. QED BY <1>3, <1>4, <1>5, <1>7, <1>8, <1>9, <1>10 DEF M!Count

LEMMA MapsJoin == ASSUME Inv, Join PROVE M!Report
<1>1. UNCHANGED <<trace, queue, state, file, db, merged>> /\ main = "joining" /\ main' = "reporting"
  BY DEF Join
<1>2. Rest' = Rest /\ Alive' = Alive
  BY <1>1 DEF Rest, Alive, Queued
<1>3. Rest = {} \/ Cardinality(Alive) = 0
  <2>1. CASE \A t \in Thread : state[t] = "dead"
    BY <2>1, Attempts DEF Alive
  <2>2. CASE \E t \in Thread : state[t] = "ended"
    <3>1. queue = <<>> /\ Queued = {}
      BY <2>2 DEF Inv, Outcomes, Queued
    <3>2. QED BY <3>1 DEF Rest, Join
  <2>3. QED BY <2>1, <2>2 DEF Join
<1>4. QED BY <1>1, <1>2, <1>3 DEF M!Report

(* Queue, threads and lock implement the sequential matcher: each file is  *)
(* counted at once and once, a panic costs one attempt, and the report     *)
(* comes with the last file or after the last thread.                      *)
THEOREM Sequential == Spec => ImplementsSequential
<1>1. Inv /\ [Next]_vars => [M!Next]_(M!matcherVars)
  <2> SUFFICES ASSUME Inv, [Next]_vars PROVE M!Next \/ UNCHANGED M!matcherVars
    OBVIOUS
  <2>1. CASE \E t \in Thread : Step(t)
    <3>1. PICK t \in Thread : Step(t)
      BY <2>1
    <3>2. CASE Pull(t)
      BY <3>2, MapsPull
    <3>3. CASE Leave(t)
      BY <3>3, MapsLeave
    <3>4. CASE Read(t)
      BY <3>4, MapsRead DEF M!Next, File, M!File
    <3>5. CASE Merge(t)
      BY <3>5, MapsMerge DEF M!Next, File, M!File
    <3>6. QED BY <3>1, <3>2, <3>3, <3>4, <3>5 DEF Step
  <2>2. CASE Join
    BY <2>2, MapsJoin DEF M!Next
  <2>3. CASE Report \/ UNCHANGED vars
    BY <2>3 DEF M!matcherVars, Rest, Alive, Queued, Report, vars
  <2>4. QED BY <2>1, <2>2, <2>3 DEF Next
<1>2. QED BY <1>1, MapsInit, Invariant, PTL DEF Spec, ImplementsSequential, M!Spec
=============================================================================
