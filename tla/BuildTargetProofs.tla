-------------------------- MODULE BuildTargetProofs --------------------------
(***************************************************************************)
(* What holds of target/ for every number of build jobs, files and runs.   *)
(***************************************************************************)
EXTENDS BuildTarget, FiniteSetTheorems, TLAPS

(* What a job has seen, or has itself put, in target/.                     *)
Came ==
  \A b \in Builder :
    /\ pc[b] \in {"checking", "copying", "writing"} =>
         \A f \in File : f < at[b] => target[f] # Missing
    /\ pc[b] = "writing" => target[at[b]] # Missing
    /\ pc[b] \in {"skipped", "done"} => \A f \in File : target[f] # Missing

(* Files are copied in order: the last one is there only after the others. *)
LastComesLast == target[Files] # Missing => \A f \in File : target[f] # Missing

(* A job that writes file f and has lost none of it: once it is done there *)
(* are no gaps in the file.                                                *)
Fills(b, f) == pc[b] = "writing" /\ at[b] = f /\ overlap[b] # "cut"

(* Only what is being written can be disturbed, and a job that was cut has *)
(* left a gap that nobody has filled yet.                                  *)
Disturbed ==
  \A b \in Builder :
    /\ pc[b] # "writing" => overlap[b] = "alone"
    /\ pc[b] = "writing" /\ overlap[b] = "cut" => target[at[b]] = Torn

(* In the first run a torn file has a job that fills it.                   *)
Attended ==
  runs = 1 /\ (\A b \in Builder : pc[b] # "failed") =>
    \A f \in File : target[f] = Torn => \E b \in Builder : Fills(b, f)

Working == \E b \in Builder : pc[b] \in {"building", "copying", "writing"}

(* In the first run one job alone never mixes anything.                    *)
HasBuilt(b) == pc[b] \in {"copying", "writing", "done", "failed"}
Several == \E b, c \in Builder : b # c /\ HasBuilt(b) /\ HasBuilt(c)
OneCopy ==
  runs = 1 /\ ~ Several =>
    /\ \A b \in Builder : overlap[b] = "alone"
    /\ \A f \in File : target[f] \in {Missing, Torn, <<"whole", 1>>}

(* Job b has come to file f in its copying.                                *)
Reached(b, f) ==
  \/ pc[b] \in {"copying", "writing"} /\ f < at[b]
  \/ pc[b] = "writing" /\ f = at[b]

(* What a copying job has come to is of this run.                          *)
Fresh ==
  \A b \in Builder : \A f \in File : Reached(b, f) => (Filled(f) => RunOf(f) = runs)

(* Once the last file is there nobody starts to copy any more, and the     *)
(* files are all of the run in which it came.                              *)
OneRun ==
  ~ rebuilt =>
    /\ ~ rebuild
    /\ target[Files] # Missing =>
         \E r \in 1..MaxRuns :
           /\ \A f \in File : Filled(f) => RunOf(f) = r
           /\ Working => r = runs

(* The torn files that no further job is sure to write: all, once the last *)
(* file is there, else those that some job has come to.                    *)
Behind(f) == target[Files] # Missing \/ \E b \in Builder : Reached(b, f)
TornBehind == {f \in File : target[f] = Torn /\ Behind(f)}

(* Job b answers for file f: it fills it, or has broken off.               *)
Answers(b, f) == Working => pc[b] = "failed" \/ Fills(b, f)

(* Each of them has a job that answers for it and for no other.            *)
Answered ==
  ~ rebuilt =>
    \E owns \in [Builder -> File] :
      \A f \in TornBehind : \E b \in Builder : owns[b] = f /\ Answers(b, f)

Control == TypeOK /\ Came /\ LastComesLast /\ Disturbed /\ Attended /\ OneCopy
Inv == Control /\ Fresh /\ OneRun /\ Answered

LEMMA Distinct ==
  /\ Missing # Torn
  /\ \A x \in Filling : \A r : <<x, r>> # Missing /\ <<x, r>> # Torn /\ <<x, r>>[2] = r
BY DEF Missing, Torn, Filling

LEMMA InvInit == Init => Inv
<1> SUFFICES ASSUME Init PROVE Inv
  OBVIOUS
<1>1. 1 \in File /\ Files \in File /\ 1 \in 1..MaxRuns
  BY BuildAssumption DEF File
<1>2. TypeOK
  BY <1>1 DEF Init, TypeOK, Ended
<1>3. Came /\ LastComesLast /\ Disturbed /\ Attended /\ OneCopy
  BY <1>1, Distinct DEF Init, Came, LastComesLast, Disturbed, Attended, OneCopy
<1>4. Fresh /\ OneRun
  BY <1>1 DEF Init, Fresh, OneRun, Reached
<1>5. Answered
  <2>1. TornBehind = {}
    BY Distinct DEF Init, TornBehind
  <2>2. [b \in Builder |-> 1] \in [Builder -> File]
    BY <1>1
  <2>3. QED BY <2>1, <2>2 DEF Answered
<1>6. QED BY <1>2, <1>3, <1>4, <1>5 DEF Inv, Control

(* A step of a job leaves the others where they are.                       *)
LEMMA Others ==
  ASSUME TypeOK, NEW b \in Builder, Step(b)
  PROVE  /\ \A c \in Builder \ {b} : pc'[c] = pc[c] /\ at'[c] = at[c]
         /\ rebuild' = rebuild /\ rebuilt' = rebuilt /\ runs' = runs
BY DEF TypeOK, Step, Begin, Check, Build, Truncate, Write, BreakOff, Goto

(* What a completed copy leaves in its file.                               *)
LEMMA Written ==
  ASSUME TypeOK, NEW b \in Builder, Write(b)
  PROVE  \E result \in Filling \X {runs} \cup {Torn} :
           /\ target' = [target EXCEPT ![at[b]] = result]
           /\ result = Torn => overlap[b] = "cut"
           /\ overlap[b] = "alone" => result = <<"whole", runs>>
           /\ overlap' = [c \in Builder |->
                IF c = b THEN "alone"
                ELSE IF c \in CoWriters(b) /\ result # Torn THEN "over"
                ELSE overlap[c]]
<1>1. PICK result \in Outcome(b) :
        /\ target' = [target EXCEPT ![at[b]] = result]
        /\ overlap' = [c \in Builder |->
             IF c = b THEN "alone"
             ELSE IF c \in CoWriters(b) /\ result # Torn THEN "over"
             ELSE overlap[c]]
  BY DEF Write
<1>2. overlap[b] \in {"alone", "over", "cut"}
  BY DEF TypeOK
<1>3. /\ result \in Filling \X {runs} \cup {Torn}
      /\ overlap[b] = "alone" => result = <<"whole", runs>>
      /\ overlap[b] # "cut" => result \in Filling \X {runs}
  BY <1>2 DEF Outcome, Filling
<1>4. result \in Filling \X {runs} => result # Torn
  BY Distinct
<1>5. QED BY <1>1, <1>3, <1>4

(* What a step does to the files.                                          *)
LEMMA Effect ==
  ASSUME TypeOK, NEW b \in Builder, Step(b)
  PROVE  /\ at[b] \in File
         /\ \A f \in File :
              \/ target'[f] = target[f]
              \/ /\ f = at[b] /\ pc[b] \in {"copying", "writing"}
                 /\ target'[f] \in Filling \X {runs} \cup {Torn}
<1>1. at[b] \in File
  BY DEF TypeOK
<1>2. CASE Truncate(b)
  BY <1>1, <1>2 DEF TypeOK, Truncate
<1>3. CASE Write(b)
  <2>1. pc[b] = "writing"
    BY <1>3 DEF Write
  <2>2. PICK result \in Filling \X {runs} \cup {Torn} : target' = [target EXCEPT ![at[b]] = result]
    BY <1>3, Written
  <2>3. QED BY <1>1, <2>1, <2>2 DEF TypeOK
<1>4. CASE Begin(b) \/ Check(b) \/ Build(b) \/ BreakOff(b)
  BY <1>1, <1>4 DEF Begin, Check, Build, BreakOff
<1>5. QED BY <1>2, <1>3, <1>4 DEF Step

(* Nothing that is in target/ is ever removed, and what a step puts there  *)
(* has gaps or is of this run.                                             *)
LEMMA Kept ==
  ASSUME TypeOK, NEW b \in Builder, Step(b)
  PROVE  \A f \in File :
           /\ target[f] # Missing => target'[f] # Missing
           /\ Filled(f)' => (target'[f] = target[f] /\ Filled(f)) \/ RunOf(f)' = runs
<1>1. \A x \in Filling \X {runs} \cup {Torn} : x # Missing /\ (x # Torn => x[2] = runs)
  BY Distinct
<1> SUFFICES ASSUME NEW f \in File
             PROVE  /\ target[f] # Missing => target'[f] # Missing
                    /\ Filled(f)' => (target'[f] = target[f] /\ Filled(f)) \/ RunOf(f)' = runs
  OBVIOUS
<1>2. CASE target'[f] = target[f]
  BY <1>2 DEF Filled
<1>3. CASE target'[f] \in Filling \X {runs} \cup {Torn}
  BY <1>1, <1>3 DEF Filled, RunOf
<1>4. QED BY <1>2, <1>3, Effect

LEMMA TypeKeeps == ASSUME TypeOK, NEW b \in Builder, Step(b) PROVE TypeOK'
<1>1. 1 \in File /\ Files \in Nat
  BY BuildAssumption DEF File
<1>2. CASE Begin(b) \/ Build(b) \/ BreakOff(b)
  BY <1>1, <1>2 DEF TypeOK, Begin, Build, BreakOff, Goto, Ended
<1>3. CASE Check(b)
  <2>1. at[b] # Files => at[b] + 1 \in File
    BY <1>1 DEF TypeOK, File
  <2>2. QED BY <1>1, <1>3, <2>1 DEF TypeOK, Check, Goto, Ended
<1>4. CASE Truncate(b)
  BY <1>4 DEF TypeOK, Truncate, Goto, Ended
<1>5. CASE Write(b)
  <2>1. at[b] < Files => at[b] + 1 \in File
    BY <1>1 DEF TypeOK, File
  <2>2. PICK result \in Filling \X {runs} \cup {Torn} :
          /\ target' = [target EXCEPT ![at[b]] = result]
          /\ overlap' = [c \in Builder |->
               IF c = b THEN "alone"
               ELSE IF c \in CoWriters(b) /\ result # Torn THEN "over"
               ELSE overlap[c]]
    BY <1>5, Written
  <2>3. result \in {Missing, Torn} \cup (Filling \X (1..MaxRuns))
    BY DEF TypeOK
  <2>4. target' \in [File -> {Missing, Torn} \cup (Filling \X (1..MaxRuns))]
    BY <2>2, <2>3 DEF TypeOK
  <2>5. overlap' \in [Builder -> {"alone", "over", "cut"}]
    BY <2>2 DEF TypeOK
  <2>6. /\ pc' \in [Builder -> {"queued", "checking", "building", "copying", "writing"} \cup Ended]
        /\ at' \in [Builder -> File]
    BY <1>1, <1>5, <2>1 DEF TypeOK, Write, Goto, Ended
  <2>7. QED BY <1>5, <2>4, <2>5, <2>6 DEF TypeOK, Write
<1>6. QED BY <1>2, <1>3, <1>4, <1>5 DEF Step

LEMMA CameKeeps == ASSUME Control, NEW b \in Builder, Step(b) PROVE Came' /\ LastComesLast'
<1>1. TypeOK /\ Came /\ LastComesLast /\ TypeOK'
  BY TypeKeeps DEF Control
<1>2. at[b] \in File /\ at[b] \in Nat /\ Files \in File /\ Files \in Nat
  BY <1>1, BuildAssumption DEF TypeOK, File
<1>3. \A f \in File : f \in Nat /\ 1 <= f /\ f <= Files
  BY <1>2 DEF File
<1>4. Came'
  <2> SUFFICES ASSUME NEW c \in Builder
               PROVE  /\ pc'[c] \in {"checking", "copying", "writing"} =>
                           \A f \in File : f < at'[c] => target'[f] # Missing
                      /\ pc'[c] = "writing" => target'[at'[c]] # Missing
                      /\ pc'[c] \in {"skipped", "done"} => \A f \in File : target'[f] # Missing
    BY DEF Came
  <2>1. CASE c # b
    BY <1>1, <2>1, Others, Kept DEF Came, TypeOK
  <2>2. CASE c = b /\ (Begin(b) \/ Build(b) \/ BreakOff(b))
    BY <1>1, <1>3, <2>2 DEF TypeOK, Begin, Build, BreakOff, Goto
  <2>3. CASE c = b /\ Check(b)
    BY <1>1, <1>2, <1>3, <2>3 DEF TypeOK, Check, Goto, Came
  <2>4. CASE c = b /\ Truncate(b)
    BY <1>1, <1>2, <1>3, <2>4, Distinct DEF TypeOK, Truncate, Goto, Came
  <2>5. CASE c = b /\ Write(b)
    <3>1. target'[at[b]] # Missing
      BY <1>1, <1>2, <2>5, Kept DEF Came, Write
    <3>2. \A f \in File : f < at[b] => target'[f] # Missing
      BY <1>1, <2>5, Kept DEF Came, Write
    <3>3. pc'[c] \in {"copying", "done"} /\ at'[c] \in {1, at[b] + 1}
      BY <1>1, <2>5 DEF TypeOK, Write, Goto
    <3>4. pc'[c] = "copying" => at'[c] = at[b] + 1
      BY <1>1, <2>5 DEF TypeOK, Write, Goto
    <3>5. pc'[c] = "done" => at[b] = Files
      BY <1>1, <1>2, <1>3, <2>5 DEF TypeOK, Write, Goto
    <3>6. \A f \in File : f < at[b] + 1 => f < at[b] \/ f = at[b]
      BY <1>2, <1>3
    <3>7. QED BY <1>2, <1>3, <3>1, <3>2, <3>3, <3>4, <3>5, <3>6
  <2>6. QED BY <2>1, <2>2, <2>3, <2>4, <2>5 DEF Step
<1>5. LastComesLast'
  <2>1. CASE target[Files] # Missing
    BY <1>1, <2>1, Kept DEF LastComesLast
  <2>2. CASE target[Files] = Missing /\ Truncate(b)
    BY <1>1, <1>2, <1>3, <2>2, Distinct DEF TypeOK, Truncate, Came, LastComesLast
  <2>3. CASE target[Files] = Missing /\ Write(b)
    <3>1. at[b] # Files
      BY <1>1, <2>3 DEF Write, Came
    <3>2. target'[Files] = target[Files]
      BY <1>1, <1>2, <3>1, Effect
    <3>3. QED BY <2>3, <3>2 DEF LastComesLast
  <2>4. CASE target[Files] = Missing /\ UNCHANGED target
    BY <2>4 DEF LastComesLast
  <2>5. QED BY <2>1, <2>2, <2>3, <2>4 DEF Step, Begin, Check, Build, BreakOff
<1>6. QED BY <1>4, <1>5

(* Who is disturbed by a step of another job.                              *)
LEMMA OverlapOthers ==
  ASSUME TypeOK, NEW b \in Builder, Step(b), NEW c \in Builder \ {b}
  PROVE  \/ overlap'[c] = overlap[c]
         \/ Truncate(b) /\ at[c] = at[b] /\ overlap'[c] = "cut"
         \/ Write(b) /\ overlap'[c] = "over" /\ target'[at[b]] # Torn
<1>1. CASE Truncate(b)
  BY <1>1 DEF TypeOK, Truncate, CoWriters
<1>2. CASE Write(b)
  <2>1. PICK result \in Filling \X {runs} \cup {Torn} :
          /\ target' = [target EXCEPT ![at[b]] = result]
          /\ overlap' = [d \in Builder |->
               IF d = b THEN "alone"
               ELSE IF d \in CoWriters(b) /\ result # Torn THEN "over"
               ELSE overlap[d]]
    BY <1>2, Written
  <2>2. target'[at[b]] = result
    BY <2>1 DEF TypeOK
  <2>3. QED BY <1>2, <2>1, <2>2
<1>3. CASE Begin(b) \/ Check(b) \/ Build(b) \/ BreakOff(b)
  BY <1>3 DEF TypeOK, Begin, Check, Build, BreakOff
<1>4. QED BY <1>1, <1>2, <1>3 DEF Step

(* A copy that was not truncated by others leaves no gap; one that was     *)
(* leaves the gap as it found it.                                          *)
LEMMA Gap ==
  ASSUME Control, NEW b \in Builder, Write(b), target'[at[b]] = Torn
  PROVE  overlap[b] = "cut" /\ target[at[b]] = Torn
<1>1. TypeOK /\ Disturbed /\ pc[b] = "writing"
  BY DEF Control, Write
<1>2. PICK result \in Filling \X {runs} \cup {Torn} :
        /\ target' = [target EXCEPT ![at[b]] = result]
        /\ result = Torn => overlap[b] = "cut"
  BY <1>1, Written
<1>3. target'[at[b]] = result
  BY <1>1, <1>2 DEF TypeOK
<1>4. QED BY <1>1, <1>2, <1>3 DEF Disturbed

LEMMA DisturbedKeeps == ASSUME Control, NEW b \in Builder, Step(b) PROVE Disturbed'
<1>1. TypeOK /\ Disturbed
  BY DEF Control
<1> SUFFICES ASSUME NEW c \in Builder
             PROVE  /\ pc'[c] # "writing" => overlap'[c] = "alone"
                    /\ pc'[c] = "writing" /\ overlap'[c] = "cut" => target'[at'[c]] = Torn
  BY DEF Disturbed
<1>2. CASE c = b
  <2>1. CASE Truncate(b)
    BY <1>1, <1>2, <2>1 DEF TypeOK, Disturbed, Truncate, Goto, CoWriters
  <2>2. CASE Write(b)
    <3>1. overlap'[b] = "alone"
      BY <1>1, <2>2, Written
    <3>2. QED BY <1>2, <3>1
  <2>3. CASE Begin(b) \/ Check(b) \/ Build(b)
    BY <1>1, <1>2, <2>3 DEF TypeOK, Disturbed, Begin, Check, Build, Goto
  <2>4. CASE BreakOff(b)
    BY <1>1, <1>2, <2>4 DEF TypeOK, BreakOff, Goto
  <2>5. QED BY <2>1, <2>2, <2>3, <2>4 DEF Step
<1>3. CASE c # b
  <2>1. pc'[c] = pc[c] /\ at'[c] = at[c] /\ at[c] \in File
    BY <1>1, <1>3, Others DEF TypeOK
  <2>2. pc[c] # "writing" => overlap'[c] = "alone"
    <3>1. CASE Truncate(b)
      BY <1>1, <1>3, <3>1 DEF TypeOK, Disturbed, Truncate, CoWriters
    <3>2. CASE Write(b)
      <4>1. pc[c] # "writing" => c \notin CoWriters(b)
        BY DEF CoWriters
      <4>2. pc[c] # "writing" => overlap'[c] = overlap[c]
        BY <1>1, <1>3, <3>2, <4>1, Written
      <4>3. QED BY <1>1, <4>2 DEF Disturbed
    <3>3. CASE Begin(b) \/ Check(b) \/ Build(b) \/ BreakOff(b)
      BY <1>1, <1>3, <3>3 DEF TypeOK, Disturbed, Begin, Check, Build, BreakOff
    <3>4. QED BY <3>1, <3>2, <3>3 DEF Step
  <2>3. ASSUME pc[c] = "writing", overlap'[c] = "cut" PROVE target'[at[c]] = Torn
    <3>1. CASE Truncate(b) /\ at[c] = at[b]
      BY <1>1, <2>1, <3>1 DEF TypeOK, Truncate
    <3>2. CASE Truncate(b) /\ at[c] # at[b]
      <4>1. overlap[c] = "cut"
        BY <1>1, <1>3, <2>3, <3>2, OverlapOthers DEF Truncate, Write
      <4>2. QED BY <1>1, <2>1, <2>3, <3>2, <4>1 DEF TypeOK, Truncate, Disturbed
    <3>3. CASE Write(b)
      <4>1. PICK result \in Filling \X {runs} \cup {Torn} :
              /\ target' = [target EXCEPT ![at[b]] = result]
              /\ overlap' = [d \in Builder |->
                   IF d = b THEN "alone"
                   ELSE IF d \in CoWriters(b) /\ result # Torn THEN "over"
                   ELSE overlap[d]]
        BY <1>1, <3>3, Written
      <4>2. overlap[c] = "cut" /\ (at[c] = at[b] => result = Torn)
        BY <1>3, <2>3, <4>1 DEF CoWriters
      <4>3. target[at[c]] = Torn
        BY <1>1, <2>3, <4>2 DEF Disturbed
      <4>4. QED BY <1>1, <2>1, <4>1, <4>2, <4>3 DEF TypeOK
    <3>4. CASE Begin(b) \/ Check(b) \/ Build(b) \/ BreakOff(b)
      BY <1>1, <1>3, <2>3, <3>4 DEF TypeOK, Disturbed, Begin, Check, Build, BreakOff
    <3>5. QED BY <3>1, <3>2, <3>3, <3>4 DEF Step
  <2>4. QED BY <2>1, <2>2, <2>3
<1>4. QED BY <1>2, <1>3

(* A job goes on filling its file whatever another one does to other files *)
(* or writes to the same one.                                              *)
LEMMA FillsOn ==
  ASSUME TypeOK, NEW b \in Builder, Step(b), NEW c \in Builder \ {b}, NEW f, Fills(c, f),
         ~ (Truncate(b) /\ at[b] = f)
  PROVE  Fills(c, f)'
BY Others, OverlapOthers DEF Fills

(* The job that truncated a file last fills it.                            *)
LEMMA TruncateFills ==
  ASSUME TypeOK, Disturbed, NEW b \in Builder, Truncate(b), NEW f, f = at[b]
  PROVE  Fills(b, f)'
BY DEF TypeOK, Truncate, Goto, Fills, Disturbed, CoWriters

LEMMA AttendedKeeps == ASSUME Control, NEW b \in Builder, Step(b) PROVE Attended'
<1>1. TypeOK /\ Attended /\ Disturbed
  BY DEF Control
<1> SUFFICES ASSUME runs = 1, \A c \in Builder : pc'[c] # "failed",
                    NEW f \in File, target'[f] = Torn
             PROVE  \E c \in Builder : Fills(c, f)'
  BY <1>1, Others DEF Attended
<1>2. at[b] \in File
  BY <1>1 DEF TypeOK
<1>3. \A c \in Builder : pc[c] # "failed"
  BY <1>1, Others DEF TypeOK, Step, Begin, Check, Build, Truncate, Write, BreakOff
<1>4. CASE Begin(b) \/ Check(b) \/ Build(b)
  <2>1. PICK c \in Builder : Fills(c, f)
    BY <1>1, <1>3, <1>4 DEF Attended, Begin, Check, Build
  <2>2. c # b /\ ~ Truncate(b)
    BY <1>4, <2>1 DEF Fills, Begin, Check, Build, Truncate
  <2>3. QED BY <1>1, <2>1, <2>2, FillsOn
<1>5. CASE Truncate(b)
  <2>1. CASE f = at[b]
    BY <1>1, <1>5, <2>1, TruncateFills
  <2>2. CASE f # at[b]
    <3>1. target[f] = Torn
      BY <1>1, <1>2, <1>5, <2>2 DEF TypeOK, Truncate
    <3>2. PICK c \in Builder : Fills(c, f)
      BY <1>1, <1>3, <3>1 DEF Attended
    <3>3. c # b
      BY <1>5, <3>2 DEF Truncate, Fills
    <3>4. QED BY <1>1, <2>2, <3>2, <3>3, FillsOn
  <2>3. QED BY <2>1, <2>2
<1>6. CASE Write(b)
  <2>1. target[f] = Torn /\ (f = at[b] => overlap[b] = "cut")
    <3>1. CASE f = at[b]
      BY <1>6, <3>1, Gap
    <3>2. CASE f # at[b]
      BY <1>1, <3>2, Effect
    <3>3. QED BY <3>1, <3>2
  <2>2. PICK c \in Builder : Fills(c, f)
    BY <1>1, <1>3, <2>1 DEF Attended
  <2>3. c # b /\ ~ Truncate(b)
    BY <1>6, <2>1, <2>2 DEF Fills, Write, Truncate
  <2>4. QED BY <1>1, <2>2, <2>3, FillsOn
<1>7. CASE BreakOff(b)
  BY <1>1, <1>7 DEF TypeOK, BreakOff, Goto
<1>8. QED BY <1>4, <1>5, <1>6, <1>7 DEF Step

LEMMA OneCopyKeeps == ASSUME Control, NEW b \in Builder, Step(b) PROVE OneCopy'
<1>1. TypeOK /\ OneCopy /\ at[b] \in File
  BY DEF Control, TypeOK
<1> SUFFICES ASSUME runs = 1, ~ Several'
             PROVE  /\ \A c \in Builder : overlap'[c] = "alone"
                    /\ \A f \in File : target'[f] \in {Missing, Torn, <<"whole", 1>>}
  BY <1>1, Others DEF OneCopy
<1>2. \A c \in Builder : HasBuilt(c) => HasBuilt(c)'
  BY <1>1, Others
     DEF TypeOK, HasBuilt, Step, Begin, Check, Build, Truncate, Write, BreakOff, Goto
<1>3. ~ Several
  BY <1>2 DEF Several
<1>4. /\ \A c \in Builder : overlap[c] = "alone"
      /\ \A f \in File : target[f] \in {Missing, Torn, <<"whole", 1>>}
  BY <1>1, <1>3 DEF OneCopy
<1>5. CASE Truncate(b)
  <2>1. CoWriters(b) = {}
    BY <1>3, <1>5 DEF CoWriters, Several, HasBuilt, Truncate
  <2>2. QED BY <1>1, <1>4, <1>5, <2>1 DEF TypeOK, Truncate
<1>6. CASE Write(b)
  <2>1. CoWriters(b) = {}
    BY <1>3, <1>6 DEF CoWriters, Several, HasBuilt, Write
  <2>2. PICK result \in Filling \X {runs} \cup {Torn} :
          /\ target' = [target EXCEPT ![at[b]] = result]
          /\ overlap[b] = "alone" => result = <<"whole", runs>>
          /\ overlap' = [d \in Builder |->
               IF d = b THEN "alone"
               ELSE IF d \in CoWriters(b) /\ result # Torn THEN "over"
               ELSE overlap[d]]
    BY <1>1, <1>6, Written
  <2>3. result = <<"whole", 1>>
    BY <1>4, <2>2
  <2>4. QED BY <1>1, <1>4, <2>1, <2>2, <2>3 DEF TypeOK
<1>7. CASE Begin(b) \/ Check(b) \/ Build(b) \/ BreakOff(b)
  BY <1>1, <1>4, <1>7 DEF TypeOK, Begin, Check, Build, BreakOff
<1>8. QED BY <1>5, <1>6, <1>7 DEF Step

LEMMA ControlKeeps == Control /\ (\E b \in Builder : Step(b)) => Control'
BY TypeKeeps, CameKeeps, DisturbedKeeps, AttendedKeeps, OneCopyKeeps DEF Control

(* Where a step brings a job in its copying: to the file it truncates.     *)
LEMMA ReachedBefore ==
  ASSUME TypeOK, NEW b \in Builder, Step(b), NEW c \in Builder, NEW f \in File, Reached(c, f)'
  PROVE  Reached(c, f) \/ (c = b /\ Truncate(b) /\ f = at[b])
<1>1. at[b] \in Nat /\ f \in Nat /\ 1 <= f
  BY BuildAssumption DEF TypeOK, File
<1>2. CASE c # b
  BY <1>2, Others DEF Reached
<1>3. CASE c = b /\ Truncate(b)
  BY <1>3 DEF TypeOK, Truncate, Goto, Reached
<1>4. CASE c = b /\ Write(b)
  <2>1. pc[b] = "writing" /\ pc'[b] # "writing" /\ (pc'[b] = "copying" => at'[b] = at[b] + 1)
    BY <1>4 DEF TypeOK, Write, Goto
  <2>2. f < at[b] + 1
    BY <1>4, <2>1 DEF Reached
  <2>3. QED BY <1>1, <1>4, <2>1, <2>2 DEF Reached
<1>5. CASE c = b /\ (Begin(b) \/ Check(b) \/ Build(b) \/ BreakOff(b))
  <2>1. pc'[b] # "writing" /\ (pc'[b] = "copying" => at'[b] = 1)
    BY <1>5 DEF TypeOK, Begin, Check, Build, BreakOff, Goto
  <2>2. QED BY <1>1, <1>5, <2>1 DEF Reached
<1>6. QED BY <1>2, <1>3, <1>4, <1>5 DEF Step

LEMMA FreshKeeps == ASSUME Control, Fresh, NEW b \in Builder, Step(b) PROVE Fresh'
<1>1. TypeOK
  BY DEF Control
<1> SUFFICES ASSUME NEW c \in Builder, NEW f \in File, Filled(f)', Reached(c, f)'
             PROVE  RunOf(f)' = runs
  BY <1>1, Others DEF Fresh
<1>2. CASE Truncate(b) /\ f = at[b]
  BY <1>1, <1>2 DEF TypeOK, Truncate, Filled
<1>3. CASE Reached(c, f)
  <2>1. Filled(f) => RunOf(f) = runs
    BY <1>3 DEF Fresh
  <2>2. QED BY <1>1, <2>1, Kept DEF RunOf
<1>4. QED BY <1>1, <1>2, <1>3, ReachedBefore

(* Nobody begins to build once the last file is there.                     *)
LEMMA WorkersStay ==
  ASSUME Control, OneRun, ~ rebuilt, target[Files] # Missing, NEW b \in Builder, Step(b), Working'
  PROVE  Working
<1>1. TypeOK /\ ~ rebuild /\ at[b] \in File /\ \A f \in File : target[f] # Missing
  BY DEF Control, OneRun, LastComesLast, TypeOK
<1>2. PICK c \in Builder : pc'[c] \in {"building", "copying", "writing"}
  BY DEF Working
<1>3. CASE c # b
  BY <1>1, <1>2, <1>3, Others DEF Working
<1>4. CASE c = b
  BY <1>1, <1>2, <1>4
     DEF TypeOK, Working, Step, Begin, Check, Build, Truncate, Write, BreakOff, Goto
<1>5. QED BY <1>3, <1>4

LEMMA OneRunKeeps ==
  ASSUME Control, Fresh, OneRun, NEW b \in Builder, Step(b)
  PROVE  OneRun'
<1>1. TypeOK /\ Came
  BY DEF Control
<1> SUFFICES ASSUME ~ rebuilt
             PROVE  /\ ~ rebuild
                    /\ target'[Files] # Missing =>
                         \E r \in 1..MaxRuns :
                           /\ \A f \in File : Filled(f)' => RunOf(f)' = r
                           /\ Working' => r = runs
  BY <1>1, Others DEF OneRun
<1>2. ~ rebuild /\ runs \in 1..MaxRuns /\ at[b] \in File /\ Files \in File
  BY <1>1, BuildAssumption DEF OneRun, TypeOK, File
<1>3. \A f \in File :
        \/ target'[f] = target[f]
        \/ Working /\ (Filled(f)' => RunOf(f)' = runs)
  <2>1. \A x \in Filling \X {runs} \cup {Torn} : x # Torn => x[2] = runs
    OBVIOUS
  <2>2. QED BY <1>1, <2>1, Effect DEF Working, Filled, RunOf
<1>4. \A f \in File : target'[f] = target[f] => (Filled(f)' <=> Filled(f)) /\ RunOf(f)' = RunOf(f)
  BY DEF Filled, RunOf
<1>5. CASE target[Files] # Missing
  <2>1. PICK r \in 1..MaxRuns : /\ \A f \in File : Filled(f) => RunOf(f) = r
                                /\ Working => r = runs
    BY <1>5 DEF OneRun
  <2>2. Working' => Working
    BY <1>5, WorkersStay
  <2>3. QED BY <1>2, <1>3, <1>4, <2>1, <2>2
<1>6. CASE target[Files] = Missing /\ target'[Files] # Missing
  <2>1. at[b] = Files /\ pc[b] \in {"copying", "writing"}
    BY <1>1, <1>2, <1>6, Effect
  <2>2. \A f \in File : f < Files \/ f = Files
    BY BuildAssumption DEF File
  <2>3. \A f \in File : f # Files => (Filled(f) => RunOf(f) = runs)
    BY <2>1, <2>2 DEF Fresh, Reached
  <2>4. \A f \in File : Filled(f)' => RunOf(f)' = runs
    BY <1>1, <1>3, <1>4, <1>6, <2>3 DEF Filled
  <2>5. QED BY <1>2, <2>4
<1>7. QED BY <1>2, <1>5, <1>6

LEMMA AnsweredKeeps ==
  ASSUME Control, OneRun, Answered, NEW b \in Builder, Step(b)
  PROVE  Answered'
<1>1. TypeOK /\ Came /\ LastComesLast /\ Disturbed
  BY DEF Control
<1> SUFFICES ASSUME ~ rebuilt
             PROVE  \E owns \in [Builder -> File] :
                      \A f \in TornBehind' : \E c \in Builder : owns[c] = f /\ Answers(c, f)'
  BY <1>1, Others DEF Answered
<1>2. PICK owns \in [Builder -> File] :
        \A f \in TornBehind : \E c \in Builder : owns[c] = f /\ Answers(c, f)
  BY DEF Answered
<1>3. at[b] \in File /\ Files \in File
  BY <1>1, BuildAssumption DEF TypeOK, File
<1>4. \A f \in File : f \in Nat /\ (f < Files \/ f = Files)
  BY BuildAssumption DEF File
<1>5. ASSUME NEW f \in TornBehind', ~ (Truncate(b) /\ f = at[b])
      PROVE  f \in TornBehind
  <2>1. f \in File /\ target'[f] = Torn /\ Behind(f)'
    BY DEF TornBehind
  <2>2. target[f] = Torn
    <3>1. CASE target'[f] = target[f]
      BY <2>1, <3>1
    <3>2. CASE f = at[b] /\ pc[b] \in {"copying", "writing"}
      <4>1. target'[f] # target[f] => Write(b)
        BY <1>5, <3>2 DEF Step, Begin, Check, Build, BreakOff
      <4>2. QED BY <2>1, <3>1, <3>2, <4>1, Gap
    <3>3. QED BY <1>1, <2>1, <3>1, <3>2, Effect
  <2>3. Behind(f)
    <3>1. CASE target[Files] # Missing
      BY <3>1 DEF Behind
    <3>2. CASE target[Files] = Missing /\ target'[Files] # Missing
      <4>1. at[b] = Files /\ pc[b] \in {"copying", "writing"}
        BY <1>1, <1>3, <3>2, Effect
      <4>2. f = Files => Write(b)
        BY <1>5, <2>1, <3>2, <4>1 DEF Step, Begin, Check, Build, BreakOff
      <4>3. Reached(b, f)
        BY <1>4, <2>1, <4>1, <4>2 DEF Reached, Write
      <4>4. QED BY <4>3 DEF Behind
    <3>3. CASE target'[Files] = Missing
      <4>1. PICK c \in Builder : Reached(c, f)'
        BY <2>1, <3>3 DEF Behind
      <4>2. Reached(c, f)
        BY <1>1, <1>5, <2>1, <4>1, ReachedBefore
      <4>3. QED BY <4>2 DEF Behind
    <3>4. QED BY <3>1, <3>2, <3>3
  <2>4. QED BY <2>1, <2>2, <2>3 DEF TornBehind
<1>6. ASSUME NEW f \in TornBehind, target'[f] = Torn, ~ (Truncate(b) /\ f = at[b]),
             NEW c \in Builder, Answers(c, f)
      PROVE  Answers(c, f)'
  <2> SUFFICES ASSUME Working' PROVE pc'[c] = "failed" \/ Fills(c, f)'
    BY DEF Answers
  <2>1. Working
    <3>1. CASE target[Files] # Missing
      BY <3>1, WorkersStay
    <3>2. CASE target[Files] = Missing
      BY <3>2 DEF TornBehind, Behind, Reached, Working
    <3>3. QED BY <3>1, <3>2
  <2>2. pc[c] = "failed" \/ Fills(c, f)
    BY <1>6, <2>1 DEF Answers
  <2>3. CASE c # b
    BY <1>1, <1>6, <2>2, <2>3, Others, FillsOn
  <2>4. CASE c = b
    <3>1. pc[b] # "failed"
      BY DEF Step, Begin, Check, Build, Truncate, Write, BreakOff
    <3>2. Fills(b, f)
      BY <2>2, <2>4, <3>1
    <3>3. ~ Write(b)
      BY <1>6, <3>2, Gap DEF Fills
    <3>4. BreakOff(b)
      BY <3>2, <3>3 DEF Fills, Step, Begin, Check, Build, Truncate
    <3>5. QED BY <1>1, <2>4, <3>4 DEF TypeOK, BreakOff, Goto
  <2>5. QED BY <2>3, <2>4
<1>7. CASE ~ Truncate(b)
  <2>1. ASSUME NEW f \in TornBehind'
        PROVE  \E c \in Builder : owns[c] = f /\ Answers(c, f)'
    <3>1. f \in TornBehind /\ target'[f] = Torn
      BY <1>5, <1>7 DEF TornBehind
    <3>2. QED BY <1>2, <1>6, <1>7, <3>1
  <2>2. QED BY <2>1
<1>8. CASE Truncate(b)
  <2> DEFINE i == at[b]
             now == [owns EXCEPT ![b] = i]
  <2>1. now \in [Builder -> File] /\ now[b] = i /\ \A c \in Builder : c # b => now[c] = owns[c]
    BY <1>3
  <2> HIDE DEF now
  <2>2. ASSUME NEW f \in TornBehind'
        PROVE  \E c \in Builder : now[c] = f /\ Answers(c, f)'
    <3>1. CASE f = i
      BY <1>1, <1>8, <2>1, <3>1, TruncateFills DEF Answers
    <3>2. CASE f # i
      <4>1. f \in TornBehind /\ target'[f] = Torn
        BY <1>5, <3>2 DEF TornBehind
      <4>2. PICK c \in Builder : owns[c] = f /\ Answers(c, f)
        BY <1>2, <4>1
      <4>3. c # b
        BY <1>8, <4>2 DEF Answers, Fills, Truncate, Working
      <4>4. QED BY <1>6, <2>1, <3>2, <4>1, <4>2, <4>3
    <3>3. QED BY <3>1, <3>2
  <2>3. QED BY <2>1, <2>2
<1>9. QED BY <1>7, <1>8

LEMMA RestartKeeps == ASSUME Inv, Restart PROVE Inv'
<1>1. TypeOK /\ LastComesLast /\ OneRun /\ Answered
  BY DEF Inv, Control
<1>2. /\ runs' = runs + 1 /\ rebuild' \in BOOLEAN /\ rebuilt' = (rebuilt \/ rebuild')
      /\ target' = target /\ runs < MaxRuns
      /\ pc' = [b \in Builder |-> "queued"] /\ at' = [b \in Builder |-> 1]
      /\ overlap' = [b \in Builder |-> "alone"]
  BY DEF Restart
<1>3. runs \in Nat /\ runs >= 1 /\ 1 \in File /\ Files \in File /\ ~ Working'
  BY <1>1, <1>2, BuildAssumption DEF TypeOK, File, Working
<1>4. TypeOK'
  BY <1>1, <1>2, <1>3, BuildAssumption DEF TypeOK
<1>5. Came' /\ LastComesLast' /\ Disturbed' /\ Attended' /\ OneCopy' /\ Fresh'
  BY <1>1, <1>2, <1>3
     DEF Came, LastComesLast, Disturbed, Attended, OneCopy, Fresh, Reached
<1>6. OneRun'
  <2>1. \A f \in File : (Filled(f)' <=> Filled(f)) /\ RunOf(f)' = RunOf(f)
    BY <1>2 DEF Filled, RunOf
  <2>2. QED BY <1>1, <1>2, <1>3, <2>1 DEF OneRun, TypeOK
<1>7. Answered'
  <2> SUFFICES ASSUME ~ rebuilt
               PROVE  \E owns \in [Builder -> File] :
                        \A f \in TornBehind' : \E b \in Builder : owns[b] = f
    BY <1>1, <1>2, <1>3 DEF Answered, Answers, TypeOK
  <2>1. TornBehind' \subseteq TornBehind
    BY <1>2 DEF TornBehind, Behind, Reached
  <2>2. QED BY <1>1, <2>1 DEF Answered
<1>8. QED BY <1>4, <1>5, <1>6, <1>7 DEF Inv, Control

LEMMA Invariant == Spec => []Inv
<1>1. Inv /\ [Next]_vars => Inv'
  <2> SUFFICES ASSUME Inv, [Next]_vars PROVE Inv'
    OBVIOUS
  <2>1. CASE \E b \in Builder : Step(b)
    BY <2>1, ControlKeeps, FreshKeeps, OneRunKeeps, AnsweredKeeps DEF Inv
  <2>2. CASE Restart
    BY <2>2, RestartKeeps
  <2>3. CASE UNCHANGED vars
    <3>1. Control' /\ Fresh'
      BY <2>3
         DEF Inv, Control, TypeOK, Came, LastComesLast, Disturbed, Attended, Fills, OneCopy,
             Several, HasBuilt, Fresh, Reached, Filled, RunOf, vars
    <3>2. OneRun' /\ Answered'
      BY <2>3
         DEF Inv, OneRun, Answered, Answers, Fills, TornBehind, Behind, Reached, Working,
             Filled, RunOf, vars
    <3>3. QED BY <3>1, <3>2 DEF Inv
  <2>4. QED BY <2>1, <2>2, <2>3 DEF Next, Settled
<1>2. QED BY <1>1, InvInit, PTL DEF Spec

(* The state of the build stage stays within its types: no job looks past  *)
(* the last of the target files.                                           *)
THEOREM Typing == Spec => []TypeOK
<1>1. Inv => TypeOK
  BY DEF Inv, Control
<1>2. QED BY <1>1, Invariant, PTL

(* A campaign that was not interrupted fuzzes files without gaps, however  *)
(* its build jobs check and copy over each other, and copies of one build  *)
(* if only one job has built.                                              *)
THEOREM FilledFiles == Spec => []FilledAtBarrier
<1>1. Inv => FilledAtBarrier
  <2> SUFFICES ASSUME Inv, runs = 1, Passed PROVE FilledAtBarrier
    BY DEF FilledAtBarrier
  <2>1. 1 \in Builder /\ \A b \in Builder : pc[b] \in {"skipped", "done"}
    BY BuildAssumption DEF Passed, Builder
  <2>2. ASSUME NEW f \in File PROVE Filled(f)
    <3>1. target[f] # Missing
      BY <2>1 DEF Inv, Control, Came
    <3>2. target[f] # Torn
      BY <2>1 DEF Inv, Control, Attended, Fills
    <3>3. QED BY <3>1, <3>2 DEF Filled
  <2>3. ASSUME NEW b \in Builder, \A c \in Builder \ {b} : pc[c] = "skipped", NEW f \in File
        PROVE  target[f] = <<"whole", 1>>
    <3>1. ~ Several
      BY <2>3 DEF Several, HasBuilt
    <3>2. target[f] \in {Missing, Torn, <<"whole", 1>>}
      BY <3>1 DEF Inv, Control, OneCopy
    <3>3. QED BY <2>2, <3>2 DEF Filled
  <2>4. QED BY <2>2, <2>3 DEF FilledAtBarrier
<1>2. QED BY <1>1, Invariant, PTL

(* A campaign without --rebuild never fuzzes files of two runs, and takes  *)
(* at most one torn file for each of its build jobs.                       *)
THEOREM OneRunsOnly == Spec => []OneRunsFiles
<1>1. Inv => OneRunsFiles
  <2> DEFINE Tears == {f \in File : target[f] = Torn}
  <2> SUFFICES ASSUME Inv, ~ rebuilt, Passed
               PROVE  /\ \A f \in File : target[f] # Missing
                      /\ Cardinality(Tears) <= Builders
                      /\ \A f, g \in File : Filled(f) /\ Filled(g) => RunOf(f) = RunOf(g)
    BY DEF OneRunsFiles
  <2>1. 1 \in Builder /\ Files \in File
    BY BuildAssumption DEF Builder, File
  <2>2. \A f \in File : target[f] # Missing
    BY <2>1 DEF Passed, Inv, Control, Came
  <2>3. \A f, g \in File : Filled(f) /\ Filled(g) => RunOf(f) = RunOf(g)
    BY <2>1, <2>2 DEF Inv, OneRun
  <2>4. Cardinality(Tears) <= Builders
    <3>1. Tears = TornBehind
      BY <2>1, <2>2 DEF TornBehind, Behind
    <3>2. PICK owns \in [Builder -> File] : \A f \in Tears : \E b \in Builder : owns[b] = f
      BY <3>1 DEF Inv, Answered
    <3> DEFINE Owners == {b \in Builder : owns[b] \in Tears}
               own == [b \in Owners |-> owns[b]]
    <3>3. own \in Surjection(Owners, Tears)
      <4>1. own \in [Owners -> Tears]
        OBVIOUS
      <4>2. \A f \in Tears : \E b \in Owners : own[b] = f
        BY <3>2
      <4>3. QED BY <4>1, <4>2 DEF Surjection
    <3>4. IsFiniteSet(Builder) /\ Cardinality(Builder) = Builders
      BY FS_Interval, BuildAssumption DEF Builder
    <3>5. IsFiniteSet(Owners) /\ Cardinality(Owners) <= Builders /\ Cardinality(Owners) \in Nat
      BY <3>4, FS_Subset, FS_CardinalityType
    <3>6. IsFiniteSet(Tears) /\ Cardinality(Tears) <= Cardinality(Owners)
      <4> HIDE DEF own, Owners, Tears
      <4>1. QED BY <3>3, <3>5, FS_Surjection
    <3>7. Cardinality(Tears) \in Nat
      BY <3>6, FS_CardinalityType
    <3> HIDE DEF Tears, Owners
    <3>8. QED BY <3>5, <3>6, <3>7, BuildAssumption
  <2>5. QED BY <2>2, <2>3, <2>4
<1>2. QED BY <1>1, Invariant, PTL
=============================================================================
