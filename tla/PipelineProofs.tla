--------------------------- MODULE PipelineProofs ---------------------------
(***************************************************************************)
(* What holds of the campaign pipeline for every number of workdirs,       *)
(* pipes and restarts.                                                     *)
(***************************************************************************)
EXTENDS Pipeline, FiniteSetTheorems, TLAPS

InBuild  == {"build_submit", "build_wait"}
InFuzz   == {"fuzz_submit", "fuzz_poll", "fuzz_wait"}
InTrace  == {"trace_submit", "smatch_submit", "triage_submit", "trace_wait"}
InReport == {"smatcher_submit", "smatcher_wait", "done"}

(* The loop positions name entries, or elements of trace_tasks.            *)
Cursor ==
  /\ pc \in {"build_submit", "build_wait", "fuzz_wait", "trace_submit", "smatch_submit"}
       => idx \in Entry
  /\ pc = "fuzz_poll" => idx \in 1..(N - left + 1)

(* The pool's queue holds each accepted job once, until it is started.     *)
Queued ==
  /\ \A i \in 1..Len(queue) : status[queue[i]] = "queued"
  /\ \A i, k \in 1..Len(queue) : i # k => queue[i] # queue[k]

(* Jobs that the main thread has yet to submit.                            *)
Unsubmitted ==
  /\ pc = "build_submit" => \A e \in Entry : e >= idx => ~ Begun(Build(e))
  /\ pc \in InBuild => \A e \in Entry : ~ Begun(Fuzz(e))
  /\ pc \in InFuzz => \A e \in Entry : e <= left => ~ Begun(Fuzz(e))
  /\ pc \in InBuild \cup InFuzz => \A e \in Entry : ~ Begun(Trace(e)) /\ ~ Begun(Smatch(e))
  /\ pc = "trace_submit" =>
       \A e \in Entry : e >= idx => ~ Begun(Trace(e)) /\ ~ Begun(Smatch(e))
  /\ pc = "smatch_submit" =>
       \A e \in Entry : /\ e >= idx => ~ Begun(Smatch(e))
                        /\ e > idx => ~ Begun(Trace(e))
  /\ pc \in (InBuild \cup InFuzz \cup InTrace) \ {"trace_wait"} => ~ Begun(Triage)
  /\ pc \in InBuild \cup InFuzz \cup InTrace \cup {"smatcher_submit"} => ~ Begun(Smatcher)

(* Jobs whose success the main thread has waited for.                      *)
Awaited ==
  /\ pc = "build_wait" => \A e \in Entry : e < idx => Ended(Build(e))
  /\ pc \in InFuzz \cup InTrace \cup InReport => \A e \in Entry : Ended(Build(e))
  /\ pc = "fuzz_wait" => \A i \in Entry : i < idx => Ended(FuzzTask(i))
  /\ pc \in InTrace \cup InReport => \A e \in Entry : Ended(Fuzz(e))
  /\ pc = "trace_wait" => \A i \in 1..(2*N + 1) : i < idx => Ended(TraceTask(i))
  /\ pc \in InReport =>
       Ended(Triage) /\ \A e \in Entry : Ended(Trace(e)) /\ Ended(Smatch(e))
  /\ pc = "done" => Ended(Smatcher)

Control == TypeOK /\ Cursor /\ Queued /\ Unsubmitted /\ Awaited /\ StageBarrier

(* What the artefacts in one workdir rest on.                              *)
Sound(a) ==
  /\ "corpus" \in a => "target" \in a
  /\ "traces" \in a => {"target", "corpus"} \subseteq a
  /\ "cov" \in a => "traces" \in a

(* A success of the smatcher stays justified: nothing is removed after it. *)
Provenance ==
  /\ \A e \in Entry : Sound(out[e])
  /\ \A e \in Entry : status[Fuzz(e)] = "launched" => "target" \in out[e]
  /\ Ended(Smatcher) => SmatcherAccepts
-----------------------------------------------------------------------------
LEMMA JobTypes ==
  /\ \A e \in Entry : /\ Build(e) \in Job /\ Fuzz(e) \in Job
                      /\ Trace(e) \in Job /\ Smatch(e) \in Job
  /\ Triage \in Job /\ Smatcher \in Job
BY DEF Job, Build, Fuzz, Trace, Smatch, Triage, Smatcher

LEMMA JobsDiffer ==
  /\ \A d, e \in Entry :
       /\ Build(d) = Build(e) => d = e
       /\ Fuzz(d) = Fuzz(e) => d = e
       /\ Trace(d) = Trace(e) => d = e
       /\ Smatch(d) = Smatch(e) => d = e
       /\ Build(d) # Fuzz(e) /\ Build(d) # Trace(e) /\ Build(d) # Smatch(e)
       /\ Fuzz(d) # Trace(e) /\ Fuzz(d) # Smatch(e) /\ Trace(d) # Smatch(e)
  /\ \A e \in Entry :
       /\ Triage \notin {Build(e), Fuzz(e), Trace(e), Smatch(e)}
       /\ Smatcher \notin {Build(e), Fuzz(e), Trace(e), Smatch(e)}
  /\ Triage # Smatcher
BY DEF Build, Fuzz, Trace, Smatch, Triage, Smatcher

LEMMA TasksAreJobs ==
  /\ \A i \in Entry : N + 1 - i \in Entry
  /\ \A i \in 1..(2*N + 1) : TraceTask(i) \in Job
<1>1. \A i \in Entry : N + 1 - i \in Entry
  BY ConstantsAssumption DEF Entry
<1>2. ASSUME NEW i \in 1..(2*N + 1) PROVE TraceTask(i) \in Job
  <2>1. CASE i = 2*N + 1
    BY <2>1, JobTypes DEF TraceTask
  <2>2. CASE i # 2*N + 1 /\ i % 2 = 1
    <3>1. (i + 1) \div 2 \in Entry
      BY <2>2, ConstantsAssumption DEF Entry
    <3>2. QED BY <2>2, <3>1, JobTypes DEF TraceTask
  <2>3. CASE i # 2*N + 1 /\ i % 2 # 1
    <3>1. i \div 2 \in Entry
      BY <2>3, ConstantsAssumption DEF Entry
    <3>2. QED BY <2>3, <3>1, JobTypes DEF TraceTask
  <2>4. QED BY <2>1, <2>2, <2>3
<1>3. QED BY <1>1, <1>2

(* A complete list of trace_tasks contains every trace and smatch job.     *)
LEMMA TasksCoverJobs ==
  \A e \in Entry :
    /\ 2*e - 1 \in 1..(2*N) /\ 2*e \in 1..(2*N)
    /\ TraceTask(2*e - 1) = Trace(e) /\ TraceTask(2*e) = Smatch(e)
<1> SUFFICES ASSUME NEW e \in Entry
             PROVE  /\ 2*e - 1 \in 1..(2*N) /\ 2*e \in 1..(2*N)
                    /\ TraceTask(2*e - 1) = Trace(e) /\ TraceTask(2*e) = Smatch(e)
  OBVIOUS
<1>1. /\ 2*e - 1 \in 1..(2*N) /\ 2*e \in 1..(2*N)
      /\ 2*e - 1 # 2*N + 1 /\ 2*e # 2*N + 1
      /\ (2*e - 1) % 2 = 1 /\ (2*e) % 2 # 1
      /\ ((2*e - 1) + 1) \div 2 = e /\ (2*e) \div 2 = e
  BY ConstantsAssumption DEF Entry
<1>2. QED BY <1>1 DEF TraceTask
-----------------------------------------------------------------------------
(* The queue under the three ways a step treats it.                        *)

LEMMA QueueKept ==
  ASSUME TypeOK, Queued, NEW j \in Job, NEW r \in Status, status[j] # "queued",
         status' = [status EXCEPT ![j] = r], queue' = queue
  PROVE  Queued' /\ status' \in [Job -> Status] /\ queue' \in Seq(Job)
<1>1. status' \in [Job -> Status] /\ queue' \in Seq(Job)
  BY DEF TypeOK
<1>2. \A i \in 1..Len(queue) : queue[i] \in Job /\ queue[i] # j
  BY DEF TypeOK, Queued
<1>3. \A i \in 1..Len(queue) : status'[queue[i]] = "queued"
  BY <1>2 DEF TypeOK, Queued
<1>4. QED BY <1>1, <1>3 DEF Queued

LEMMA QueueAppended ==
  ASSUME TypeOK, Queued, NEW j \in Job, status[j] # "queued", Submit(j)
  PROVE  Queued' /\ status' \in [Job -> Status] /\ queue' \in Seq(Job)
<1>1. status' \in [Job -> Status] /\ queue' \in Seq(Job)
  BY DEF TypeOK, Submit, Status
<1>2. /\ Len(queue') = Len(queue) + 1 /\ Len(queue) \in Nat
      /\ \A i \in 1..Len(queue) : queue'[i] = queue[i]
      /\ queue'[Len(queue) + 1] = j
  BY DEF TypeOK, Submit
<1>3. \A i \in 1..Len(queue) : queue[i] \in Job /\ queue[i] # j
  BY DEF TypeOK, Queued
<1>4. status'[j] = "queued" /\ \A k \in Job : k # j => status'[k] = status[k]
  BY DEF TypeOK, Submit
<1>5. \A i \in 1..Len(queue') : status'[queue'[i]] = "queued"
  BY <1>2, <1>3, <1>4 DEF Queued
<1>6. ASSUME NEW i \in 1..Len(queue'), NEW k \in 1..Len(queue'), i # k
      PROVE  queue'[i] # queue'[k]
  BY <1>2, <1>3, <1>6 DEF Queued
<1>7. QED BY <1>1, <1>5, <1>6 DEF Queued

LEMMA QueueTaken ==
  ASSUME TypeOK, Queued, Start
  PROVE  /\ Queued' /\ status' \in [Job -> Status] /\ queue' \in Seq(Job)
         /\ Head(queue) \in Job /\ status[Head(queue)] = "queued"
<1>1. queue \in Seq(Job) /\ queue # <<>> /\ queue' = Tail(queue)
  BY DEF TypeOK, Start
<1>2. /\ Len(queue) \in Nat \ {0} /\ Head(queue) = queue[1]
      /\ queue' \in Seq(Job) /\ Len(queue') = Len(queue) - 1
      /\ \A i \in 1..Len(queue') : queue'[i] = queue[i + 1]
  BY <1>1
<1>3. Head(queue) \in Job /\ status[Head(queue)] = "queued"
  BY <1>1, <1>2 DEF Queued
<1>4. status' \in [Job -> Status]
  BY <1>3 DEF TypeOK, Start, Status
<1>5. \A i \in 1..Len(queue') : i + 1 \in 1..Len(queue) /\ queue[i + 1] # queue[1]
  BY <1>2 DEF Queued
<1>6. \A i \in 1..Len(queue') : status'[queue'[i]] = "queued"
  <2> SUFFICES ASSUME NEW i \in 1..Len(queue') PROVE status'[queue'[i]] = "queued"
    OBVIOUS
  <2>1. queue'[i] \in Job /\ queue'[i] # Head(queue) /\ status[queue'[i]] = "queued"
    BY <1>1, <1>2, <1>5 DEF Queued
  <2>2. QED BY <2>1 DEF TypeOK, Start
<1>7. ASSUME NEW i \in 1..Len(queue'), NEW k \in 1..Len(queue'), i # k
      PROVE  queue'[i] # queue'[k]
  BY <1>2, <1>5, <1>7 DEF Queued
<1>8. QED BY <1>2, <1>3, <1>4, <1>6, <1>7 DEF Queued
-----------------------------------------------------------------------------
(* A step of the pool settles or starts jobs that were submitted; it never *)
(* revokes a success and never submits a job on its own.                   *)

PoolEffect ==
  /\ Queued' /\ status' \in [Job -> Status] /\ queue' \in Seq(Job)
  /\ \A j \in Job : /\ Ended(j) => Ended(j)'
                    /\ ~ Begun(j) => ~ Begun(j)'
  /\ \A e \in Entry : Ended(Smatch(e))' => Ended(Smatch(e)) \/ Ended(Trace(e))
  /\ mainVars' = mainVars /\ runs' = runs

(* One job that is neither finished nor waiting in the queue changes.      *)
LEMMA JobSettles ==
  ASSUME TypeOK, Queued, NEW j \in Job, NEW r \in Status \ {"none"},
         status[j] \in {"pending", "running", "launched"},
         Complete(j, r),
         r = "ok" => \A e \in Entry : j = Smatch(e) => Ended(Trace(e))
  PROVE  PoolEffect
<1>1. /\ status' = [status EXCEPT ![j] = r] /\ queue' = queue
      /\ mainVars' = mainVars /\ runs' = runs
  BY DEF Complete, mainVars
<1>2. Queued' /\ status' \in [Job -> Status] /\ queue' \in Seq(Job)
  BY <1>1, QueueKept
<1>3. \A k \in Job : (Ended(k) => Ended(k)') /\ (~ Begun(k) => ~ Begun(k)')
  BY <1>1 DEF TypeOK, Ended, Begun
<1>4. \A e \in Entry : Ended(Smatch(e))' => Ended(Smatch(e)) \/ Ended(Trace(e))
  BY <1>1, JobTypes DEF TypeOK, Ended
<1>5. QED BY <1>1, <1>2, <1>3, <1>4 DEF PoolEffect

LEMMA StartEffect == ASSUME TypeOK, Queued, Start PROVE PoolEffect
<1>1. /\ Queued' /\ status' \in [Job -> Status] /\ queue' \in Seq(Job)
      /\ Head(queue) \in Job /\ status[Head(queue)] = "queued"
  BY QueueTaken
<1>2. /\ status' = [status EXCEPT ![Head(queue)] = "running"]
      /\ mainVars' = mainVars /\ runs' = runs
  BY DEF Start, mainVars
<1>3. \A k \in Job : (Ended(k) => Ended(k)') /\ (~ Begun(k) => ~ Begun(k)')
  BY <1>1, <1>2 DEF TypeOK, Ended, Begun
<1>4. \A e \in Entry : Ended(Smatch(e))' => Ended(Smatch(e))
  BY <1>1, <1>2, JobTypes DEF TypeOK, Ended
<1>5. QED BY <1>1, <1>2, <1>3, <1>4 DEF PoolEffect

LEMMA ReleaseEffect ==
  ASSUME TypeOK, Queued, NEW e \in Entry, Release(e) PROVE PoolEffect
<1>1. Smatch(e) \in Job /\ status[Smatch(e)] = "pending"
  BY JobTypes DEF Release
<1>2. mainVars' = mainVars /\ runs' = runs
  BY DEF Release, mainVars
<1>3. CASE status[Trace(e)] = "ok"
  <2>1. Submit(Smatch(e))
    BY <1>3 DEF Release
  <2>2. Queued' /\ status' \in [Job -> Status] /\ queue' \in Seq(Job)
    BY <1>1, <2>1, QueueAppended
  <2>3. \A k \in Job : (Ended(k) => Ended(k)') /\ (~ Begun(k) => ~ Begun(k)')
    BY <1>1, <2>1 DEF TypeOK, Ended, Begun, Submit
  <2>4. \A d \in Entry : Ended(Smatch(d))' => Ended(Smatch(d))
    BY <1>1, <2>1, JobTypes DEF TypeOK, Ended, Submit
  <2>5. QED BY <1>2, <2>2, <2>3, <2>4 DEF PoolEffect
<1>4. CASE status[Trace(e)] # "ok"
  <2>1. Complete(Smatch(e), "failed")
    BY <1>2, <1>4 DEF Release, Complete
  <2>2. QED BY <1>1, <2>1, JobSettles DEF Status
<1>5. QED BY <1>3, <1>4

LEMMA JobEffect ==
  ASSUME TypeOK, Queued, NEW e \in Entry, JobStep(e) PROVE PoolEffect
<1> USE JobTypes, JobsDiffer
<1>1. CASE Release(e)
  BY <1>1, ReleaseEffect
<1>2. CASE FinishBuild(e)
  BY <1>2, JobSettles DEF FinishBuild, MayFail, Status
<1>3. CASE SkipFuzz(e)
  BY <1>3, JobSettles DEF SkipFuzz, Status
<1>4. CASE LaunchFuzz(e)
  BY <1>4, JobSettles DEF LaunchFuzz, Status
<1>5. CASE RefuseFuzz(e)
  BY <1>5, JobSettles DEF RefuseFuzz, Finished, Status
<1>6. CASE KaflWrites(e)
  BY <1>6 DEF KaflWrites, PoolEffect, TypeOK, Queued, Ended, Begun, mainVars
<1>7. CASE FinishFuzz(e)
  BY <1>7, JobSettles DEF FinishFuzz, Status
<1>8. CASE FinishTrace(e)
  BY <1>8, JobSettles DEF FinishTrace, MayFail, Status
<1>9. CASE FinishSmatch(e)
  <2>1. PICK r \in {"ok", "failed"} :
          Complete(Smatch(e), r) /\ (r = "ok" => Ended(Trace(e)))
    BY <1>9 DEF FinishSmatch, MayFail, Ended
  <2>2. QED BY <1>9, <2>1, JobSettles DEF FinishSmatch, Status
<1>10. QED
  BY <1>1, <1>2, <1>3, <1>4, <1>5, <1>6, <1>7, <1>8, <1>9 DEF JobStep

LEMMA PoolSteps == ASSUME TypeOK, Queued, Pool PROVE PoolEffect
<1>1. CASE Start
  BY <1>1, StartEffect
<1>2. CASE \E e \in Entry : JobStep(e)
  BY <1>2, JobEffect
<1>3. CASE FinishTriage
  BY <1>3, JobSettles, JobTypes, JobsDiffer DEF FinishTriage, MayFail, Status
<1>4. CASE FinishSmatcher
  BY <1>4, JobSettles, JobTypes, JobsDiffer DEF FinishSmatcher, Finished, Status
<1>5. QED BY <1>1, <1>2, <1>3, <1>4 DEF Pool

LEMMA PoolWrites == ASSUME TypeOK, Pool PROVE out' \in [Entry -> SUBSET Artefact]
<1>1. CASE out' = out
  BY <1>1 DEF TypeOK
<1>2. ASSUME NEW e \in Entry, NEW s \in SUBSET Artefact, out' = [out EXCEPT ![e] = s]
      PROVE  out' \in [Entry -> SUBSET Artefact]
  BY <1>2 DEF TypeOK
<1>3. CASE Start \/ FinishTriage \/ FinishSmatcher
  BY <1>1, <1>3 DEF Start, FinishTriage, FinishSmatcher
<1>4. ASSUME NEW e \in Entry, JobStep(e)
      PROVE  out' = out \/ \E s \in SUBSET Artefact : out' = [out EXCEPT ![e] = s]
  <2>1. out[e] \in SUBSET Artefact
    BY DEF TypeOK
  <2>2. CASE Release(e) \/ FinishBuild(e) \/ SkipFuzz(e) \/ FinishFuzz(e)
    BY <2>2 DEF Release, FinishBuild, SkipFuzz, FinishFuzz
  <2>3. CASE LaunchFuzz(e) \/ RefuseFuzz(e)
    BY <2>3 DEF LaunchFuzz, RefuseFuzz, Artefact
  <2>4. CASE KaflWrites(e)
    <3>1. PICK a \in {"corpus", "stats"} : out' = [out EXCEPT ![e] = out[e] \cup {a}]
      BY <2>4 DEF KaflWrites
    <3>2. out[e] \cup {a} \in SUBSET Artefact
      BY <2>1 DEF Artefact
    <3>3. QED BY <3>1, <3>2
  <2>5. CASE FinishTrace(e)
    <3>1. out' = out \/ out' = [out EXCEPT ![e] = out[e] \cup {"traces"}]
      BY <2>5 DEF FinishTrace
    <3>2. out[e] \cup {"traces"} \in SUBSET Artefact
      BY <2>1 DEF Artefact
    <3>3. QED BY <3>1, <3>2
  <2>6. CASE FinishSmatch(e)
    <3>1. out' = out \/ out' = [out EXCEPT ![e] = out[e] \cup {"cov"}]
      BY <2>6 DEF FinishSmatch
    <3>2. out[e] \cup {"cov"} \in SUBSET Artefact
      BY <2>1 DEF Artefact
    <3>3. QED BY <3>1, <3>2
  <2>7. QED BY <1>4, <2>2, <2>3, <2>4, <2>5, <2>6 DEF JobStep
<1>5. QED BY <1>1, <1>2, <1>3, <1>4 DEF Pool

LEMMA PoolKeepsControl == ASSUME Control, Pool PROVE Control'
<1> USE JobTypes, JobsDiffer
<1>1. PoolEffect
  BY PoolSteps DEF Control
<1>2. UNCHANGED <<pc, idx, left, pipes, pipeOf, runs>>
  BY <1>1 DEF PoolEffect, mainVars
<1>3. TypeOK'
  BY <1>1, <1>2, PoolWrites DEF Control, TypeOK, PoolEffect
<1>4. Cursor'
  BY <1>2 DEF Control, Cursor
<1>5. Unsubmitted'
  <2>1. \A j \in Job : ~ Begun(j) => ~ Begun(j)'
    BY <1>1 DEF PoolEffect
  <2>2. QED BY <1>2, <2>1 DEF Control, Unsubmitted
<1>6. \A j \in Job : Ended(j) => Ended(j)'
  BY <1>1 DEF PoolEffect
<1>7. Awaited'
  <2>1. \A i \in Entry : FuzzTask(i) \in Job
    BY TasksAreJobs DEF FuzzTask
  <2>2. \A i \in 1..(2*N + 1) : TraceTask(i) \in Job
    BY TasksAreJobs
  <2>3. QED BY <1>2, <1>6, <2>1, <2>2 DEF Control, Awaited
<1>8. StageBarrier'
  <2>1. \A j \in Job : Begun(j)' => Begun(j)
    BY <1>1 DEF PoolEffect
  <2>2. \A e \in Entry : Ended(Smatch(e))' => Ended(Trace(e))'
    BY <1>1, <1>6 DEF PoolEffect, Control, StageBarrier
  <2>3. QED BY <1>6, <2>1, <2>2 DEF Control, StageBarrier
<1>9. QED BY <1>1, <1>3, <1>4, <1>5, <1>7, <1>8 DEF Control, PoolEffect
-----------------------------------------------------------------------------
(* The steps of the main thread.                                           *)

LEMMA Raise ==
  ASSUME Control, Goto("aborted", 1),
         UNCHANGED <<left, pipes, pipeOf, status, queue, out, runs>>
  PROVE  Control'
<1> USE DEF Control, Goto
<1>1. TypeOK'
  BY ConstantsAssumption DEF TypeOK, Location
<1>2. Cursor' /\ Queued'
  BY DEF Cursor, Queued
<1>3. Unsubmitted' /\ Awaited'
  BY DEF Unsubmitted, Awaited, InBuild, InFuzz, InTrace, InReport
<1>4. StageBarrier'
  BY DEF StageBarrier, Begun, Ended
<1>5. QED BY <1>1, <1>2, <1>3, <1>4

(* Waiting changes nothing but the location and what has been waited for.  *)
LEMMA Moves ==
  ASSUME Control, NEW l \in Location, NEW i \in 1..(2*N + 1), Goto(l, i),
         pipes' \subseteq PipeId,
         UNCHANGED <<left, pipeOf, status, queue, out, runs>>,
         Cursor', Unsubmitted', Awaited'
  PROVE  Control'
<1>1. TypeOK' /\ Queued' /\ StageBarrier'
  BY DEF Control, TypeOK, Queued, StageBarrier, Begun, Ended, Goto
<1>2. QED BY <1>1 DEF Control

LEMMA AwaitBuildKeeps == ASSUME Control, AwaitBuild PROVE Control'
<1> DEFINE next == IF idx < N THEN "build_wait" ELSE "fuzz_submit"
           i    == IF idx < N THEN idx + 1 ELSE 1
<1>1. pc = "build_wait" /\ idx \in Entry /\ Await(Build(idx), next, i)
  BY DEF Control, Cursor, AwaitBuild
<1>2. UNCHANGED <<left, pipes, pipeOf, status, queue, out, runs>>
  BY <1>1 DEF Await
<1>3. CASE status[Build(idx)] # "ok"
  BY <1>1, <1>2, <1>3, Raise DEF Await
<1>4. CASE status[Build(idx)] = "ok"
  <2>1. Goto(next, i)
    BY <1>1, <1>4 DEF Await
  <2>2. next \in Location /\ i \in 1..(2*N + 1) /\ pipes' \subseteq PipeId
    BY <1>1, <1>2, ConstantsAssumption DEF Control, TypeOK, Location, Entry
  <2>3. Cursor'
    BY <1>1, <1>2, <2>1, ConstantsAssumption DEF Cursor, Goto, Entry
  <2>4. Unsubmitted'
    BY <1>1, <1>2, <2>1 DEF Control, TypeOK, Unsubmitted, Goto, Begun, Entry,
       InBuild, InFuzz, InTrace, InReport
  <2>5. \A e \in Entry : e < idx + 1 => Ended(Build(e))
    BY <1>1, <1>4 DEF Control, Awaited, Ended, Entry
  <2>6. Awaited'
    BY <1>1, <1>2, <2>1, <2>5, ConstantsAssumption
       DEF Awaited, Goto, Ended, Entry, InBuild, InFuzz, InTrace, InReport
  <2>7. QED BY <1>2, <2>1, <2>2, <2>3, <2>4, <2>6, Moves
<1>5. QED BY <1>3, <1>4

LEMMA AwaitFuzzKeeps == ASSUME Control, AwaitFuzz PROVE Control'
<1> DEFINE next == IF idx < N THEN "fuzz_wait" ELSE "trace_submit"
           i    == IF idx < N THEN idx + 1 ELSE 1
<1>1. pc = "fuzz_wait" /\ idx \in Entry /\ Await(FuzzTask(idx), next, i)
  BY DEF Control, Cursor, AwaitFuzz
<1>2. UNCHANGED <<left, pipes, pipeOf, status, queue, out, runs>>
  BY <1>1 DEF Await
<1>3. CASE status[FuzzTask(idx)] # "ok"
  BY <1>1, <1>2, <1>3, Raise DEF Await
<1>4. CASE status[FuzzTask(idx)] = "ok"
  <2>1. Goto(next, i)
    BY <1>1, <1>4 DEF Await
  <2>2. next \in Location /\ i \in 1..(2*N + 1) /\ pipes' \subseteq PipeId
    BY <1>1, <1>2, ConstantsAssumption DEF Control, TypeOK, Location, Entry
  <2>3. Cursor'
    BY <1>1, <1>2, <2>1, ConstantsAssumption DEF Cursor, Goto, Entry
  <2>4. Unsubmitted'
    BY <1>1, <1>2, <2>1 DEF Control, TypeOK, Unsubmitted, Goto, Begun, Entry,
       InBuild, InFuzz, InTrace, InReport
  <2>5. \A k \in Entry : k < idx + 1 => Ended(FuzzTask(k))
    BY <1>1, <1>4 DEF Control, Awaited, Ended, Entry
  <2>6. idx = N => \A e \in Entry : Ended(Fuzz(e))
    <3> SUFFICES ASSUME idx = N, NEW e \in Entry PROVE Ended(Fuzz(e))
      OBVIOUS
    <3>1. N + 1 - e \in Entry /\ N + 1 - e < idx + 1 /\ N + 1 - (N + 1 - e) = e
      BY ConstantsAssumption DEF Entry
    <3>2. QED BY <2>5, <3>1 DEF FuzzTask
  <2>7. Awaited'
    BY <1>1, <1>2, <2>1, <2>5, <2>6, ConstantsAssumption
       DEF Control, Awaited, Goto, Ended, Entry, InBuild, InFuzz, InTrace, InReport
  <2>8. QED BY <1>2, <2>1, <2>2, <2>3, <2>4, <2>7, Moves
<1>5. QED BY <1>3, <1>4

LEMMA AwaitTraceKeeps == ASSUME Control, AwaitTrace PROVE Control'
<1> DEFINE next == IF idx < 2*N + 1 THEN "trace_wait" ELSE "smatcher_submit"
           i    == IF idx < 2*N + 1 THEN idx + 1 ELSE 1
<1>1. pc = "trace_wait" /\ idx \in 1..(2*N + 1) /\ Await(TraceTask(idx), next, i)
  BY DEF Control, TypeOK, AwaitTrace
<1>2. UNCHANGED <<left, pipes, pipeOf, status, queue, out, runs>>
  BY <1>1 DEF Await
<1>3. CASE status[TraceTask(idx)] # "ok"
  BY <1>1, <1>2, <1>3, Raise DEF Await
<1>4. CASE status[TraceTask(idx)] = "ok"
  <2>1. Goto(next, i)
    BY <1>1, <1>4 DEF Await
  <2>2. next \in Location /\ i \in 1..(2*N + 1) /\ pipes' \subseteq PipeId
    BY <1>1, <1>2, ConstantsAssumption DEF Control, TypeOK, Location
  <2>3. Cursor'
    BY <1>1, <1>2, <2>1, ConstantsAssumption DEF Cursor, Goto
  <2>4. Unsubmitted'
    BY <1>1, <1>2, <2>1 DEF Control, TypeOK, Unsubmitted, Goto, Begun,
       InBuild, InFuzz, InTrace, InReport
  <2>5. \A k \in 1..(2*N + 1) : k < idx + 1 => Ended(TraceTask(k))
    BY <1>1, <1>4 DEF Control, Awaited, Ended
  <2>6. idx = 2*N + 1 =>
          Ended(Triage) /\ \A e \in Entry : Ended(Trace(e)) /\ Ended(Smatch(e))
    <3> SUFFICES ASSUME idx = 2*N + 1
                 PROVE  Ended(Triage) /\ \A e \in Entry : Ended(Trace(e)) /\ Ended(Smatch(e))
      OBVIOUS
    <3>1. TraceTask(2*N + 1) = Triage
      BY DEF TraceTask
    <3>2. \A k \in 1..(2*N + 1) : Ended(TraceTask(k))
      BY <2>5, ConstantsAssumption
    <3>3. Ended(Triage)
      BY <3>1, <3>2, ConstantsAssumption
    <3>4. 1..(2*N) \subseteq 1..(2*N + 1)
      BY ConstantsAssumption
    <3>5. QED BY <3>2, <3>3, <3>4, TasksCoverJobs
  <2>7. Awaited'
    BY <1>1, <1>2, <2>1, <2>5, <2>6, ConstantsAssumption
       DEF Control, Awaited, Goto, Ended, InBuild, InFuzz, InTrace, InReport
  <2>8. QED BY <1>2, <2>1, <2>2, <2>3, <2>4, <2>7, Moves
<1>5. QED BY <1>3, <1>4

LEMMA AwaitSmatcherKeeps == ASSUME Control, AwaitSmatcher PROVE Control'
<1>1. pc = "smatcher_wait" /\ Await(Smatcher, "done", 1)
  BY DEF AwaitSmatcher
<1>2. UNCHANGED <<left, pipes, pipeOf, status, queue, out, runs>>
  BY <1>1 DEF Await
<1>3. CASE status[Smatcher] # "ok"
  BY <1>1, <1>2, <1>3, Raise DEF Await
<1>4. CASE status[Smatcher] = "ok"
  <2>1. Goto("done", 1)
    BY <1>1, <1>4 DEF Await
  <2>2. "done" \in Location /\ 1 \in 1..(2*N + 1) /\ pipes' \subseteq PipeId
    BY <1>2, ConstantsAssumption DEF Control, TypeOK, Location
  <2>3. Cursor' /\ Unsubmitted'
    BY <2>1 DEF Cursor, Unsubmitted, Goto, InBuild, InFuzz, InTrace, InReport
  <2>4. Awaited'
    BY <1>1, <1>2, <1>4, <2>1 DEF Control, Awaited, Goto, Ended,
       InBuild, InFuzz, InTrace, InReport
  <2>5. QED BY <1>2, <2>1, <2>2, <2>3, <2>4, Moves
<1>5. QED BY <1>3, <1>4

LEMMA EndFuzzSubmitKeeps == ASSUME Control, EndFuzzSubmit PROVE Control'
<1>1. /\ pc = "fuzz_submit" /\ Goto("fuzz_wait", 1)
      /\ UNCHANGED <<left, pipes, pipeOf, status, queue, out, runs>>
  BY DEF EndFuzzSubmit
<1>2. "fuzz_wait" \in Location /\ 1 \in 1..(2*N + 1) /\ pipes' \subseteq PipeId
  BY <1>1, ConstantsAssumption DEF Control, TypeOK, Location
<1>3. Cursor'
  BY <1>1, ConstantsAssumption DEF Cursor, Goto, Entry
<1>4. Unsubmitted' /\ Awaited'
  BY <1>1 DEF Control, Unsubmitted, Awaited, Goto, Begun, Ended, Entry,
     InBuild, InFuzz, InTrace, InReport
<1>5. QED BY <1>1, <1>2, <1>3, <1>4, Moves

LEMMA PollKeeps == ASSUME Control, PollFuzz \/ EndPoll PROVE Control'
<1> DEFINE task == FuzzTask(idx)
<1>1. /\ pc = "fuzz_poll" /\ idx \in 1..(N - left + 1) /\ left \in 0..N
      /\ UNCHANGED <<left, pipeOf, status, queue, out, runs>>
  BY DEF Control, Cursor, TypeOK, PollFuzz, EndPoll
<1>2. CASE Goto("aborted", 1) /\ UNCHANGED pipes
  BY <1>1, <1>2, Raise
<1>3. CASE PollFuzz /\ ~ Goto("aborted", 1)
  <2>1. idx <= N - left /\ Goto("fuzz_poll", idx + 1)
    BY <1>3 DEF PollFuzz
  <2>2. pipes' \subseteq PipeId
    <3>1. N + 1 - idx \in Entry
      BY <1>1, <2>1, ConstantsAssumption DEF Entry
    <3>2. QED BY <1>3, <3>1 DEF PollFuzz, Control, TypeOK
  <2>3. "fuzz_poll" \in Location /\ idx + 1 \in 1..(2*N + 1)
    BY <1>1, <2>1, ConstantsAssumption DEF Location
  <2>4. Cursor'
    BY <1>1, <2>1, ConstantsAssumption DEF Cursor, Goto
  <2>5. Unsubmitted' /\ Awaited'
    BY <1>1, <2>1 DEF Control, Unsubmitted, Awaited, Goto, Begun, Ended,
       InBuild, InFuzz, InTrace, InReport
  <2>6. QED BY <1>1, <2>1, <2>2, <2>3, <2>4, <2>5, Moves
<1>4. CASE EndPoll
  <2>1. PICK l \in {"fuzz_poll", "fuzz_submit"} : Goto(l, 1)
    BY <1>4 DEF EndPoll
  <2>2. pipes' \subseteq PipeId /\ l \in Location /\ 1 \in 1..(2*N + 1)
    BY <1>4, ConstantsAssumption DEF EndPoll, Control, TypeOK, Location
  <2>3. Cursor'
    BY <1>1, <2>1, ConstantsAssumption DEF Cursor, Goto
  <2>4. Unsubmitted' /\ Awaited'
    BY <1>1, <2>1 DEF Control, Unsubmitted, Awaited, Goto, Begun, Ended,
       InBuild, InFuzz, InTrace, InReport
  <2>5. QED BY <1>1, <2>1, <2>2, <2>3, <2>4, Moves
<1>5. QED BY <1>2, <1>3, <1>4 DEF PollFuzz, Goto

(* A submission puts a job that nobody has submitted into the queue; the   *)
(* successes that were waited for, and the other jobs, are untouched.      *)
LEMMA Submitted ==
  ASSUME Control, NEW j \in Job, ~ Begun(j), Submit(j), UNCHANGED <<out, runs>>,
         pc' \in Location, idx' \in 1..(2*N + 1), left' \in 0..N,
         pipes' \subseteq PipeId, pipeOf' \in [Entry -> PipeId]
  PROVE  /\ TypeOK' /\ Queued'
         /\ \A k \in Job : Ended(k) => Ended(k)'
         /\ \A k \in Job : k # j => (Begun(k)' <=> Begun(k)) /\ (Ended(k)' <=> Ended(k))
         /\ status'[j] # "ok"
<1>1. status[j] = "none"
  BY DEF Begun
<1>2. Queued' /\ status' \in [Job -> Status] /\ queue' \in Seq(Job)
  BY <1>1, QueueAppended DEF Control
<1>3. TypeOK'
  BY <1>2 DEF Control, TypeOK
<1>4. QED BY <1>1, <1>2, <1>3 DEF Control, TypeOK, Submit, Begun, Ended

LEMMA SubmitBuildKeeps == ASSUME Control, SubmitBuild PROVE Control'
<1> USE JobTypes, JobsDiffer
<1>1. /\ pc = "build_submit" /\ idx \in Entry /\ Build(idx) \in Job
      /\ ~ Begun(Build(idx)) /\ Submit(Build(idx))
      /\ UNCHANGED <<left, pipes, pipeOf, out, runs>>
  BY DEF Control, Cursor, Unsubmitted, SubmitBuild, Entry
<1>2. \/ idx < N /\ Goto("build_submit", idx + 1)
      \/ idx = N /\ Goto("build_wait", 1)
  BY <1>1, ConstantsAssumption DEF SubmitBuild, Entry
<1>3. pc' \in Location /\ idx' \in 1..(2*N + 1)
  BY <1>1, <1>2, ConstantsAssumption DEF Goto, Location, Entry
<1>4. /\ TypeOK' /\ Queued'
      /\ \A k \in Job : k # Build(idx) => (Begun(k)' <=> Begun(k)) /\ (Ended(k)' <=> Ended(k))
  BY <1>1, <1>3, Submitted DEF Control, TypeOK
<1>5. Cursor'
  BY <1>1, <1>2, ConstantsAssumption DEF Cursor, Goto, Entry
<1>6. Unsubmitted'
  BY <1>1, <1>2, <1>4 DEF Control, Unsubmitted, Goto, Entry, InBuild, InFuzz, InTrace
<1>7. Awaited'
  BY <1>1, <1>2, ConstantsAssumption DEF Awaited, Goto, Entry, InFuzz, InTrace, InReport
<1>8. StageBarrier'
  BY <1>1, <1>4 DEF Control, Unsubmitted, StageBarrier, InBuild, InFuzz, Ended, Begun
<1>9. QED BY <1>4, <1>5, <1>6, <1>7, <1>8 DEF Control

LEMMA SubmitFuzzKeeps == ASSUME Control, SubmitFuzz PROVE Control'
<1> USE JobTypes, JobsDiffer
<1>1. /\ pc = "fuzz_submit" /\ left \in Entry /\ Fuzz(left) \in Job
      /\ ~ Begun(Fuzz(left)) /\ Submit(Fuzz(left)) /\ left' = left - 1
      /\ UNCHANGED <<out, runs>>
  BY ConstantsAssumption DEF Control, TypeOK, Unsubmitted, SubmitFuzz, Entry, InFuzz
<1>2. Goto("fuzz_poll", 1) \/ Goto("fuzz_submit", 1)
  BY DEF SubmitFuzz
<1>3. /\ pc' \in Location /\ idx' \in 1..(2*N + 1) /\ left' \in 0..N
      /\ pipes' \subseteq PipeId /\ pipeOf' \in [Entry -> PipeId]
  BY <1>1, <1>2, ConstantsAssumption DEF SubmitFuzz, Control, TypeOK, Goto, Location, Entry
<1>4. /\ TypeOK' /\ Queued'
      /\ \A k \in Job : Ended(k) => Ended(k)'
      /\ \A k \in Job : k # Fuzz(left) => (Begun(k)' <=> Begun(k)) /\ (Ended(k)' <=> Ended(k))
  BY <1>1, <1>3, Submitted
<1>5. Cursor'
  BY <1>1, <1>2, ConstantsAssumption DEF Cursor, Goto, Entry
<1>6. Unsubmitted'
  BY <1>1, <1>2, <1>4 DEF Control, Unsubmitted, Goto, Entry, InBuild, InFuzz, InTrace
<1>7. Awaited' /\ \A e \in Entry : Ended(Build(e))'
  BY <1>1, <1>2, <1>4 DEF Control, Awaited, Goto, InFuzz, InTrace, InReport
<1>8. StageBarrier'
  BY <1>1, <1>4, <1>7 DEF Control, Unsubmitted, StageBarrier, InBuild, InFuzz, InTrace
<1>9. QED BY <1>4, <1>5, <1>6, <1>7, <1>8 DEF Control

LEMMA SubmitTraceKeeps == ASSUME Control, SubmitTrace PROVE Control'
<1> USE JobTypes, JobsDiffer
<1>1. /\ pc = "trace_submit" /\ idx \in Entry /\ Trace(idx) \in Job
      /\ ~ Begun(Trace(idx)) /\ Submit(Trace(idx)) /\ Goto("smatch_submit", idx)
      /\ UNCHANGED <<left, pipes, pipeOf, out, runs>>
  BY DEF Control, Cursor, Unsubmitted, SubmitTrace, Entry
<1>2. pc' \in Location /\ idx' \in 1..(2*N + 1)
  BY <1>1, ConstantsAssumption DEF Goto, Location, Entry
<1>3. /\ TypeOK' /\ Queued'
      /\ \A k \in Job : Ended(k) => Ended(k)'
      /\ \A k \in Job : k # Trace(idx) => (Begun(k)' <=> Begun(k)) /\ (Ended(k)' <=> Ended(k))
  BY <1>1, <1>2, Submitted DEF Control, TypeOK
<1>4. Cursor'
  BY <1>1 DEF Cursor, Goto
<1>5. Unsubmitted'
  BY <1>1, <1>3 DEF Control, Unsubmitted, Goto, Entry, InBuild, InFuzz, InTrace
<1>6. Awaited' /\ \A e \in Entry : Ended(Fuzz(e))' /\ Ended(Build(e))'
  BY <1>1, <1>3 DEF Control, Awaited, Goto, InFuzz, InTrace, InReport
<1>7. StageBarrier'
  BY <1>1, <1>3, <1>6 DEF Control, Unsubmitted, StageBarrier, InTrace
<1>8. QED BY <1>3, <1>4, <1>5, <1>6, <1>7 DEF Control

LEMMA SubmitSmatchKeeps == ASSUME Control, SubmitSmatch PROVE Control'
<1> USE JobTypes, JobsDiffer
<1>1. /\ pc = "smatch_submit" /\ idx \in Entry /\ Smatch(idx) \in Job
      /\ ~ Begun(Smatch(idx))
      /\ UNCHANGED <<left, pipes, pipeOf, out, runs>>
  BY DEF Control, Cursor, Unsubmitted, SubmitSmatch, Entry
<1>2. \/ idx < N /\ Goto("trace_submit", idx + 1)
      \/ idx = N /\ Goto("triage_submit", 1)
  BY <1>1, ConstantsAssumption DEF SubmitSmatch, Entry
<1>3. pc' \in Location /\ idx' \in 1..(2*N + 1)
  BY <1>1, <1>2, ConstantsAssumption DEF Goto, Location, Entry
<1>4. /\ TypeOK' /\ Queued'
      /\ \A k \in Job : Ended(k) => Ended(k)'
      /\ \A k \in Job : k # Smatch(idx) => (Begun(k)' <=> Begun(k)) /\ (Ended(k)' <=> Ended(k))
      /\ status'[Smatch(idx)] # "ok"
  <2>1. CASE Submit(Smatch(idx))
    <3>1. left' \in 0..N /\ pipes' \subseteq PipeId /\ pipeOf' \in [Entry -> PipeId]
      BY <1>1 DEF Control, TypeOK
    <3>2. QED BY <1>1, <1>3, <2>1, <3>1, Submitted
  <2>2. CASE status' = [status EXCEPT ![Smatch(idx)] = "pending"] /\ UNCHANGED queue
    <3>1. status[Smatch(idx)] = "none"
      BY <1>1 DEF Begun
    <3>2. Queued' /\ status' \in [Job -> Status] /\ queue' \in Seq(Job)
      BY <1>1, <2>2, <3>1, QueueKept DEF Control, Status
    <3>3. TypeOK'
      BY <1>1, <1>3, <3>2 DEF Control, TypeOK
    <3>4. /\ \A k \in Job : k # Smatch(idx) => status'[k] = status[k]
          /\ status'[Smatch(idx)] = "pending"
      BY <1>1, <2>2 DEF Control, TypeOK
    <3>5. QED BY <3>1, <3>2, <3>3, <3>4 DEF Begun, Ended
  <2>3. QED BY <2>1, <2>2 DEF SubmitSmatch
<1>5. Cursor'
  BY <1>1, <1>2, ConstantsAssumption DEF Cursor, Goto, Entry
<1>6. Unsubmitted'
  BY <1>1, <1>2, <1>4 DEF Control, Unsubmitted, Goto, Entry, InBuild, InFuzz, InTrace
<1>7. Awaited' /\ \A e \in Entry : Ended(Fuzz(e))' /\ Ended(Build(e))'
  BY <1>1, <1>2, <1>4 DEF Control, Awaited, Goto, InFuzz, InTrace, InReport
<1>8. StageBarrier'
  <2>1. ~ Begun(Smatcher)'
    BY <1>1, <1>4 DEF Control, Unsubmitted, InTrace
  <2>2. ASSUME NEW e \in Entry, Ended(Smatch(e))' PROVE Ended(Trace(e))'
    <3>1. Smatch(e) # Smatch(idx)
      BY <1>4, <2>2 DEF Ended
    <3>2. Ended(Smatch(e))
      BY <1>4, <2>2, <3>1
    <3>3. QED BY <1>4, <3>2 DEF Control, StageBarrier
  <2>3. QED BY <1>7, <2>1, <2>2 DEF StageBarrier
<1>9. QED BY <1>4, <1>5, <1>6, <1>7, <1>8 DEF Control

LEMMA SubmitTriageKeeps == ASSUME Control, SubmitTriage PROVE Control'
<1> USE JobTypes, JobsDiffer
<1>1. /\ pc = "triage_submit" /\ ~ Begun(Triage) /\ Submit(Triage)
      /\ Goto("trace_wait", 1) /\ UNCHANGED <<left, pipes, pipeOf, out, runs>>
  BY DEF Control, Unsubmitted, SubmitTriage, InTrace
<1>2. pc' \in Location /\ idx' \in 1..(2*N + 1)
  BY <1>1, ConstantsAssumption DEF Goto, Location
<1>3. /\ TypeOK' /\ Queued'
      /\ \A k \in Job : Ended(k) => Ended(k)'
      /\ \A k \in Job : k # Triage => (Begun(k)' <=> Begun(k)) /\ (Ended(k)' <=> Ended(k))
  BY <1>1, <1>2, Submitted DEF Control, TypeOK
<1>4. Cursor'
  BY <1>1 DEF Cursor, Goto
<1>5. Unsubmitted'
  BY <1>1, <1>3 DEF Control, Unsubmitted, Goto, InBuild, InFuzz, InTrace
<1>6. Awaited' /\ \A e \in Entry : Ended(Fuzz(e))' /\ Ended(Build(e))'
  BY <1>1, <1>3 DEF Control, Awaited, Goto, InFuzz, InTrace, InReport
<1>7. StageBarrier'
  BY <1>1, <1>3, <1>6 DEF Control, Unsubmitted, StageBarrier, InTrace
<1>8. QED BY <1>3, <1>4, <1>5, <1>6, <1>7 DEF Control

LEMMA SubmitSmatcherKeeps == ASSUME Control, SubmitSmatcher PROVE Control'
<1> USE JobTypes, JobsDiffer
<1>1. /\ pc = "smatcher_submit" /\ ~ Begun(Smatcher) /\ Submit(Smatcher)
      /\ Goto("smatcher_wait", 1) /\ UNCHANGED <<left, pipes, pipeOf, out, runs>>
  BY DEF Control, Unsubmitted, SubmitSmatcher
<1>2. pc' \in Location /\ idx' \in 1..(2*N + 1)
  BY <1>1, ConstantsAssumption DEF Goto, Location
<1>3. /\ TypeOK' /\ Queued'
      /\ \A k \in Job : Ended(k) => Ended(k)'
      /\ \A k \in Job : k # Smatcher => (Begun(k)' <=> Begun(k)) /\ (Ended(k)' <=> Ended(k))
  BY <1>1, <1>2, Submitted DEF Control, TypeOK
<1>4. Cursor' /\ Unsubmitted'
  BY <1>1 DEF Cursor, Unsubmitted, Goto, InBuild, InFuzz, InTrace
<1>5. /\ Awaited' /\ Ended(Triage)'
      /\ \A e \in Entry : /\ Ended(Build(e))' /\ Ended(Fuzz(e))'
                          /\ Ended(Trace(e))' /\ Ended(Smatch(e))'
  BY <1>1, <1>3 DEF Control, Awaited, Goto, InFuzz, InTrace, InReport
<1>6. StageBarrier'
  BY <1>5 DEF StageBarrier
<1>7. QED BY <1>3, <1>4, <1>5, <1>6 DEF Control
-----------------------------------------------------------------------------
LEMMA ControlInit == Init => Control
<1> SUFFICES ASSUME Init PROVE Control
  OBVIOUS
<1>1. \A j \in Job : ~ Begun(j) /\ ~ Ended(j)
  BY DEF Init, NoJobs, Begun, Ended
<1>2. TypeOK
  BY ConstantsAssumption
     DEF Init, TypeOK, Location, PipeId, Status, NoJobs, NoPipe, Entry
<1>3. Cursor /\ Queued
  BY ConstantsAssumption DEF Init, Cursor, Queued, Entry
<1>4. Unsubmitted /\ Awaited
  BY <1>1, JobTypes DEF Init, Unsubmitted, Awaited, InFuzz, InTrace, InReport
<1>5. StageBarrier
  BY <1>1, JobTypes DEF StageBarrier
<1>6. QED BY <1>2, <1>3, <1>4, <1>5 DEF Control

LEMMA RestartKeepsControl == ASSUME Control, Restart PROVE Control'
<1>1. \A j \in Job : ~ Begun(j)' /\ ~ Ended(j)'
  BY DEF Restart, NoJobs, Begun, Ended
<1>2. runs' \in 1..MaxRuns
  BY ConstantsAssumption DEF Restart, Control, TypeOK
<1>3. TypeOK'
  BY <1>2, ConstantsAssumption DEF Restart, Goto, Control, TypeOK, Location, PipeId,
     Status, NoJobs, NoPipe, Entry
<1>4. Cursor' /\ Queued'
  BY ConstantsAssumption DEF Restart, Goto, Cursor, Queued, Entry
<1>5. Unsubmitted' /\ Awaited'
  BY <1>1, JobTypes DEF Restart, Goto, Unsubmitted, Awaited, InFuzz, InTrace, InReport
<1>6. StageBarrier'
  BY <1>1, JobTypes DEF StageBarrier
<1>7. QED BY <1>3, <1>4, <1>5, <1>6 DEF Control

LEMMA StutterKeepsControl == ASSUME Control, UNCHANGED vars PROVE Control'
BY DEF Control, vars, TypeOK, Cursor, Queued, Unsubmitted, Awaited, StageBarrier,
       Begun, Ended

LEMMA ControlStep == Control /\ [Next]_vars => Control'
<1> SUFFICES ASSUME Control, [Next]_vars PROVE Control'
  OBVIOUS
<1>1. CASE SubmitBuild \/ AwaitBuild
  BY <1>1, SubmitBuildKeeps, AwaitBuildKeeps
<1>2. CASE SubmitFuzz \/ EndFuzzSubmit \/ PollFuzz \/ EndPoll \/ AwaitFuzz
  BY <1>2, SubmitFuzzKeeps, EndFuzzSubmitKeeps, PollKeeps, AwaitFuzzKeeps
<1>3. CASE SubmitTrace \/ SubmitSmatch \/ SubmitTriage \/ AwaitTrace
  BY <1>3, SubmitTraceKeeps, SubmitSmatchKeeps, SubmitTriageKeeps, AwaitTraceKeeps
<1>4. CASE SubmitSmatcher \/ AwaitSmatcher
  BY <1>4, SubmitSmatcherKeeps, AwaitSmatcherKeeps
<1>5. CASE Pool
  BY <1>5, PoolKeepsControl
<1>6. CASE Restart
  BY <1>6, RestartKeepsControl
<1>7. CASE Terminated \/ UNCHANGED vars
  BY <1>7, StutterKeepsControl DEF Terminated
<1>8. QED BY <1>1, <1>2, <1>3, <1>4, <1>5, <1>6, <1>7 DEF Next, Main

LEMMA ControlInvariant == Spec => []Control
BY ControlInit, ControlStep, PTL DEF Spec

(* Type correctness of the pipeline, for all campaigns.                    *)
THEOREM Typing == Spec => []TypeOK
<1>1. Control => TypeOK
  BY DEF Control
<1>2. QED BY <1>1, ControlInvariant, PTL

(* The barriers of run_campaign separate the stages in every campaign,     *)
(* whatever jobs fail and however often it is restarted.                   *)
THEOREM Barriers == Spec => []StageBarrier
<1>1. Control => StageBarrier
  BY DEF Control
<1>2. QED BY <1>1, ControlInvariant, PTL
-----------------------------------------------------------------------------
(* Coverage: why a campaign that ends well has covered every workdir.      *)

(* What a job may add to the workdir of e, and on which grounds.           *)
MayAdd(e, a) ==
  \/ a = "corpus" /\ status[Fuzz(e)] = "launched"
  \/ a = "stats"
  \/ a = "traces" /\ {"target", "corpus"} \subseteq out[e]
  \/ a = "cov" /\ {"target", "traces"} \subseteq out[e]

LEMMA JobWrites ==
  ASSUME NEW e \in Entry, JobStep(e)
  PROVE  \/ out' = out
         \/ /\ status[Fuzz(e)] = "running" /\ ~ Fuzzed(e)
            /\ \E s \in {{}, {"target"}} : out' = [out EXCEPT ![e] = s]
         \/ \E a \in Artefact : MayAdd(e, a) /\ out' = [out EXCEPT ![e] = out[e] \cup {a}]
<1>1. CASE Release(e) \/ FinishBuild(e) \/ SkipFuzz(e) \/ FinishFuzz(e)
  BY <1>1 DEF Release, FinishBuild, SkipFuzz, FinishFuzz
<1>2. CASE LaunchFuzz(e) \/ RefuseFuzz(e)
  BY <1>2 DEF LaunchFuzz, RefuseFuzz
<1>3. CASE KaflWrites(e)
  BY <1>3 DEF KaflWrites, MayAdd, Artefact
<1>4. CASE FinishTrace(e)
  BY <1>4 DEF FinishTrace, MayAdd, Artefact
<1>5. CASE FinishSmatch(e)
  BY <1>5 DEF FinishSmatch, MayAdd, Artefact
<1>6. QED BY <1>1, <1>2, <1>3, <1>4, <1>5 DEF JobStep

LEMMA JobKeepsSound ==
  ASSUME TypeOK, Provenance, NEW e \in Entry, JobStep(e), NEW d \in Entry
  PROVE  Sound(out'[d])
<1>1. out[d] \in SUBSET Artefact /\ out \in [Entry -> SUBSET Artefact] /\ Sound(out[d])
  BY DEF TypeOK, Provenance
<1>2. CASE out' = out
  BY <1>1, <1>2
<1>3. ASSUME NEW s \in {{}, {"target"}}, out' = [out EXCEPT ![e] = s]
      PROVE  Sound(out'[d])
  BY <1>1, <1>3 DEF Sound
<1>4. ASSUME NEW a \in Artefact, MayAdd(e, a), out' = [out EXCEPT ![e] = out[e] \cup {a}]
      PROVE  Sound(out'[d])
  <2>1. a = "corpus" => "target" \in out[e]
    BY <1>4 DEF MayAdd, Provenance
  <2>2. QED BY <1>1, <1>4, <2>1 DEF MayAdd, Sound
<1>5. QED BY <1>2, <1>3, <1>4, JobWrites

(* A fuzz job is launched by LaunchFuzz only.                              *)
LEMMA LaunchedBy ==
  ASSUME TypeOK, Queued, Pool, NEW d \in Entry, status'[Fuzz(d)] = "launched"
  PROVE  status[Fuzz(d)] = "launched" \/ LaunchFuzz(d)
<1> USE JobTypes, JobsDiffer
<1>1. CASE Start
  <2>1. Head(queue) \in Job
    BY <1>1, QueueTaken
  <2>2. QED BY <1>1, <2>1 DEF Start, TypeOK
<1>2. CASE FinishTriage \/ FinishSmatcher
  BY <1>2 DEF FinishTriage, FinishSmatcher, Complete, TypeOK
<1>3. ASSUME NEW e \in Entry, JobStep(e)
      PROVE  status[Fuzz(d)] = "launched" \/ LaunchFuzz(d)
  <2>1. CASE Release(e)
    BY <2>1 DEF Release, Submit, TypeOK
  <2>2. CASE FinishBuild(e) \/ FinishTrace(e) \/ FinishSmatch(e)
    BY <2>2 DEF FinishBuild, FinishTrace, FinishSmatch, Complete, TypeOK
  <2>3. CASE SkipFuzz(e) \/ RefuseFuzz(e) \/ FinishFuzz(e)
    BY <2>3 DEF SkipFuzz, RefuseFuzz, FinishFuzz, Complete, TypeOK, Finished
  <2>4. CASE KaflWrites(e)
    BY <2>4 DEF KaflWrites
  <2>5. CASE LaunchFuzz(e)
    BY <2>5 DEF LaunchFuzz, Complete, TypeOK
  <2>6. QED BY <1>3, <2>1, <2>2, <2>3, <2>4, <2>5 DEF JobStep
<1>4. QED BY <1>1, <1>2, <1>3 DEF Pool

(* Once the smatcher has succeeded, no job can touch a workdir any more.   *)
LEMMA NothingRunsAfterSmatcher ==
  ASSUME TypeOK, StageBarrier, Begun(Smatcher), NEW e \in Entry
  PROVE  /\ Ended(Build(e)) /\ Ended(Fuzz(e)) /\ Ended(Trace(e)) /\ Ended(Smatch(e))
         /\ ~ JobStep(e)
<1>1. Ended(Fuzz(e)) /\ Ended(Trace(e)) /\ Ended(Smatch(e)) /\ Begun(Fuzz(e))
  BY DEF StageBarrier, Begun, Ended
<1>2. Ended(Build(e))
  BY <1>1 DEF StageBarrier
<1>3. ~ JobStep(e)
  BY <1>1, <1>2 DEF JobStep, Release, FinishBuild, SkipFuzz, LaunchFuzz, RefuseFuzz,
     KaflWrites, FinishFuzz, FinishTrace, FinishSmatch, Ended
<1>4. QED BY <1>1, <1>2, <1>3

LEMMA PoolKeepsProvenance == ASSUME Control, Provenance, Pool PROVE Provenance'
<1> USE DEF Control
<1>1. CASE \E e \in Entry : JobStep(e)
  <2>1. PICK e \in Entry : JobStep(e)
    BY <1>1
  <2>2. \A d \in Entry : Sound(out'[d])
    BY <2>1, JobKeepsSound
  <2>3. ASSUME NEW d \in Entry, status'[Fuzz(d)] = "launched" PROVE "target" \in out'[d]
    <3>1. CASE LaunchFuzz(d)
      BY <2>3, <3>1, JobTypes DEF LaunchFuzz, Complete, TypeOK
    <3>2. CASE status[Fuzz(d)] = "launched"
      BY <2>1, <3>2, JobWrites DEF Provenance, TypeOK
    <3>3. QED BY <2>3, <3>1, <3>2, LaunchedBy
  <2>4. ~ Begun(Smatcher)
    BY <2>1, NothingRunsAfterSmatcher
  <2>5. ~ Ended(Smatcher)'
    BY <2>4, PoolSteps, JobTypes DEF PoolEffect, Begun, Ended
  <2>6. Provenance'
    BY <2>2, <2>3, <2>5 DEF Provenance, Fuzz
  <2>7. QED BY <2>6
<1>2. CASE Start \/ FinishTriage \/ FinishSmatcher
  <2>1. out' = out
    BY <1>2 DEF Start, FinishTriage, FinishSmatcher
  <2>2. \A d \in Entry : status'[Fuzz(d)] = "launched" => status[Fuzz(d)] = "launched"
    BY <1>2, QueueTaken, JobTypes, JobsDiffer
       DEF Start, FinishTriage, FinishSmatcher, Complete, TypeOK, Finished
  <2>3. Ended(Smatcher)' => SmatcherAccepts
    BY <1>2, QueueTaken, JobTypes, JobsDiffer
       DEF Start, FinishTriage, FinishSmatcher, Complete, TypeOK, Provenance, Ended
  <2>4. QED BY <2>1, <2>2, <2>3 DEF Provenance, SmatcherAccepts, Fuzz
<1>3. QED BY <1>1, <1>2 DEF Pool

(* The main thread submits at most one job in a step, and starts none.     *)
LEMMA MainSubmits ==
  ASSUME Control, Main
  PROVE  \/ status' = status
         \/ \E j \in Job, r \in {"queued", "pending"} : status' = [status EXCEPT ![j] = r]
<1>1. CASE SubmitBuild \/ SubmitFuzz \/ SubmitTrace \/ SubmitSmatch
  <2>1. idx \in Entry \/ left \in Entry
    BY <1>1, ConstantsAssumption DEF Control, TypeOK, Cursor, SubmitBuild, SubmitFuzz,
       SubmitTrace, SubmitSmatch, Entry
  <2>2. QED BY <1>1, JobTypes, ConstantsAssumption DEF Control, TypeOK, Cursor, Entry,
        SubmitBuild, SubmitFuzz, SubmitTrace, SubmitSmatch, Submit
<1>2. CASE SubmitTriage \/ SubmitSmatcher
  BY <1>2, JobTypes DEF SubmitTriage, SubmitSmatcher, Submit
<1>3. CASE AwaitBuild \/ AwaitFuzz \/ AwaitTrace \/ AwaitSmatcher \/ EndFuzzSubmit
           \/ PollFuzz \/ EndPoll
  BY <1>3 DEF AwaitBuild, AwaitFuzz, AwaitTrace, AwaitSmatcher, Await, EndFuzzSubmit,
     PollFuzz, EndPoll
<1>4. QED BY <1>1, <1>2, <1>3 DEF Main

LEMMA MainKeepsProvenance == ASSUME Control, Provenance, Main PROVE Provenance'
<1>1. out' = out
  BY DEF Main, SubmitBuild, AwaitBuild, SubmitFuzz, EndFuzzSubmit, PollFuzz, EndPoll,
     AwaitFuzz, SubmitTrace, SubmitSmatch, SubmitTriage, AwaitTrace, SubmitSmatcher,
     AwaitSmatcher, Await
<1>2. \A j \in Job : status'[j] \in {"launched", "ok"} => status'[j] = status[j]
  BY MainSubmits DEF Control, TypeOK
<1>3. QED BY <1>1, <1>2, JobTypes DEF Provenance, SmatcherAccepts, Ended, Fuzz

LEMMA ProvenanceInvariant == Spec => []Provenance
<1>1. Init => Provenance
  BY JobTypes DEF Init, Provenance, Sound, NoJobs, Ended
<1>2. Control /\ Provenance /\ [Next]_vars => Provenance'
  <2> SUFFICES ASSUME Control, Provenance, [Next]_vars PROVE Provenance'
    OBVIOUS
  <2>1. CASE Main
    BY <2>1, MainKeepsProvenance
  <2>2. CASE Pool
    BY <2>2, PoolKeepsProvenance
  <2>3. CASE Restart
    BY <2>3, JobTypes DEF Restart, Provenance, NoJobs, Ended
  <2>4. CASE Terminated \/ UNCHANGED vars
    BY <2>4 DEF Terminated, vars, Provenance, SmatcherAccepts, Ended
  <2>5. QED BY <2>1, <2>2, <2>3, <2>4 DEF Next
<1>3. QED BY <1>1, <1>2, ControlInvariant, PTL DEF Spec

(* A campaign that reaches its end has covered every workdir, for every    *)
(* number of workdirs and whatever errors fuzz.sh has hidden on the way.   *)
THEOREM Coverage == Spec => []DoneMeansCovered
<1>1. Control /\ Provenance => DoneMeansCovered
  <2> SUFFICES ASSUME Control, Provenance, pc = "done", NEW e \in Entry
               PROVE  {"target", "corpus", "traces", "cov"} \subseteq out[e]
    BY DEF DoneMeansCovered
  <2>1. "cov" \in out[e]
    BY DEF Control, Awaited, Provenance, SmatcherAccepts
  <2>2. QED BY <2>1 DEF Provenance, Sound
<1>2. QED BY <1>1, ControlInvariant, ProvenanceInvariant, PTL

(* No step of the pipeline removes anything from a workdir that holds      *)
(* kAFL's status files.                                                    *)
THEOREM FuzzOutputSafe == Spec => FuzzOutputKept
<1>1. Control /\ [Next]_vars => [\A e \in Entry : "stats" \in out[e] => out[e] \subseteq out'[e]]_vars
  <2> SUFFICES ASSUME Control, Next, NEW d \in Entry, Fuzzed(d) PROVE out[d] \subseteq out'[d]
    BY DEF Fuzzed
  <2>1. CASE out' = out
    BY <2>1
  <2>2. CASE \E e \in Entry : JobStep(e)
    <3>1. PICK e \in Entry : JobStep(e)
      BY <2>2
    <3>2. QED BY <3>1, JobWrites DEF Control, TypeOK
  <2>3. QED BY <2>1, <2>2 DEF Next, Main, Pool, Restart, Terminated, vars, Start,
        FinishTriage, FinishSmatcher, SubmitBuild, AwaitBuild, SubmitFuzz, EndFuzzSubmit,
        PollFuzz, EndPoll, AwaitFuzz, SubmitTrace, SubmitSmatch, SubmitTriage, AwaitTrace,
        SubmitSmatcher, AwaitSmatcher, Await
<1>2. QED BY <1>1, ControlInvariant, PTL DEF Spec, FuzzOutputKept
-----------------------------------------------------------------------------
(* When two fuzzers never share a pipe.  The scheduling loop of            *)
(* run_campaign frees pipes by the tasks that are done, however long they  *)
(* have been, so it is right only if at most one entry is left when pipes  *)
(* are freed, or if the pool starts one job at a time anyway.              *)

(* How pipes are dealt out when there is at most one entry more than there *)
(* are pipes: until then each to one entry, the last one to an entry whose *)
(* pipe belonged to a fuzzer that has ended.                               *)
Given(e) == e \in Entry /\ e > left

Dealt ==
  /\ \A e \in Entry : ~ Given(e) => ~ Begun(Fuzz(e))
  /\ pc \in InBuild => left = N /\ pipes = PipeId
  /\ pc \in InFuzz /\ left > 0 =>
       \A e \in Entry : Given(e) =>
         /\ \A d \in Entry \ {e} : Given(d) => pipeOf[d] # pipeOf[e]
         /\ pipeOf[e] \in pipes => Ended(Fuzz(e))
  /\ pc \in InFuzz /\ left > 1 =>
       /\ pc = "fuzz_submit"
       /\ \A e \in Entry : Given(e) => pipeOf[e] \notin pipes
       /\ \A p \in PipeId \ pipes : \E e \in Entry : Given(e) /\ pipeOf[e] = p
  /\ \A d, e \in Entry : Given(d) /\ Given(e) /\ d # e /\ pipeOf[d] = pipeOf[e]
       => Ended(Fuzz(d)) \/ Ended(Fuzz(e))
-----------------------------------------------------------------------------
(* A step that deals no pipe and frees none.                               *)
LEMMA NoDeal ==
  ASSUME Dealt, UNCHANGED <<left, pipes, pipeOf>>,
         \A e \in Entry : /\ ~ Begun(Fuzz(e)) => ~ Begun(Fuzz(e))'
                          /\ Ended(Fuzz(e)) => Ended(Fuzz(e))',
         pc' \in InBuild => pc \in InBuild,
         pc' \in InFuzz => pc \in InFuzz /\ (left > 1 => pc' = "fuzz_submit")
  PROVE  Dealt'
<1>1. \A e : Given(e)' <=> Given(e)
  BY DEF Given
<1>2. QED BY <1>1 DEF Dealt

(* If more than one entry is left, some pipe was never dealt out.          *)
LEMMA SomePipeLeft ==
  ASSUME NEW l \in Nat, l > 1, l <= N, N <= Pipes + 1, NEW f \in [Entry -> PipeId]
  PROVE  \E p \in PipeId : \A e \in Entry : e > l => f[e] # p
<1> SUFFICES ASSUME \A p \in PipeId : \E e \in Entry : e > l /\ f[e] = p PROVE FALSE
  OBVIOUS
<1> DEFINE last == (l + 1)..N
           user == [p \in PipeId |-> CHOOSE e \in last : f[e] = p]
<1>1. \A p \in PipeId : \E e \in last : f[e] = p
  BY ConstantsAssumption DEF Entry
<1>2. user \in [PipeId -> last] /\ \A p \in PipeId : f[user[p]] = p
  BY <1>1
<1>3. IsFiniteSet(PipeId) /\ Cardinality(PipeId) = Pipes
  BY FS_Interval, ConstantsAssumption DEF PipeId
<1>4. IsFiniteSet(last) /\ Cardinality(last) < Pipes
  <2>1. l + 1 \in Int /\ N \in Int /\ ~ (l + 1 > N + 1)
    BY ConstantsAssumption
  <2>2. /\ IsFiniteSet(last)
        /\ Cardinality(last) = IF l + 1 > N THEN 0 ELSE N - (l + 1) + 1
    BY <2>1, FS_Interval
  <2>3. Cardinality(last) = N - l
    BY <2>1, <2>2, ConstantsAssumption
  <2>4. QED BY <2>2, <2>3, ConstantsAssumption
<1> HIDE DEF last, user
<1>5. \E p, q \in PipeId : p # q /\ user[p] = user[q]
  BY <1>2, <1>3, <1>4, FS_PigeonHole
<1>6. QED BY <1>2, <1>5

LEMMA SubmitFuzzDeals ==
  ASSUME Control, Dealt, SubmitFuzz, N <= Pipes + 1 PROVE Dealt'
<1> USE JobTypes, JobsDiffer
<1>1. /\ pc = "fuzz_submit" /\ left \in Entry /\ left' = left - 1
      /\ Submit(Fuzz(left)) /\ Fuzz(left) \in Job /\ ~ Begun(Fuzz(left))
      /\ pc \in InFuzz /\ left > 0 /\ left \in Nat
  BY ConstantsAssumption DEF Control, TypeOK, Unsubmitted, SubmitFuzz, Entry, InFuzz
<1>2. PICK p \in pipes : pipes' = pipes \ {p} /\ pipeOf' = [pipeOf EXCEPT ![left] = p]
  BY DEF SubmitFuzz
<1>3. /\ pipeOf' \in [Entry -> PipeId] /\ pipeOf'[left] = p /\ p \in PipeId
      /\ \A e \in Entry : e # left => pipeOf'[e] = pipeOf[e]
  BY <1>1, <1>2 DEF Control, TypeOK
<1>4. \A e \in Entry : Given(e)' <=> Given(e) \/ e = left
  BY <1>1, ConstantsAssumption DEF Given, Entry
<1>5. \A e \in Entry : Given(e) => e # left
  BY <1>1 DEF Given
<1>6. \A e \in Entry \ {left} : /\ Begun(Fuzz(e))' <=> Begun(Fuzz(e))
                                /\ Ended(Fuzz(e))' <=> Ended(Fuzz(e))
  BY <1>1 DEF Control, TypeOK, Submit, Begun, Ended
<1>7. pc' \in {"fuzz_poll", "fuzz_submit"} /\ (pipes' # {} => pc' = "fuzz_submit")
  BY <1>1 DEF SubmitFuzz, Goto
<1>8. \A e \in Entry : ~ Given(e)' => ~ Begun(Fuzz(e))'
  BY <1>4, <1>6 DEF Dealt
<1>9. left > 1 => \A e \in Entry : Given(e) => pipeOf[e] \notin pipes
  BY <1>1 DEF Dealt
<1>10. \A e \in Entry : Given(e) /\ pipeOf[e] = p => Ended(Fuzz(e))'
  BY <1>1, <1>2, <1>5, <1>6 DEF Dealt
<1>11. \A d, e \in Entry : Given(d) /\ Given(e) /\ d # e => pipeOf[d] # pipeOf[e]
  BY <1>1 DEF Dealt
<1>12. left' > 0 => left > 1
  BY <1>1
<1>13. left' > 0 =>
         \A e \in Entry : Given(e)' =>
           /\ \A d \in Entry \ {e} : Given(d)' => pipeOf'[d] # pipeOf'[e]
           /\ pipeOf'[e] \in pipes' => Ended(Fuzz(e))'
  BY <1>2, <1>3, <1>4, <1>5, <1>9, <1>11, <1>12
<1>14. left' > 1 =>
         /\ \A e \in Entry : Given(e)' => pipeOf'[e] \notin pipes'
         /\ \A q \in PipeId \ pipes' : \E e \in Entry : Given(e)' /\ pipeOf'[e] = q
  <2> SUFFICES ASSUME left' > 1
               PROVE  /\ \A e \in Entry : Given(e)' => pipeOf'[e] \notin pipes'
                      /\ \A q \in PipeId \ pipes' : \E e \in Entry : Given(e)' /\ pipeOf'[e] = q
    OBVIOUS
  <2>1. left > 1
    BY <1>1
  <2>2. \A q \in PipeId \ pipes : \E e \in Entry : Given(e) /\ pipeOf[e] = q
    BY <1>1, <2>1 DEF Dealt
  <2>3. \A q \in PipeId \ pipes' : q = p \/ q \in PipeId \ pipes
    BY <1>2
  <2>4. QED BY <1>1, <1>2, <1>3, <1>4, <1>5, <1>9, <2>1, <2>2, <2>3
<1>15. left' > 1 => pc' = "fuzz_submit"
  <2> SUFFICES ASSUME left' > 1 PROVE pipes' # {}
    BY <1>7
  <2>1. left' \in Nat /\ left' <= N
    BY <1>1, ConstantsAssumption DEF Entry
  <2>2. PICK q \in PipeId : \A e \in Entry : e > left' => pipeOf'[e] # q
    BY <1>3, <2>1, SomePipeLeft
  <2>3. \A e \in Entry : Given(e)' => pipeOf'[e] # q
    BY <2>2 DEF Given
  <2>4. QED BY <1>14, <2>3
<1>16. \A d, e \in Entry : Given(d)' /\ Given(e)' /\ d # e /\ pipeOf'[d] = pipeOf'[e]
         => Ended(Fuzz(d))' \/ Ended(Fuzz(e))'
  BY <1>3, <1>4, <1>5, <1>10, <1>11
<1>17. pc' \notin InBuild
  BY <1>7 DEF InBuild
<1>18. QED BY <1>8, <1>13, <1>14, <1>15, <1>16, <1>17 DEF Dealt

LEMMA PollFuzzDeals == ASSUME Control, Dealt, PollFuzz PROVE Dealt'
<1> DEFINE e0 == N + 1 - idx
<1>1. /\ pc = "fuzz_poll" /\ pc \in InFuzz /\ ~ (left > 1)
      /\ idx \in Nat /\ left \in Nat /\ idx <= N - left /\ idx > 0
      /\ UNCHANGED <<left, pipeOf, status>>
  BY DEF Control, TypeOK, Cursor, PollFuzz, InFuzz, Dealt
<1>2. e0 \in Entry /\ Given(e0) /\ FuzzTask(idx) = Fuzz(e0)
  BY <1>1, ConstantsAssumption DEF Given, Entry, FuzzTask
<1>3. \A e \in Entry : /\ Begun(Fuzz(e))' <=> Begun(Fuzz(e))
                       /\ Ended(Fuzz(e))' <=> Ended(Fuzz(e))
  BY <1>1 DEF Begun, Ended
<1>4. pc' \in {"fuzz_poll", "aborted"}
  BY DEF PollFuzz, Goto
<1>5. CASE pipes' = pipes
  BY <1>1, <1>3, <1>4, <1>5, NoDeal DEF InBuild, InFuzz
<1>6. CASE pipes' # pipes
  <2>1. pipes' = pipes \cup {pipeOf[e0]} /\ Ended(Fuzz(e0))
    BY <1>2, <1>6 DEF PollFuzz, Ended
  <2>2. \A e \in Entry : Given(e)' <=> Given(e)
    BY <1>1 DEF Given
  <2>3. left > 0 => \A e \in Entry : Given(e) /\ pipeOf[e] = pipeOf[e0] => e = e0
    BY <1>1, <1>2 DEF Dealt
  <2>4. QED BY <1>1, <1>3, <1>4, <2>1, <2>2, <2>3 DEF Dealt, InBuild, InFuzz
<1>7. QED BY <1>5, <1>6

LEMMA AwaitBuildDeals == ASSUME Control, Dealt, AwaitBuild PROVE Dealt'
<1>1. /\ pc = "build_wait" /\ pc \in InBuild /\ left = N /\ pipes = PipeId
      /\ UNCHANGED <<left, pipes, pipeOf, status>>
      /\ pc' \in {"build_wait", "fuzz_submit", "aborted"}
  BY DEF AwaitBuild, Await, Goto, Dealt, InBuild
<1>2. \A e \in Entry : ~ Given(e) /\ ~ Given(e)'
  BY <1>1, ConstantsAssumption DEF Given, Entry
<1>3. \A e \in Entry : ~ Begun(Fuzz(e))'
  BY <1>1, <1>2 DEF Dealt, Begun
<1>4. QED BY <1>1, <1>2, <1>3 DEF Dealt, InBuild, InFuzz

LEMMA OthersDeal ==
  ASSUME Control, Dealt,
         \/ SubmitBuild \/ EndFuzzSubmit \/ EndPoll \/ AwaitFuzz \/ SubmitTrace \/ SubmitSmatch
         \/ SubmitTriage \/ AwaitTrace \/ SubmitSmatcher \/ AwaitSmatcher
  PROVE  Dealt'
<1> USE JobTypes, JobsDiffer DEF Goto, InBuild, InFuzz
<1>1. UNCHANGED <<left, pipes, pipeOf>>
  BY DEF SubmitBuild, EndFuzzSubmit, EndPoll, AwaitFuzz, SubmitTrace, SubmitSmatch,
     SubmitTriage, AwaitTrace, SubmitSmatcher, AwaitSmatcher, Await
<1>2. CASE SubmitBuild
  <2>1. idx \in Entry /\ pc' \in {"build_submit", "build_wait"}
    BY <1>2 DEF SubmitBuild, Control, Cursor
  <2>2. QED BY <1>1, <1>2, <2>1, NoDeal DEF SubmitBuild, Submit, Control, TypeOK, Begun, Ended
<1>3. CASE EndFuzzSubmit \/ EndPoll \/ AwaitFuzz \/ AwaitTrace \/ AwaitSmatcher
  <2>1. status' = status
    BY <1>3 DEF EndFuzzSubmit, EndPoll, AwaitFuzz, AwaitTrace, AwaitSmatcher, Await
  <2>2. pc' \notin InBuild
    BY <1>3 DEF EndFuzzSubmit, EndPoll, AwaitFuzz, AwaitTrace, AwaitSmatcher, Await
  <2>3. pc' \in InFuzz => pc \in InFuzz /\ (left > 1 => pc' = "fuzz_submit")
    BY <1>3 DEF EndFuzzSubmit, EndPoll, AwaitFuzz, AwaitTrace, AwaitSmatcher, Await, Dealt
  <2>4. QED BY <1>1, <2>1, <2>2, <2>3, NoDeal DEF Begun, Ended
<1>4. CASE SubmitTrace \/ SubmitSmatch \/ SubmitTriage \/ SubmitSmatcher
  <2>1. pc' \notin InBuild \cup InFuzz
    BY <1>4 DEF SubmitTrace, SubmitSmatch, SubmitTriage, SubmitSmatcher
  <2>2. PICK j \in Job, r \in Status :
          status' = [status EXCEPT ![j] = r] /\ \A e \in Entry : j # Fuzz(e)
    BY <1>4 DEF SubmitTrace, SubmitSmatch, SubmitTriage, SubmitSmatcher, Submit, Status,
       Control, Cursor
  <2>3. \A e \in Entry : status'[Fuzz(e)] = status[Fuzz(e)]
    BY <2>2 DEF Control, TypeOK
  <2>4. QED BY <1>1, <2>1, <2>3, NoDeal DEF Begun, Ended
<1>5. QED BY <1>2, <1>3, <1>4

LEMMA DealtInvariant == N <= Pipes + 1 /\ Spec => []Dealt
<1> SUFFICES ASSUME N <= Pipes + 1 PROVE Spec => []Dealt
  OBVIOUS
<1> USE JobTypes
<1>1. Init => Dealt
  BY ConstantsAssumption DEF Init, Dealt, Given, Entry, NoJobs, Begun, InFuzz
<1>2. Control /\ Dealt /\ [Next]_vars => Dealt'
  <2> SUFFICES ASSUME Control, Dealt, [Next]_vars PROVE Dealt'
    OBVIOUS
  <2>1. CASE Main
    BY <2>1, SubmitFuzzDeals, PollFuzzDeals, AwaitBuildDeals, OthersDeal DEF Main
  <2>2. CASE Pool
    <3>1. PoolEffect
      BY <2>2, PoolSteps DEF Control
    <3>2. QED BY <3>1, NoDeal DEF PoolEffect, mainVars, Dealt
  <2>3. CASE Restart
    <3>1. \A e \in Entry : ~ Given(e)' /\ ~ Begun(Fuzz(e))'
      BY <2>3, ConstantsAssumption DEF Restart, Given, Entry, NoJobs, Begun
    <3>2. QED BY <2>3, <3>1 DEF Restart, Goto, Dealt, InFuzz
  <2>4. CASE Terminated \/ UNCHANGED vars
    BY <2>4, NoDeal DEF Terminated, vars, Begun, Ended, Dealt
  <2>5. QED BY <2>1, <2>2, <2>3, <2>4 DEF Next
<1>3. QED BY <1>1, <1>2, ControlInvariant, PTL DEF Spec

LEMMA RunningNotEnded ==
  ASSUME NEW e \in Entry, Fuzz(e) \in Running PROVE Begun(Fuzz(e)) /\ ~ Ended(Fuzz(e))
BY DEF Running, Begun, Ended

(* Two fuzzers never share a pipe when a campaign has at most one workdir  *)
(* more than it has pipes; with two more, they may (the run "pipes").      *)
THEOREM FewEntries == N <= Pipes + 1 /\ Spec => []PipesExclusive
<1>1. Dealt => PipesExclusive
  <2> SUFFICES ASSUME Dealt, NEW d \in Entry, NEW e \in Entry, d # e,
                      Fuzz(d) \in Running, Fuzz(e) \in Running
               PROVE  pipeOf[d] # pipeOf[e]
    BY DEF PipesExclusive
  <2>1. Given(d) /\ Given(e)
    BY RunningNotEnded DEF Dealt
  <2>2. QED BY <2>1, RunningNotEnded DEF Dealt
<1>2. QED BY <1>1, DealtInvariant, PTL
-----------------------------------------------------------------------------
(* One pipe: the pool has one thread.                                      *)
OneRunning == Running = {} \/ \E j \in Job : Running = {j}

(* Only Start gives a job a thread.                                        *)
LEMMA JobKeepsThreads ==
  ASSUME TypeOK, NEW e \in Entry, JobStep(e) PROVE Running' \subseteq Running
<1> USE JobTypes
<1>1. CASE Release(e)
  BY <1>1 DEF Release, Submit, TypeOK, Running
<1>2. CASE FinishBuild(e) \/ FinishTrace(e) \/ FinishSmatch(e)
  BY <1>2 DEF FinishBuild, FinishTrace, FinishSmatch, Complete, MayFail, TypeOK, Running
<1>3. CASE SkipFuzz(e) \/ LaunchFuzz(e) \/ RefuseFuzz(e) \/ FinishFuzz(e)
  BY <1>3 DEF SkipFuzz, LaunchFuzz, RefuseFuzz, FinishFuzz, Complete, Finished, TypeOK, Running
<1>4. CASE KaflWrites(e)
  BY <1>4 DEF KaflWrites, Running
<1>5. QED BY <1>1, <1>2, <1>3, <1>4 DEF JobStep

LEMMA ThreadInvariant == Pipes = 1 /\ Spec => []OneRunning
<1> SUFFICES ASSUME Pipes = 1 PROVE Spec => []OneRunning
  OBVIOUS
<1>1. Init => OneRunning
  BY DEF Init, NoJobs, OneRunning, Running
<1>2. Control /\ OneRunning /\ [Next]_vars => OneRunning'
  <2> SUFFICES ASSUME Control, OneRunning, [Next]_vars PROVE OneRunning'
    OBVIOUS
  <2>1. CASE Running' \subseteq Running
    BY <2>1 DEF OneRunning
  <2>2. CASE Start
    <3>1. Running = {}
      <4>1. \A j \in Job : Running = {j} => Cardinality(Running) = 1
        BY FS_Singleton
      <4>2. Cardinality(Running) < 1
        BY <2>2 DEF Start
      <4>3. QED BY <4>1, <4>2 DEF OneRunning
    <3>2. Head(queue) \in Job
      BY <2>2, QueueTaken DEF Control
    <3>3. Running' = {Head(queue)}
      BY <2>2, <3>1, <3>2 DEF Start, Control, TypeOK, Running
    <3>4. QED BY <3>2, <3>3 DEF OneRunning
  <2>3. CASE \E e \in Entry : JobStep(e)
    BY <2>1, <2>3, JobKeepsThreads DEF Control
  <2>4. CASE FinishTriage \/ FinishSmatcher
    BY <2>1, <2>4, JobTypes DEF FinishTriage, FinishSmatcher, Complete, MayFail, Finished,
       Control, TypeOK, Running
  <2>5. CASE Main
    BY <2>1, <2>5, MainSubmits DEF Control, TypeOK, Running
  <2>6. CASE Restart
    BY <2>6 DEF Restart, NoJobs, OneRunning, Running
  <2>7. CASE Terminated \/ UNCHANGED vars
    BY <2>1, <2>7 DEF Terminated, vars, Running
  <2>8. QED BY <2>2, <2>3, <2>4, <2>5, <2>6, <2>7 DEF Next, Pool
<1>3. QED BY <1>1, <1>2, ControlInvariant, PTL DEF Spec

(* With one pipe, a second fuzzer does not start before the first is gone, *)
(* whichever pipes the main thread believes to be free.                    *)
THEOREM OnePipe == Pipes = 1 /\ Spec => []PipesExclusive
<1>1. OneRunning => PipesExclusive
  BY JobsDiffer DEF OneRunning, PipesExclusive
<1>2. QED BY <1>1, ThreadInvariant, PTL
-----------------------------------------------------------------------------
(* Why nobody waits for ever: a job is started after the one it waits for, *)
(* and the main thread waits only for what it has submitted.               *)

(* Jobs that wait are in the queue, or held back; a smatch job is behind   *)
(* the trace job it waits for.                                             *)
InLine ==
  /\ \A j \in Job : status[j] = "queued" => \E i \in 1..Len(queue) : queue[i] = j
  /\ \A j \in Job : status[j] = "pending" => \E e \in Entry : j = Smatch(e)
  /\ \A e \in Entry : Begun(Smatch(e)) => Begun(Trace(e))
  /\ \A e \in Entry : \A i, k \in 1..Len(queue) :
       queue[i] = Smatch(e) /\ queue[k] = Trace(e) => k < i
  /\ \A e \in Entry : status[Trace(e)] = "queued" =>
       status[Smatch(e)] \in {"none", "pending", "queued"}

(* Jobs that the main thread has submitted, and pipes it has left.         *)
Accepted ==
  /\ pc = "build_submit" => \A e \in Entry : e < idx => Begun(Build(e))
  /\ pc = "build_wait" => \A e \in Entry : Begun(Build(e))
  /\ pc \in InBuild => left = N /\ pipes = PipeId
  /\ pc = "fuzz_submit" => pipes # {}
  /\ pc = "fuzz_poll" => left < N
  /\ pc = "fuzz_wait" => left = 0
  /\ pc \in InFuzz => \A e \in Entry : e > left => Begun(Fuzz(e))
  /\ pc = "trace_submit" => \A e \in Entry : e < idx => Begun(Trace(e)) /\ Begun(Smatch(e))
  /\ pc = "smatch_submit" =>
       \A e \in Entry : (e <= idx => Begun(Trace(e))) /\ (e < idx => Begun(Smatch(e)))
  /\ pc \in {"triage_submit", "trace_wait"} =>
       \A e \in Entry : Begun(Trace(e)) /\ Begun(Smatch(e))
  /\ pc = "trace_wait" => Begun(Triage)
  /\ pc = "smatcher_wait" => Begun(Smatcher)

(* The three ways in which a step treats the jobs.                         *)
Untouched == status' = status /\ queue' = queue

Settles(j, r) ==
  /\ status' = [status EXCEPT ![j] = r] /\ queue' = queue
  /\ r \in {"pending", "launched", "ok", "failed"}
  /\ \/ status[j] \in {"running", "launched"} /\ r # "pending"
     \/ /\ status[j] \in {"none", "pending"}
        /\ \E e \in Entry : /\ j = Smatch(e) /\ Begun(Trace(e))
                            /\ r # "pending" => status[Trace(e)] # "queued"

Lines(j) ==
  /\ status[j] \in {"none", "pending"} /\ Submit(j)
  /\ \A e \in Entry : /\ j = Trace(e) => ~ Begun(Smatch(e))
                      /\ j = Smatch(e) => Begun(Trace(e))

LEMMA SettlesInLine ==
  ASSUME TypeOK, Queued, InLine, NEW j \in Job, NEW r, Settles(j, r)
  PROVE  InLine' /\ \A k \in Job : Begun(k) => Begun(k)'
<1> USE JobTypes, JobsDiffer
<1>1. /\ status \in [Job -> Status] /\ queue' = queue
      /\ status' = [status EXCEPT ![j] = r]
      /\ r \in {"pending", "launched", "ok", "failed"} /\ status[j] # "queued"
  BY DEF TypeOK, Settles
<1>2. status'[j] = r /\ \A k \in Job : k # j => status'[k] = status[k]
  BY <1>1
<1>3. \A k \in Job : Begun(k) => Begun(k)'
  BY <1>1, <1>2 DEF Begun
<1>4. \A k \in Job : status'[k] = "queued" => status[k] = "queued"
  BY <1>1, <1>2
<1>5. \A k \in Job : status'[k] = "queued" => \E i \in 1..Len(queue') : queue'[i] = k
  BY <1>1, <1>4 DEF InLine
<1>6. ASSUME NEW k \in Job, status'[k] = "pending" PROVE \E e \in Entry : k = Smatch(e)
  BY <1>2, <1>6 DEF InLine, Settles
<1>7. ASSUME NEW e \in Entry, Begun(Smatch(e))' PROVE Begun(Trace(e))'
  <2>1. CASE Begun(Smatch(e))
    BY <1>3, <2>1 DEF InLine
  <2>2. CASE ~ Begun(Smatch(e))
    <3>1. j = Smatch(e)
      BY <1>2, <1>7, <2>2 DEF Begun
    <3>2. Begun(Trace(e))
      BY <2>2, <3>1 DEF Settles, Begun
    <3>3. QED BY <1>3, <3>2
  <2>3. QED BY <2>1, <2>2
<1>8. ASSUME NEW e \in Entry, status'[Trace(e)] = "queued"
      PROVE  status'[Smatch(e)] \in {"none", "pending", "queued"}
  <2>1. status[Trace(e)] = "queued"
    BY <1>4, <1>8
  <2>2. status[Smatch(e)] \in {"none", "pending", "queued"}
    BY <2>1 DEF InLine
  <2>3. CASE j # Smatch(e)
    BY <1>2, <2>2, <2>3
  <2>4. CASE j = Smatch(e)
    BY <1>2, <2>1, <2>2, <2>4 DEF Settles
  <2>5. QED BY <2>3, <2>4
<1>9. \A e \in Entry : \A i, k \in 1..Len(queue') :
        queue'[i] = Smatch(e) /\ queue'[k] = Trace(e) => k < i
  BY <1>1 DEF InLine
<1>10. QED BY <1>3, <1>5, <1>6, <1>7, <1>8, <1>9 DEF InLine

LEMMA LinesInLine ==
  ASSUME TypeOK, Queued, InLine, NEW j \in Job, Lines(j)
  PROVE  InLine' /\ \A k \in Job : Begun(k) => Begun(k)'
<1> USE JobTypes, JobsDiffer
<1>1. /\ status \in [Job -> Status] /\ queue \in Seq(Job) /\ status[j] \in {"none", "pending"}
      /\ status' = [status EXCEPT ![j] = "queued"] /\ queue' = Append(queue, j)
  BY DEF TypeOK, Lines, Submit
<1>2. status'[j] = "queued" /\ \A k \in Job : k # j => status'[k] = status[k]
  BY <1>1
<1>3. /\ Len(queue) \in Nat /\ Len(queue') = Len(queue) + 1
      /\ \A i \in 1..Len(queue) : queue'[i] = queue[i]
      /\ queue'[Len(queue) + 1] = j
  BY <1>1
<1>4. \A k \in Job : Begun(k) => Begun(k)'
  BY <1>2 DEF Begun
<1>5. ASSUME NEW k \in Job, status'[k] = "queued" PROVE \E i \in 1..Len(queue') : queue'[i] = k
  <2>1. CASE k = j
    <3>1. Len(queue) + 1 \in 1..Len(queue')
      BY <1>3
    <3>2. QED BY <1>3, <2>1, <3>1
  <2>2. CASE k # j
    <3>1. PICK i \in 1..Len(queue) : queue[i] = k
      BY <1>2, <1>5, <2>2 DEF InLine
    <3>2. i \in 1..Len(queue')
      BY <1>3
    <3>3. QED BY <1>3, <3>1, <3>2
  <2>3. QED BY <2>1, <2>2
<1>6. ASSUME NEW k \in Job, status'[k] = "pending" PROVE \E e \in Entry : k = Smatch(e)
  BY <1>2, <1>6 DEF InLine
<1>7. ASSUME NEW e \in Entry, Begun(Smatch(e))' PROVE Begun(Trace(e))'
  <2>1. Begun(Trace(e))
    BY <1>2, <1>7 DEF InLine, Lines, Begun
  <2>2. QED BY <1>4, <2>1
<1>8. ASSUME NEW e \in Entry, status'[Trace(e)] = "queued"
      PROVE  status'[Smatch(e)] \in {"none", "pending", "queued"}
  <2>1. CASE j = Smatch(e)
    BY <1>2, <2>1
  <2>2. CASE j # Smatch(e)
    BY <1>2, <1>8, <2>2 DEF InLine, Lines, Begun
  <2>3. QED BY <2>1, <2>2
<1>9. ASSUME NEW e \in Entry, NEW i \in 1..Len(queue'), NEW k \in 1..Len(queue'),
             queue'[i] = Smatch(e), queue'[k] = Trace(e)
      PROVE  k < i
  <2>1. CASE k \in 1..Len(queue) /\ i \in 1..Len(queue)
    BY <1>3, <1>9, <2>1 DEF InLine
  <2>2. CASE k \in 1..Len(queue) /\ i = Len(queue) + 1
    BY <1>3, <2>2
  <2>3. CASE k = Len(queue) + 1
    <3>1. j = Trace(e) /\ ~ Begun(Smatch(e))
      BY <1>3, <1>9, <2>3 DEF Lines
    <3>2. i \in 1..Len(queue)
      BY <1>3, <1>9, <2>3
    <3>3. status[Smatch(e)] = "queued"
      BY <1>3, <1>9, <3>2 DEF Queued
    <3>4. QED BY <3>1, <3>3 DEF Begun
  <2>4. QED BY <1>3, <2>1, <2>2, <2>3
<1>10. QED BY <1>4, <1>5, <1>6, <1>7, <1>8, <1>9 DEF InLine

LEMMA StartInLine ==
  ASSUME TypeOK, Queued, InLine, Start
  PROVE  InLine' /\ \A k \in Job : Begun(k) => Begun(k)'
<1> USE JobTypes, JobsDiffer
<1> DEFINE h == Head(queue)
<1>1. /\ status \in [Job -> Status] /\ queue \in Seq(Job) /\ queue # <<>>
      /\ status' = [status EXCEPT ![h] = "running"] /\ queue' = Tail(queue)
      /\ h \in Job /\ status[h] = "queued"
  BY QueueTaken DEF TypeOK, Start
<1>2. /\ Len(queue) \in Nat \ {0} /\ Len(queue') = Len(queue) - 1 /\ h = queue[1]
      /\ \A i \in 1..Len(queue') : queue'[i] = queue[i + 1] /\ i + 1 \in 1..Len(queue)
  BY <1>1
<1> HIDE DEF h
<1>3. status'[h] = "running" /\ \A k \in Job : k # h => status'[k] = status[k]
  BY <1>1
<1>4. \A k \in Job : Begun(k) => Begun(k)'
  BY <1>3 DEF Begun
<1>5. ASSUME NEW k \in Job, status'[k] = "queued" PROVE \E i \in 1..Len(queue') : queue'[i] = k
  <2>1. k # h
    BY <1>3, <1>5
  <2>2. PICK i \in 1..Len(queue) : queue[i] = k
    BY <1>3, <1>5, <2>1 DEF InLine
  <2>3. i # 1
    BY <1>2, <2>1, <2>2
  <2>4. i - 1 \in 1..Len(queue') /\ (i - 1) + 1 = i
    BY <1>2, <2>3
  <2>5. QED BY <1>2, <2>2, <2>4
<1>6. ASSUME NEW k \in Job, status'[k] = "pending" PROVE \E e \in Entry : k = Smatch(e)
  BY <1>3, <1>6 DEF InLine
<1>7. ASSUME NEW e \in Entry, Begun(Smatch(e))' PROVE Begun(Trace(e))'
  <2>1. Begun(Smatch(e))
    BY <1>1, <1>3, <1>7 DEF Begun
  <2>2. QED BY <1>4, <2>1 DEF InLine
<1>8. ASSUME NEW e \in Entry, status'[Trace(e)] = "queued"
      PROVE  status'[Smatch(e)] \in {"none", "pending", "queued"}
  <2>1. Trace(e) # h /\ status[Trace(e)] = "queued"
    BY <1>3, <1>8
  <2>2. PICK k \in 1..Len(queue) : queue[k] = Trace(e)
    BY <2>1 DEF InLine
  <2>3. Smatch(e) # h
    <3>1. 1 \in 1..Len(queue) /\ k >= 1
      BY <1>2
    <3>2. queue[1] = Smatch(e) => k < 1
      BY <2>2, <3>1 DEF InLine
    <3>3. QED BY <1>2, <3>1, <3>2
  <2>4. QED BY <1>3, <2>1, <2>3 DEF InLine
<1>9. ASSUME NEW e \in Entry, NEW i \in 1..Len(queue'), NEW k \in 1..Len(queue'),
             queue'[i] = Smatch(e), queue'[k] = Trace(e)
      PROVE  k < i
  <2>1. queue[i + 1] = Smatch(e) /\ queue[k + 1] = Trace(e)
        /\ i + 1 \in 1..Len(queue) /\ k + 1 \in 1..Len(queue)
    BY <1>2, <1>9
  <2>2. k + 1 < i + 1
    BY <2>1 DEF InLine
  <2>3. QED BY <1>2, <2>2
<1>10. QED BY <1>4, <1>5, <1>6, <1>7, <1>8, <1>9 DEF InLine
(* What the steps of the pool and of the main thread are, by these ways.   *)
LEMMA Completes ==
  ASSUME InLine, NEW j \in Job, status[j] \in {"running", "launched"},
         NEW r \in {"launched", "ok", "failed"}, Complete(j, r)
  PROVE  Settles(j, r)
BY DEF Complete, Settles

LEMMA PoolWays ==
  ASSUME TypeOK, Queued, InLine, Pool
  PROVE  Untouched \/ Start \/ (\E j \in Job : Lines(j)) \/ (\E j \in Job : \E r : Settles(j, r))
<1> USE JobTypes, JobsDiffer
<1>1. CASE FinishTriage \/ FinishSmatcher
  BY <1>1, Completes DEF FinishTriage, FinishSmatcher, MayFail, Finished
<1>2. ASSUME NEW e \in Entry, JobStep(e)
      PROVE  Untouched \/ (\E j \in Job : Lines(j)) \/ (\E j \in Job : \E r : Settles(j, r))
  <2>1. CASE Release(e)
    <3>1. status[Smatch(e)] = "pending" /\ Begun(Trace(e)) /\ status[Trace(e)] # "queued"
      BY <2>1 DEF Release, Finished, Begun
    <3>2. CASE status[Trace(e)] = "ok"
      BY <2>1, <3>1, <3>2 DEF Release, Lines
    <3>3. CASE status[Trace(e)] # "ok"
      <4>1. status' = [status EXCEPT ![Smatch(e)] = "failed"] /\ queue' = queue
        BY <2>1, <3>3 DEF Release
      <4>2. Settles(Smatch(e), "failed")
        BY <3>1, <4>1 DEF Settles
      <4>3. QED BY <4>2
    <3>4. QED BY <3>2, <3>3
  <2>2. CASE FinishBuild(e)
    BY <2>2, Completes DEF FinishBuild, MayFail
  <2>3. CASE SkipFuzz(e)
    BY <2>3, Completes DEF SkipFuzz
  <2>4. CASE LaunchFuzz(e)
    BY <2>4, Completes DEF LaunchFuzz
  <2>5. CASE RefuseFuzz(e)
    BY <2>5, Completes DEF RefuseFuzz, Finished
  <2>6. CASE KaflWrites(e)
    BY <2>6 DEF KaflWrites, Untouched
  <2>7. CASE FinishFuzz(e)
    BY <2>7, Completes DEF FinishFuzz
  <2>8. CASE FinishTrace(e)
    BY <2>8, Completes DEF FinishTrace, MayFail
  <2>9. CASE FinishSmatch(e)
    BY <2>9, Completes DEF FinishSmatch, MayFail
  <2>10. QED
    BY <1>2, <2>1, <2>2, <2>3, <2>4, <2>5, <2>6, <2>7, <2>8, <2>9 DEF JobStep
<1>3. QED BY <1>1, <1>2 DEF Pool

(* What a submission submits is new, and a smatch job comes after its      *)
(* trace job.                                                              *)
LEMMA MainWays ==
  ASSUME Control, Accepted, Main
  PROVE  Untouched \/ (\E j \in Job : Lines(j)) \/ (\E j \in Job : \E r : Settles(j, r))
<1> USE JobTypes, JobsDiffer
<1>1. CASE SubmitBuild
  <2>1. idx \in Entry /\ ~ Begun(Build(idx)) /\ Submit(Build(idx))
    BY <1>1 DEF Control, Cursor, Unsubmitted, SubmitBuild, Entry
  <2>2. Lines(Build(idx))
    BY <2>1 DEF Lines, Begun
  <2>3. QED BY <2>1, <2>2
<1>2. CASE SubmitFuzz
  <2>1. left \in Entry /\ ~ Begun(Fuzz(left)) /\ Submit(Fuzz(left))
    BY <1>2, ConstantsAssumption DEF Control, TypeOK, Unsubmitted, SubmitFuzz, Entry, InFuzz
  <2>2. Lines(Fuzz(left))
    BY <2>1 DEF Lines, Begun
  <2>3. QED BY <2>1, <2>2
<1>3. CASE SubmitTrace
  <2>1. idx \in Entry /\ ~ Begun(Trace(idx)) /\ ~ Begun(Smatch(idx)) /\ Submit(Trace(idx))
    BY <1>3 DEF Control, Cursor, Unsubmitted, SubmitTrace, Entry
  <2>2. Lines(Trace(idx))
    BY <2>1 DEF Lines, Begun
  <2>3. QED BY <2>1, <2>2
<1>4. CASE SubmitSmatch
  <2>1. idx \in Entry /\ ~ Begun(Smatch(idx)) /\ Begun(Trace(idx))
    BY <1>4 DEF Control, Cursor, Unsubmitted, Accepted, SubmitSmatch, Entry
  <2>2. CASE Submit(Smatch(idx))
    <3>1. Lines(Smatch(idx))
      BY <2>1, <2>2 DEF Lines, Begun
    <3>2. QED BY <2>1, <3>1
  <2>3. CASE status' = [status EXCEPT ![Smatch(idx)] = "pending"] /\ UNCHANGED queue
    <3>1. Settles(Smatch(idx), "pending")
      BY <2>1, <2>3 DEF Settles, Begun
    <3>2. QED BY <2>1, <3>1
  <2>4. QED BY <1>4, <2>2, <2>3 DEF SubmitSmatch
<1>5. CASE SubmitTriage
  <2>1. ~ Begun(Triage) /\ Submit(Triage)
    BY <1>5 DEF Control, Unsubmitted, SubmitTriage, InTrace
  <2>2. Lines(Triage)
    BY <2>1 DEF Lines, Begun
  <2>3. QED BY <2>2
<1>6. CASE SubmitSmatcher
  <2>1. ~ Begun(Smatcher) /\ Submit(Smatcher)
    BY <1>6 DEF Control, Unsubmitted, SubmitSmatcher
  <2>2. Lines(Smatcher)
    BY <2>1 DEF Lines, Begun
  <2>3. QED BY <2>2
<1>7. CASE AwaitBuild \/ AwaitFuzz \/ AwaitTrace \/ AwaitSmatcher \/ EndFuzzSubmit
           \/ PollFuzz \/ EndPoll
  BY <1>7 DEF AwaitBuild, AwaitFuzz, AwaitTrace, AwaitSmatcher, Await, EndFuzzSubmit,
     PollFuzz, EndPoll, Untouched
<1>8. QED BY <1>1, <1>2, <1>3, <1>4, <1>5, <1>6, <1>7 DEF Main

LEMMA StepInLine ==
  ASSUME Control, InLine, Accepted, Main \/ Pool
  PROVE  InLine' /\ \A k \in Job : Begun(k) => Begun(k)'
<1>1. TypeOK /\ Queued
  BY DEF Control
<1>2. CASE Untouched
  BY <1>2 DEF Untouched, InLine, Begun
<1>3. QED
  BY <1>1, <1>2, PoolWays, MainWays, SettlesInLine, LinesInLine, StartInLine

(* Every statement of the main thread keeps account of what is submitted.  *)
LEMMA PoolKeepsAccepted ==
  ASSUME Control, InLine, Accepted, Pool PROVE Accepted'
<1>1. \A k \in Job : Begun(k) => Begun(k)'
  BY StepInLine
<1>2. UNCHANGED <<pc, idx, left, pipes>>
  BY PoolSteps DEF Control, PoolEffect, mainVars
<1>3. QED BY <1>1, <1>2, JobTypes DEF Accepted

LEMMA MainKeepsAccepted ==
  ASSUME Control, InLine, Accepted, Main PROVE Accepted'
<1> USE JobTypes
<1>1. \A k \in Job : Begun(k) => Begun(k)'
  BY StepInLine
<1>2. status \in [Job -> Status] /\ pc \in Location /\ left \in 0..N
  BY DEF Control, TypeOK
<1>3. ASSUME NEW j \in Job, Submit(j) PROVE status'[j] # "none"
  BY <1>2, <1>3 DEF Submit
<1>4. CASE pc' = "aborted"
  BY <1>4 DEF Accepted, InBuild, InFuzz
<1>5. CASE SubmitBuild
  <2>1. idx \in Entry /\ status'[Build(idx)] # "none" /\ UNCHANGED <<left, pipes>> /\ pc = "build_submit"
    BY <1>3, <1>5 DEF Control, Cursor, SubmitBuild
  <2>2. \/ idx < N /\ Goto("build_submit", idx + 1)
        \/ idx = N /\ Goto("build_wait", 1)
    BY <1>5, <2>1, ConstantsAssumption DEF SubmitBuild, Entry
  <2>3. \A e \in Entry : e <= idx => Begun(Build(e))'
    BY <1>1, <2>1 DEF Accepted, Entry, Begun
  <2>4. QED BY <2>1, <2>2, <2>3, ConstantsAssumption DEF Accepted, Goto, Entry, InBuild, InFuzz
<1>6. CASE AwaitBuild /\ pc' # "aborted"
  <2>1. /\ pc = "build_wait" /\ (Goto("build_wait", idx + 1) \/ Goto("fuzz_submit", 1))
        /\ UNCHANGED <<left, pipes>>
    BY <1>6 DEF AwaitBuild, Await, Goto
  <2>2. PipeId # {} /\ left = N /\ pipes = PipeId
    <3>1. 0 \in PipeId
      BY ConstantsAssumption DEF PipeId
    <3>2. QED BY <2>1, <3>1 DEF Accepted, InBuild
  <2>3. \A e \in Entry : ~ (e > left')
    BY <2>1, <2>2, ConstantsAssumption DEF Entry
  <2>4. CASE Goto("build_wait", idx + 1)
    BY <1>1, <2>1, <2>2, <2>4 DEF Accepted, Goto, InBuild, InFuzz
  <2>5. CASE Goto("fuzz_submit", 1)
    BY <2>1, <2>2, <2>3, <2>5 DEF Accepted, Goto, InBuild, InFuzz
  <2>6. QED BY <2>1, <2>4, <2>5
<1>7. CASE SubmitFuzz
  <2>1. /\ left \in Entry /\ status'[Fuzz(left)] # "none" /\ left' = left - 1 /\ pc = "fuzz_submit"
        /\ Goto("fuzz_poll", 1) \/ (pipes' # {} /\ Goto("fuzz_submit", 1))
    BY <1>2, <1>3, <1>7 DEF SubmitFuzz, Entry
  <2>2. \A e \in Entry : e > left' => Begun(Fuzz(e))'
    BY <1>1, <2>1 DEF Accepted, Entry, InFuzz, Begun
  <2>3. left' < N
    BY <2>1, ConstantsAssumption DEF Entry
  <2>4. QED BY <2>1, <2>2, <2>3 DEF Accepted, Goto, InBuild, InFuzz
<1>8. CASE EndFuzzSubmit \/ EndPoll \/ (PollFuzz /\ pc' # "aborted")
  <2>1. /\ pc \in InFuzz /\ left' = left
        /\ \/ pc' = "fuzz_wait" /\ left = 0
           \/ pc' = "fuzz_poll" /\ pc = "fuzz_poll"
           \/ pc' = "fuzz_submit" /\ pipes' # {}
    BY <1>8 DEF EndFuzzSubmit, PollFuzz, EndPoll, Goto, InFuzz
  <2>2. QED BY <1>1, <2>1 DEF Accepted, InBuild, InFuzz
<1>9. CASE AwaitFuzz /\ pc' # "aborted"
  <2>1. /\ pc = "fuzz_wait" /\ (Goto("fuzz_wait", idx + 1) \/ Goto("trace_submit", 1))
        /\ UNCHANGED left
    BY <1>9 DEF AwaitFuzz, Await, Goto
  <2>2. QED BY <1>1, <2>1 DEF Accepted, Goto, InBuild, InFuzz, Entry
<1>10. CASE SubmitTrace
  <2>1. idx \in Entry /\ status'[Trace(idx)] # "none" /\ pc = "trace_submit" /\ Goto("smatch_submit", idx)
    BY <1>3, <1>10 DEF Control, Cursor, SubmitTrace
  <2>2. \A e \in Entry : (e <= idx => Begun(Trace(e))') /\ (e < idx => Begun(Smatch(e))')
    BY <1>1, <2>1 DEF Accepted, Entry, Begun
  <2>3. QED BY <2>1, <2>2 DEF Accepted, Goto, InBuild, InFuzz
<1>11. CASE SubmitSmatch
  <2>1. idx \in Entry /\ status'[Smatch(idx)] # "none" /\ pc = "smatch_submit"
    <3>1. idx \in Entry
      BY <1>11 DEF Control, Cursor, SubmitSmatch
    <3>2. CASE Submit(Smatch(idx))
      BY <1>3, <1>11, <3>1, <3>2 DEF SubmitSmatch
    <3>3. CASE status' = [status EXCEPT ![Smatch(idx)] = "pending"]
      BY <1>2, <1>11, <3>1, <3>3 DEF SubmitSmatch
    <3>4. QED BY <1>11, <3>2, <3>3 DEF SubmitSmatch
  <2>2. \A e \in Entry : e <= idx => Begun(Trace(e))' /\ Begun(Smatch(e))'
    BY <1>1, <2>1 DEF Accepted, Entry, Begun
  <2>3. \/ idx < N /\ Goto("trace_submit", idx + 1)
        \/ idx = N /\ Goto("triage_submit", 1)
    BY <1>11, <2>1, ConstantsAssumption DEF SubmitSmatch, Entry
  <2>4. QED BY <2>1, <2>2, <2>3, ConstantsAssumption DEF Accepted, Goto, Entry, InBuild, InFuzz
<1>12. CASE SubmitTriage
  <2>1. Begun(Triage)' /\ pc = "triage_submit" /\ Goto("trace_wait", 1)
    BY <1>3, <1>12 DEF SubmitTriage, Begun
  <2>2. QED BY <1>1, <2>1 DEF Accepted, Goto, InBuild, InFuzz
<1>13. CASE AwaitTrace /\ pc' # "aborted"
  <2>1. pc = "trace_wait" /\ (Goto("trace_wait", idx + 1) \/ Goto("smatcher_submit", 1))
    BY <1>13 DEF AwaitTrace, Await, Goto
  <2>2. QED BY <1>1, <2>1 DEF Accepted, Goto, InBuild, InFuzz
<1>14. CASE SubmitSmatcher
  <2>1. Begun(Smatcher)' /\ Goto("smatcher_wait", 1)
    BY <1>3, <1>14 DEF SubmitSmatcher, Begun
  <2>2. QED BY <2>1 DEF Accepted, Goto, InBuild, InFuzz
<1>15. CASE AwaitSmatcher /\ pc' # "aborted"
  BY <1>15 DEF AwaitSmatcher, Await, Goto, Accepted, InBuild, InFuzz
<1>16. QED
  BY <1>4, <1>5, <1>6, <1>7, <1>8, <1>9, <1>10, <1>11, <1>12, <1>13, <1>14, <1>15 DEF Main
LEMMA InLineInvariant == Spec => [](InLine /\ Accepted)
<1>1. ASSUME \A j \in Job : status[j] = "none", queue = <<>> PROVE InLine
  BY <1>1, JobTypes DEF InLine, Begun
<1>2. ASSUME \A j \in Job : status'[j] = "none", queue' = <<>> PROVE InLine'
  BY <1>2, JobTypes DEF InLine, Begun
<1>3. Init => InLine /\ Accepted
  BY <1>1, ConstantsAssumption DEF Init, NoJobs, Accepted, InBuild, InFuzz, Entry
<1>4. Control /\ InLine /\ Accepted /\ [Next]_vars => InLine' /\ Accepted'
  <2> SUFFICES ASSUME Control, InLine, Accepted, [Next]_vars PROVE InLine' /\ Accepted'
    OBVIOUS
  <2>1. CASE Main
    BY <2>1, StepInLine, MainKeepsAccepted
  <2>2. CASE Pool
    BY <2>2, StepInLine, PoolKeepsAccepted
  <2>3. CASE Restart
    BY <1>2, <2>3, ConstantsAssumption
       DEF Restart, NoJobs, Goto, Accepted, InBuild, InFuzz, Entry
  <2>4. CASE Terminated \/ UNCHANGED vars
    BY <2>4 DEF Terminated, vars, InLine, Accepted, Begun
  <2>5. QED BY <2>1, <2>2, <2>3, <2>4 DEF Next
<1>5. QED BY <1>3, <1>4, ControlInvariant, PTL DEF Spec

(* Nobody waits for somebody who waits, for every number of workdirs and   *)
(* pipes, one pipe included, whatever fails, and in both ways the pool may *)
(* treat jobs that wait for futures: a smatch job has a thread only if its *)
(* trace job had one before, and the main thread waits only for what it    *)
(* has submitted.                                                          *)
THEOREM NobodyStuck == Spec => []NoDeadlock
<1> USE JobTypes, JobsDiffer
<1>1. Control /\ InLine /\ Accepted => NoDeadlock
  <2> SUFFICES ASSUME Control, InLine, Accepted PROVE NoDeadlock
    OBVIOUS
  <2>1. /\ status \in [Job -> Status] /\ queue \in Seq(Job)
        /\ left \in 0..N /\ idx \in 1..(2*N + 1)
    BY DEF Control, TypeOK
  <2>2. ASSUME NEW j \in Job, Begun(j), status[j] \notin Finished PROVE Unsettled # {}
    BY <2>2 DEF Unsettled, Begun
  <2>3. ASSUME MainWaits PROVE Unsettled # {}
    <3>1. CASE pc = "build_wait" /\ status[Build(idx)] \notin Finished
      BY <2>2, <3>1 DEF Control, Cursor, Accepted
    <3>2. CASE pc = "fuzz_submit" /\ left > 0 /\ pipes = {}
      BY <3>2 DEF Accepted
    <3>3. CASE pc = "fuzz_poll" /\ \A i \in 1..(N - left) : status[FuzzTask(i)] \notin Finished
      <4>1. 1 \in 1..(N - left) /\ N \in Entry /\ N > left
        BY <2>1, <3>3, ConstantsAssumption DEF Accepted, Entry
      <4>2. FuzzTask(1) = Fuzz(N)
        BY ConstantsAssumption DEF FuzzTask
      <4>3. Begun(Fuzz(N)) /\ status[Fuzz(N)] \notin Finished
        BY <3>3, <4>1, <4>2 DEF Accepted, InFuzz
      <4>4. QED BY <2>2, <4>1, <4>3
    <3>4. CASE pc = "fuzz_wait" /\ status[FuzzTask(idx)] \notin Finished
      <4>1. idx \in Entry /\ N + 1 - idx \in Entry /\ left = 0
        BY <3>4, TasksAreJobs DEF Control, Cursor, Accepted
      <4>2. N + 1 - idx > left
        BY <4>1 DEF Entry
      <4>3. Begun(FuzzTask(idx)) /\ FuzzTask(idx) \in Job
        BY <3>4, <4>1, <4>2 DEF Accepted, InFuzz, FuzzTask
      <4>4. QED BY <2>2, <3>4, <4>3
    <3>5. CASE pc = "trace_wait" /\ status[TraceTask(idx)] \notin Finished
      <4>1. \A e \in Entry : Begun(Trace(e)) /\ Begun(Smatch(e))
        BY <3>5 DEF Accepted
      <4>2. Begun(TraceTask(idx))
        <5>1. CASE idx = 2*N + 1
          BY <3>5, <5>1 DEF TraceTask, Accepted
        <5>2. CASE idx # 2*N + 1 /\ idx % 2 = 1
          <6>1. (idx + 1) \div 2 \in Entry
            BY <2>1, <5>2, ConstantsAssumption DEF Entry
          <6>2. QED BY <4>1, <5>2, <6>1 DEF TraceTask
        <5>3. CASE idx # 2*N + 1 /\ idx % 2 # 1
          <6>1. idx \div 2 \in Entry
            BY <2>1, <5>3, ConstantsAssumption DEF Entry
          <6>2. QED BY <4>1, <5>3, <6>1 DEF TraceTask
        <5>4. QED BY <5>1, <5>2, <5>3
      <4>3. TraceTask(idx) \in Job
        BY <2>1, TasksAreJobs
      <4>4. QED BY <2>2, <3>5, <4>2, <4>3
    <3>6. CASE pc = "smatcher_wait" /\ status[Smatcher] \notin Finished
      BY <2>2, <3>6 DEF Accepted
    <3>7. QED BY <2>3, <3>1, <3>2, <3>3, <3>4, <3>5, <3>6 DEF MainWaits
  <2>4. ASSUME NEW j \in Unsettled PROVE PoolMoves
    <3>1. j \in Job /\ status[j] \in {"pending", "queued", "running", "launched"}
      BY <2>1, <2>4 DEF Unsettled, Status, Finished
    <3>2. CASE Running # {}
      <4>1. PICK k \in Job : status[k] \in {"running", "launched"}
        BY <3>2 DEF Running
      <4>2. CASE ~ WaitsInside(k)
        BY <4>1, <4>2 DEF PoolMoves, Running
      <4>3. CASE WaitsInside(k)
        <5>1. PICK e \in Entry : k = Smatch(e) /\ status[Trace(e)] \notin Finished
          BY <4>3 DEF WaitsInside
        <5>2. Begun(Trace(e)) /\ status[Trace(e)] # "queued"
          BY <4>1, <5>1 DEF InLine, Begun
        <5>3. status[Trace(e)] # "pending"
          BY DEF InLine
        <5>4. status[Trace(e)] \in Status
          BY <2>1
        <5>5. Trace(e) \in Running
          BY <5>1, <5>2, <5>3, <5>4 DEF Status, Finished, Begun, Running
        <5>6. ~ WaitsInside(Trace(e))
          BY DEF WaitsInside
        <5>7. QED BY <5>5, <5>6 DEF PoolMoves
      <4>4. QED BY <4>2, <4>3
    <3>3. CASE Running = {} /\ queue # <<>>
      <4>1. Cardinality(Running) = 0
        BY <3>3, FS_EmptySet
      <4>2. QED BY <3>3, <4>1, ConstantsAssumption DEF PoolMoves
    <3>4. CASE Running = {} /\ queue = <<>>
      <4>1. \A k \in Job : status[k] \notin {"queued", "running", "launched"}
        BY <3>4 DEF InLine, Running
      <4>2. PICK e \in Entry : j = Smatch(e)
        BY <3>1, <4>1 DEF InLine
      <4>3. status[Smatch(e)] = "pending" /\ Begun(Trace(e))
        BY <3>1, <4>1, <4>2 DEF InLine, Begun
      <4>4. status[Trace(e)] # "pending" /\ status[Trace(e)] \in Status
        BY <2>1 DEF InLine
      <4>5. status[Trace(e)] \in Finished
        BY <4>1, <4>3, <4>4 DEF Status, Finished, Begun
      <4>6. QED BY <4>3, <4>5 DEF PoolMoves
    <3>5. QED BY <3>2, <3>3, <3>4
  <2>5. QED BY <2>3, <2>4 DEF NoDeadlock
<1>2. QED BY <1>1, ControlInvariant, InLineInvariant, PTL
=============================================================================
