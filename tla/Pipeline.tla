------------------------------ MODULE Pipeline ------------------------------
(***************************************************************************)
(* The campaign pipeline of bkc/kafl/pipeline.py: run_campaign() executed  *)
(* by the main thread, the jobs it submits to a thread pool, and the       *)
(* workdirs those jobs leave on disk, which survive a crash of the         *)
(* pipeline and decide what a resumed campaign does.                       *)
(*                                                                         *)
(* A pipeline entry e is a workdir of some harness.  The main thread is a  *)
(* program counter over the statements of run_campaign; a job is one       *)
(* @python_app call.  The pool is parsl's ThreadPoolExecutor: at most      *)
(* Pipes jobs run at a time and jobs start in the order of submission.     *)
(***************************************************************************)
EXTENDS Naturals, Sequences, FiniteSets

CONSTANTS
  N,          (* number of pipeline entries                                *)
  Pipes,      (* args.pipes: CPU sets, and threads of the pool             *)
  Faults,     (* may the programs that a job executes fail by themselves?  *)
  ParslWaits, (* TRUE: the pool starts a job only when the futures among   *)
              (* its arguments are complete; FALSE: the job itself waits   *)
  MaxRuns     (* bound: how often the pipeline is started                  *)

ASSUME ConstantsAssumption ==
  /\ N \in Nat \ {0}
  /\ Pipes \in Nat \ {0}
  /\ Faults \in BOOLEAN
  /\ ParslWaits \in BOOLEAN
  /\ MaxRuns \in Nat \ {0}

VARIABLES
  pc,      (* where the main thread is in run_campaign                     *)
  idx,     (* its position in the loop it executes                         *)
  left,    (* fuzz_queue holds the entries 1..left                         *)
  pipes,   (* the set of pipe ids the main thread believes to be free      *)
  pipeOf,  (* pipe id of the fuzz job of an entry                          *)
  status,  (* state of every job, i.e. of its future                       *)
  queue,   (* jobs the pool has accepted and not started                   *)
  out,     (* what an entry's workdir holds on disk                        *)
  runs     (* how often the pipeline was started                           *)

mainVars == <<pc, idx, left, pipes, pipeOf>>
vars == <<pc, idx, left, pipes, pipeOf, status, queue, out, runs>>
-----------------------------------------------------------------------------
Entry  == 1..N
PipeId == 0..(Pipes - 1)

Build(e)  == <<"build", e>>
Fuzz(e)   == <<"fuzz", e>>
Trace(e)  == <<"trace", e>>
Smatch(e) == <<"smatch", e>>
Triage    == <<"triage", 0>>
Smatcher  == <<"smatcher", 0>>
Job == ({"build", "fuzz", "trace", "smatch"} \X Entry) \cup {Triage, Smatcher}

(* "pending": accepted by the pool but held back until a future among its  *)
(* arguments completes.  "launched": a fuzz job whose fuzz.sh has set up   *)
(* the workdir and executes kAFL.                                          *)
Status   == {"none", "pending", "queued", "running", "launched", "ok", "failed"}
Finished == {"ok", "failed"}

(* What a workdir holds: target/ as copied by fuzz.sh, kAFL's corpus/, the *)
(* files stats and worker_stats_0, traces/, and one of LINECOV_FILES.      *)
Artefact == {"target", "corpus", "stats", "traces", "cov"}

Location == {"build_submit", "build_wait", "fuzz_submit", "fuzz_poll",
             "fuzz_wait", "trace_submit", "smatch_submit", "triage_submit",
             "trace_wait", "smatcher_submit", "smatcher_wait", "done",
             "aborted"}

Running == {j \in Job : status[j] \in {"running", "launched"}}

(* The i-th element of fuzz_tasks: fuzz_queue.pop() takes the last entry.  *)
FuzzTask(i) == Fuzz(N + 1 - i)

(* The i-th element of trace_tasks.                                        *)
TraceTask(i) ==
  IF i = 2*N + 1 THEN Triage
  ELSE IF i % 2 = 1 THEN Trace((i + 1) \div 2) ELSE Smatch(i \div 2)
-----------------------------------------------------------------------------
NoJobs == [j \in Job |-> "none"]
NoPipe == [e \in Entry |-> 0]

Init ==
  /\ pc = "build_submit" /\ idx = 1 /\ left = N
  /\ pipes = PipeId /\ pipeOf = NoPipe
  /\ status = NoJobs /\ queue = <<>>
  /\ out = [e \in Entry |-> {}]
  /\ runs = 1
-----------------------------------------------------------------------------
(* The main thread.                                                        *)

Goto(location, i) == pc' = location /\ idx' = i

(* An app call: the pool accepts the job, its future is returned.          *)
Submit(j) ==
  /\ status' = [status EXCEPT ![j] = "queued"]
  /\ queue' = Append(queue, j)

(* Mutant: the exception of a failed job is swallowed.                     *)
AwaitIgnoringErrors(j, location, i) ==
  status[j] \in Finished /\ Goto(location, i)
  /\ UNCHANGED <<left, pipes, pipeOf, status, queue, out, runs>>

(* t.result(): blocks until the future completes, raises if it failed.     *)
Await(j, location, i) ==
  /\ status[j] \in Finished
  /\ IF status[j] = "ok" THEN Goto(location, i) ELSE Goto("aborted", 1)
  /\ UNCHANGED <<left, pipes, pipeOf, status, queue, out, runs>>

SubmitBuild ==
  /\ pc = "build_submit"
  /\ Submit(Build(idx))
  /\ IF idx < N THEN Goto("build_submit", idx + 1) ELSE Goto("build_wait", 1)
  /\ UNCHANGED <<left, pipes, pipeOf, out, runs>>

AwaitBuild ==
  /\ pc = "build_wait"
  /\ IF idx < N THEN Await(Build(idx), "build_wait", idx + 1)
     ELSE Await(Build(idx), "fuzz_submit", 1)

(* while fuzz_queue and pipes: pop an entry and a pipe, start the job; the *)
(* inner loop is entered when no pipe is left.                             *)
SubmitFuzz ==
  /\ pc = "fuzz_submit"
  /\ left > 0
  /\ \E p \in pipes :
       /\ pipes' = pipes \ {p}
       /\ pipeOf' = [pipeOf EXCEPT ![left] = p]
  /\ Submit(Fuzz(left))
  /\ left' = left - 1
  /\ Goto(IF pipes' = {} THEN "fuzz_poll" ELSE "fuzz_submit", 1)
  /\ UNCHANGED <<out, runs>>

EndFuzzSubmit ==
  /\ pc = "fuzz_submit"
  /\ left = 0
  /\ Goto("fuzz_wait", 1)
  /\ UNCHANGED <<left, pipes, pipeOf, status, queue, out, runs>>

(* Mutant: pipes are freed without looking whether the job is done.        *)
PollFuzzUnchecked ==
  /\ pc = "fuzz_poll" /\ idx <= N - left
  /\ pipes' = pipes \cup {pipeOf[N + 1 - idx]} /\ Goto("fuzz_poll", idx + 1)
  /\ UNCHANGED <<left, pipeOf, status, queue, out, runs>>

(* The entries whose jobs are in fuzz_tasks number N - left.  One step of  *)
(* "for t in fuzz_tasks: if t.done(): pipes.add(t.result())".              *)
PollFuzz ==
  /\ pc = "fuzz_poll"
  /\ idx <= N - left
  /\ CASE status[FuzzTask(idx)] = "ok" ->
            /\ pipes' = pipes \cup {pipeOf[N + 1 - idx]}
            /\ Goto("fuzz_poll", idx + 1)
       [] status[FuzzTask(idx)] = "failed" ->
            Goto("aborted", 1) /\ UNCHANGED pipes
       [] OTHER ->
            Goto("fuzz_poll", idx + 1) /\ UNCHANGED pipes
  /\ UNCHANGED <<left, pipeOf, status, queue, out, runs>>

(* Mutant: the next sweep goes on behind the last task.                    *)
EndPollExhausted ==
  /\ pc = "fuzz_poll" /\ idx > N - left
  /\ IF pipes = {} THEN Goto("fuzz_poll", idx) ELSE Goto("fuzz_submit", 1)
  /\ UNCHANGED <<left, pipes, pipeOf, status, queue, out, runs>>

(* The end of one sweep: "while not pipes" sleeps and sweeps again, or the *)
(* outer loop continues.                                                   *)
EndPoll ==
  /\ pc = "fuzz_poll"
  /\ idx > N - left
  /\ Goto(IF pipes = {} THEN "fuzz_poll" ELSE "fuzz_submit", 1)
  /\ UNCHANGED <<left, pipes, pipeOf, status, queue, out, runs>>

(* Mutant: only the last fuzz job is waited for.                           *)
AwaitLastFuzz == pc = "fuzz_wait" /\ Await(FuzzTask(N), "trace_submit", 1)

AwaitFuzz ==
  /\ pc = "fuzz_wait"
  /\ IF idx < N THEN Await(FuzzTask(idx), "fuzz_wait", idx + 1)
     ELSE Await(FuzzTask(idx), "trace_submit", 1)

SubmitTrace ==
  /\ pc = "trace_submit"
  /\ Submit(Trace(idx))
  /\ Goto("smatch_submit", idx)
  /\ UNCHANGED <<left, pipes, pipeOf, out, runs>>

(* task_smatch(..., wait_task=t): t is the future of the trace job.        *)
SubmitSmatch ==
  /\ pc = "smatch_submit"
  /\ IF ParslWaits
     THEN /\ status' = [status EXCEPT ![Smatch(idx)] = "pending"]
          /\ UNCHANGED queue
     ELSE Submit(Smatch(idx))
  /\ IF idx < N THEN Goto("trace_submit", idx + 1) ELSE Goto("triage_submit", 1)
  /\ UNCHANGED <<left, pipes, pipeOf, out, runs>>

SubmitTriage ==
  /\ pc = "triage_submit"
  /\ Submit(Triage)
  /\ Goto("trace_wait", 1)
  /\ UNCHANGED <<left, pipes, pipeOf, out, runs>>

(* Mutant: one task too many is waited for.                                *)
AwaitTraceTooFar ==
  /\ pc = "trace_wait"
  /\ IF idx <= 2*N + 1 THEN Await(TraceTask(idx), "trace_wait", idx + 1)
     ELSE Await(TraceTask(idx), "smatcher_submit", 1)

AwaitTrace ==
  /\ pc = "trace_wait"
  /\ IF idx < 2*N + 1 THEN Await(TraceTask(idx), "trace_wait", idx + 1)
     ELSE Await(TraceTask(idx), "smatcher_submit", 1)

SubmitSmatcher ==
  /\ pc = "smatcher_submit"
  /\ Submit(Smatcher)
  /\ Goto("smatcher_wait", 1)
  /\ UNCHANGED <<left, pipes, pipeOf, out, runs>>

AwaitSmatcher == pc = "smatcher_wait" /\ Await(Smatcher, "done", 1)

Main ==
  \/ SubmitBuild \/ AwaitBuild
  \/ SubmitFuzz \/ EndFuzzSubmit \/ PollFuzz \/ EndPoll \/ AwaitFuzz
  \/ SubmitTrace \/ SubmitSmatch \/ SubmitTriage \/ AwaitTrace
  \/ SubmitSmatcher \/ AwaitSmatcher
-----------------------------------------------------------------------------
(* The pool and its jobs.  fuzz.sh leaves through fatal() with status 0,   *)
(* so a job can be "ok" although nothing was produced.                     *)

(* Mutant: an idle thread takes the newest accepted job.                   *)
StartNewest ==
  /\ queue # <<>> /\ Cardinality(Running) < Pipes
  /\ status' = [status EXCEPT ![queue[Len(queue)]] = "running"]
  /\ queue' = SubSeq(queue, 1, Len(queue) - 1)
  /\ UNCHANGED <<mainVars, out, runs>>

(* An idle thread takes the oldest accepted job.                           *)
Start ==
  /\ queue # <<>>
  /\ Cardinality(Running) < Pipes
  /\ status' = [status EXCEPT ![Head(queue)] = "running"]
  /\ queue' = Tail(queue)
  /\ UNCHANGED <<mainVars, out, runs>>

(* The trace future completes: the held-back job is accepted, or fails.    *)
Release(e) ==
  /\ status[Smatch(e)] = "pending"
  /\ status[Trace(e)] \in Finished
  /\ IF status[Trace(e)] = "ok" THEN Submit(Smatch(e))
     ELSE status' = [status EXCEPT ![Smatch(e)] = "failed"] /\ UNCHANGED queue
  /\ UNCHANGED <<mainVars, out, runs>>

Complete(j, result) ==
  /\ status' = [status EXCEPT ![j] = result]
  /\ UNCHANGED <<mainVars, queue, runs>>

(* Whether a job ends by itself with an error is up to the environment.    *)
MayFail == IF Faults THEN {"ok", "failed"} ELSE {"ok"}

FinishBuild(e) ==
  /\ status[Build(e)] = "running"
  /\ \E r \in MayFail : Complete(Build(e), r)
  /\ UNCHANGED out

(* Mutant: a workdir counts as fuzzed only once its traces exist.          *)
FuzzedAndTraced(e) == {"stats", "traces"} \subseteq out[e]

(* (work_dir/'stats').exists() and (work_dir/'worker_stats_0').exists()    *)
Fuzzed(e) == "stats" \in out[e]

SkipFuzz(e) ==
  /\ status[Fuzz(e)] = "running"
  /\ Fuzzed(e)
  /\ Complete(Fuzz(e), "ok")
  /\ UNCHANGED out

(* A target/ that fuzz.sh run keeps: it deletes only workdirs with a       *)
(* corpus/.  Its mkdir target/TDVF fails on it.                            *)
Leftover(e) == "target" \in out[e] /\ "corpus" \notin out[e]

(* fuzz.sh run: delete the workdir, record the target in it, execute kAFL. *)
LaunchFuzz(e) ==
  /\ status[Fuzz(e)] = "running"
  /\ ~ Fuzzed(e)
  /\ IF Leftover(e)
     THEN Complete(Fuzz(e), "failed") /\ UNCHANGED out
     ELSE /\ Complete(Fuzz(e), "launched")
          /\ out' = [out EXCEPT ![e] = {"target"}]

(* set_workdir or mkdir -p calls fatal(), or a command fails under set -e, *)
(* before or after the workdir was deleted.                                *)
RefuseFuzz(e) ==
  /\ Faults
  /\ status[Fuzz(e)] = "running"
  /\ ~ Fuzzed(e)
  /\ \/ (\E r \in Finished : Complete(Fuzz(e), r)) /\ UNCHANGED out
     \/ /\ ~ Leftover(e)
        /\ \E r \in Finished, remains \in {{}, {"target"}} :
             /\ r = "ok" => remains = {}
             /\ Complete(Fuzz(e), r)
             /\ out' = [out EXCEPT ![e] = remains]

(* kAFL creates its corpus and then the status files of master and worker. *)
KaflWrites(e) ==
  /\ status[Fuzz(e)] = "launched"
  /\ \E a \in {"corpus", "stats"} \ out[e] :
       /\ a = "stats" => "corpus" \in out[e]
       /\ out' = [out EXCEPT ![e] = @ \cup {a}]
  /\ UNCHANGED <<mainVars, status, queue, runs>>

FinishFuzz(e) ==
  /\ status[Fuzz(e)] = "launched"
  /\ \/ "stats" \in out[e] /\ Complete(Fuzz(e), "ok")
     \/ Faults /\ Complete(Fuzz(e), "failed")
  /\ UNCHANGED out

(* fuzz.sh cov: fatal() without a target/, an error without a corpus/.     *)
FinishTrace(e) ==
  /\ status[Trace(e)] = "running"
  /\ \/ /\ "target" \notin out[e] \/ Faults
        /\ Complete(Trace(e), "ok") /\ UNCHANGED out
     \/ /\ Leftover(e) \/ Faults
        /\ Complete(Trace(e), "failed") /\ UNCHANGED out
     \/ /\ {"target", "corpus"} \subseteq out[e]
        /\ \E r \in MayFail : Complete(Trace(e), r)
        /\ out' = [out EXCEPT ![e] = @ \cup {"traces"}]

(* task_smatch: wait_task.result() raises if the trace job failed; fuzz.sh *)
(* smatch: fatal() without a target/, an error without traces/.  The shell *)
(* creates the coverage file before the matcher can fail.                  *)
FinishSmatch(e) ==
  /\ status[Smatch(e)] = "running"
  /\ status[Trace(e)] \in Finished
  /\ \/ /\ status[Trace(e)] = "failed" \/ Faults
           \/ ("target" \in out[e] /\ "traces" \notin out[e])
        /\ Complete(Smatch(e), "failed") /\ UNCHANGED out
     \/ /\ status[Trace(e)] = "ok"
        /\ "target" \notin out[e] \/ Faults
        /\ Complete(Smatch(e), "ok") /\ UNCHANGED out
     \/ /\ status[Trace(e)] = "ok"
        /\ {"target", "traces"} \subseteq out[e]
        /\ \E r \in MayFail : Complete(Smatch(e), r)
        /\ out' = [out EXCEPT ![e] = @ \cup {"cov"}]

FinishTriage ==
  /\ status[Triage] = "running"
  /\ \E r \in MayFail : Complete(Triage, r)
  /\ UNCHANGED out

(* Mutant: smatcher is content with one workdir that has coverage.         *)
SmatcherAcceptsAny == \E e \in Entry : "cov" \in out[e]

(* smatcher exits with 1 for a workdir that has none of LINECOV_FILES.     *)
SmatcherAccepts == \A e \in Entry : "cov" \in out[e]

FinishSmatcher ==
  /\ status[Smatcher] = "running"
  /\ \E r \in Finished :
       /\ r = "ok" => SmatcherAccepts
       /\ r = "failed" => Faults \/ ~ SmatcherAccepts
       /\ Complete(Smatcher, r)
  /\ UNCHANGED out

JobStep(e) ==
  \/ Release(e) \/ FinishBuild(e)
  \/ SkipFuzz(e) \/ LaunchFuzz(e) \/ RefuseFuzz(e) \/ KaflWrites(e) \/ FinishFuzz(e)
  \/ FinishTrace(e) \/ FinishSmatch(e)

Pool == Start \/ (\E e \in Entry : JobStep(e)) \/ FinishTriage \/ FinishSmatcher
-----------------------------------------------------------------------------
(* The pipeline process dies with its jobs, or has ended, and is started   *)
(* again on the same campaign directory.  Only the workdirs remain, and    *)
(* run_campaign makes every one of them an entry again.                    *)
Restart ==
  /\ runs < MaxRuns
  /\ runs' = runs + 1
  /\ Goto("build_submit", 1) /\ left' = N
  /\ pipes' = PipeId /\ pipeOf' = NoPipe
  /\ status' = NoJobs /\ queue' = <<>>
  /\ UNCHANGED out

(* Nothing left to do: the main thread has ended and the pool is drained.  *)
Terminated ==
  /\ pc \in {"done", "aborted"}
  /\ \A j \in Job : status[j] \in Finished \cup {"none"}
  /\ UNCHANGED vars

Next == Main \/ Pool \/ Restart \/ Terminated

(* The OS runs the main thread and every pool thread; a job's programs end *)
(* (kAFL because its configuration limits the time it fuzzes).             *)
Fairness ==
  /\ WF_vars(Main)
  /\ WF_vars(Start) /\ WF_vars(FinishTriage) /\ WF_vars(FinishSmatcher)
  /\ \A e \in Entry : WF_vars(JobStep(e))

Spec == Init /\ [][Next]_vars /\ Fairness
-----------------------------------------------------------------------------
(* Types of the state.                                                     *)
TypeOK ==
  /\ pc \in Location
  /\ idx \in 1..(2*N + 1)
  /\ left \in 0..N
  /\ pipes \subseteq PipeId
  /\ pipeOf \in [Entry -> PipeId]
  /\ status \in [Job -> Status]
  /\ queue \in Seq(Job)
  /\ out \in [Entry -> SUBSET Artefact]
  /\ runs \in 1..MaxRuns

Begun(j)  == status[j] # "none"
Ended(j)  == status[j] = "ok"

(* The stages of a campaign are separated by barriers, whatever fails and  *)
(* however long the pool still drains jobs after an abort: no fuzzer is    *)
(* submitted unless every harness was built, no trace or smatch job unless *)
(* every fuzzer ended well, a smatch job succeeds only after the trace job *)
(* of its workdir, and the final smatcher is submitted only when every     *)
(* trace, smatch and triage job succeeded (the waits of run_campaign).     *)
StageBarrier ==
  /\ \A e \in Entry : Begun(Fuzz(e)) => \A d \in Entry : Ended(Build(d))
  /\ \A e \in Entry : Begun(Trace(e)) \/ Begun(Smatch(e)) \/ Begun(Triage)
                        => \A d \in Entry : Ended(Fuzz(d))
  /\ \A e \in Entry : Ended(Smatch(e)) => Ended(Trace(e))
  /\ Begun(Smatcher) =>
       Ended(Triage) /\ \A e \in Entry : Ended(Trace(e)) /\ Ended(Smatch(e))

(* The main thread blocks in result(), or sweeps in vain over jobs none of *)
(* which is done, or has an entry left and no pipe to give it.             *)
MainWaits ==
  \/ pc = "build_wait" /\ status[Build(idx)] \notin Finished
  \/ pc = "fuzz_submit" /\ left > 0 /\ pipes = {}
  \/ /\ pc = "fuzz_poll" /\ pipes = {}
     /\ \A i \in 1..(N - left) : status[FuzzTask(i)] \notin Finished
  \/ pc = "fuzz_wait" /\ status[FuzzTask(idx)] \notin Finished
  \/ pc = "trace_wait" /\ status[TraceTask(idx)] \notin Finished
  \/ pc = "smatcher_wait" /\ status[Smatcher] \notin Finished

(* The pool can start a job or accept one it held back, or a thread has a  *)
(* job that is not waiting for another one's future.                       *)
WaitsInside(j) == \E e \in Entry : j = Smatch(e) /\ status[Trace(e)] \notin Finished
PoolMoves ==
  \/ queue # <<>> /\ Cardinality(Running) < Pipes
  \/ \E e \in Entry : status[Smatch(e)] = "pending" /\ status[Trace(e)] \in Finished
  \/ \E j \in Running : ~ WaitsInside(j)

Unsettled == {j \in Job : status[j] \notin Finished \cup {"none"}}

(* Nobody waits for somebody who waits: the main thread waits only while   *)
(* jobs are unsettled, and as long as any job is, also after an abort, the *)
(* pool gets on, although jobs wait for futures on the few threads that    *)
(* the jobs they wait for need as well (wait_task.result()).               *)
NoDeadlock ==
  /\ MainWaits => Unsettled # {}
  /\ Unsettled # {} => PoolMoves

(* A campaign that ends without an error has fuzz output, traces and a     *)
(* coverage file in every workdir, although fuzz.sh hides errors from the  *)
(* pipeline (fatal() exits with 0) and although a job may have been        *)
(* skipped because of what an earlier, aborted run left behind.            *)
DoneMeansCovered ==
  pc = "done" => \A e \in Entry : {"target", "corpus", "traces", "cov"} \subseteq out[e]

(* Two fuzzers never run on the same pipe, i.e. on the same CPUs: what the *)
(* comment "manage available cpu sets based on args.pipes" says of the     *)
(* scheduling loop.                                                        *)
PipesExclusive ==
  \A d, e \in Entry :
    d # e /\ {Fuzz(d), Fuzz(e)} \subseteq Running => pipeOf[d] # pipeOf[e]

(* Fuzz output is never lost: once a workdir holds kAFL's status files, no *)
(* step of this or a later run of the pipeline removes anything from it    *)
(* (fuzz.sh run deletes workdirs that have a corpus/).                     *)
FuzzOutputKept ==
  [][\A e \in Entry : "stats" \in out[e] => out[e] \subseteq out'[e]]_vars

(* The main thread always ends, with or without an error, and the pool     *)
(* settles every job it accepted: no job waits forever for a pool thread,  *)
(* a pipe or a future, also when jobs wait for futures inside the pool.    *)
Terminates ==
  <>[](/\ pc \in {"done", "aborted"}
       /\ \A j \in Job : status[j] \in Finished \cup {"none"})

(* When no program fails by itself, the campaign is completed, also by a   *)
(* resumed run: "It will also try to resume work if the campaign directory *)
(* already exists" (docs/workflow_overview.md).                            *)
NeverAborts == pc # "aborted"
=============================================================================
