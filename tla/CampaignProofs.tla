--------------------------- MODULE CampaignProofs ---------------------------
(***************************************************************************)
(* The pipeline implements the staged campaign, for every number of        *)
(* workdirs, pipes and restarts.                                           *)
(***************************************************************************)
EXTENDS CampaignRefinement, PipelineProofs

(* The mapped state when the main thread is in a given part, in a state    *)
(* and in the state that follows it.                                       *)
StageMap ==
  /\ pc \in InBuild => StageOf = "build" /\ FinishedIn(StageOf) = {e \in Entry : Ended(Build(e))}
  /\ pc \in InFuzz => StageOf = "fuzz" /\ FinishedIn(StageOf) = {e \in Entry : Ended(Fuzz(e))}
  /\ pc \in InTrace => StageOf = "trace" /\ FinishedIn(StageOf) = {e \in Entry : Ended(Smatch(e))}
  /\ pc \in {"smatcher_submit", "smatcher_wait"} => StageOf = "report" /\ FinishedIn(StageOf) = {}
  /\ pc \in {"done", "aborted"} => StageOf = pc /\ FinishedIn(StageOf) = {}

LEMMA StageFacts == StageMap /\ StageMap'
<1>1. StageMap
  BY DEF StageMap, StageOf, FinishedIn, InBuild, InFuzz, InTrace
<1>2. QED BY <1>1, PTL

LEMMA Parts ==
  TypeOK => pc \in InBuild \cup InFuzz \cup InTrace
                  \cup {"smatcher_submit", "smatcher_wait", "done", "aborted"}
BY DEF TypeOK, Location, InBuild, InFuzz, InTrace

(* Steps within a part that complete nothing are invisible.                *)
MappedSame ==
  StageOf' = StageOf /\ FinishedIn(StageOf)' = FinishedIn(StageOf) /\ runs' = runs

LEMMA SameWithin ==
  ASSUME TypeOK, runs' = runs, \A j \in Job : Ended(j)' <=> Ended(j),
         \/ pc \in InBuild /\ pc' \in InBuild
         \/ pc \in InFuzz /\ pc' \in InFuzz
         \/ pc \in InTrace /\ pc' \in InTrace
         \/ pc \in {"smatcher_submit", "smatcher_wait"} /\ pc' \in {"smatcher_submit", "smatcher_wait"}
         \/ pc \in {"done", "aborted"} /\ pc' = pc
  PROVE  MappedSame
<1>1. \A e \in Entry : /\ Ended(Build(e))' <=> Ended(Build(e))
                       /\ Ended(Fuzz(e))' <=> Ended(Fuzz(e))
                       /\ Ended(Smatch(e))' <=> Ended(Smatch(e))
  BY JobTypes
<1>2. QED BY <1>1, StageFacts DEF StageMap, MappedSame

(* A pool step lets at most one job succeed.                               *)
LEMMA OneAtATime ==
  ASSUME TypeOK, Queued, Pool
  PROVE  \A j, k \in Job : ~ Ended(j) /\ Ended(j)' /\ ~ Ended(k) /\ Ended(k)' => j = k
<1>1. \/ status' = status
      \/ \E j \in Job, r \in Status : status' = [status EXCEPT ![j] = r]
  <2> USE JobTypes DEF Status
  <2>1. CASE Start
    BY <2>1, QueueTaken DEF Start
  <2>2. CASE FinishTriage \/ FinishSmatcher
    BY <2>2 DEF FinishTriage, FinishSmatcher, MayFail, Finished, Complete
  <2>3. ASSUME NEW e \in Entry, JobStep(e)
        PROVE  \/ status' = status
               \/ \E j \in Job, r \in Status : status' = [status EXCEPT ![j] = r]
    <3>1. CASE Release(e)
      BY <3>1 DEF Release, Submit
    <3>2. CASE FinishBuild(e) \/ FinishTrace(e) \/ FinishSmatch(e)
      BY <3>2 DEF FinishBuild, FinishTrace, FinishSmatch, MayFail, Complete
    <3>3. CASE SkipFuzz(e) \/ LaunchFuzz(e) \/ RefuseFuzz(e) \/ FinishFuzz(e)
      BY <3>3 DEF SkipFuzz, LaunchFuzz, RefuseFuzz, FinishFuzz, Finished, Complete
    <3>4. CASE KaflWrites(e)
      BY <3>4 DEF KaflWrites
    <3>5. QED BY <2>3, <3>1, <3>2, <3>3, <3>4 DEF JobStep
  <2>4. QED BY <2>1, <2>2, <2>3 DEF Pool
<1>2. QED BY <1>1 DEF TypeOK, Ended

(* What a pool step does to the entries that have completed a stage, where *)
(* J gives the stage's last job of every entry.                            *)
LEMMA OneMore ==
  ASSUME TypeOK, Queued, Pool, NEW J \in [Entry -> Job],
         \A d, e \in Entry : J[d] = J[e] => d = e
  PROVE  \/ {e \in Entry : status'[J[e]] = "ok"} = {e \in Entry : status[J[e]] = "ok"}
         \/ \E e \in Entry \ {d \in Entry : status[J[d]] = "ok"} :
              {d \in Entry : status'[J[d]] = "ok"} = {d \in Entry : status[J[d]] = "ok"} \cup {e}
<1>1. \A j \in Job : status[j] = "ok" => status'[j] = "ok"
  BY PoolSteps DEF PoolEffect, Ended
<1>2. \A d, e \in Entry : /\ status[J[d]] # "ok" /\ status'[J[d]] = "ok"
                          /\ status[J[e]] # "ok" /\ status'[J[e]] = "ok"
                          => d = e
  BY OneAtATime DEF Ended
<1>3. CASE \E e \in Entry : status[J[e]] # "ok" /\ status'[J[e]] = "ok"
  <2>1. PICK e \in Entry : status[J[e]] # "ok" /\ status'[J[e]] = "ok"
    BY <1>3
  <2>2. \A d \in Entry : status'[J[d]] = "ok" <=> (status[J[d]] = "ok" \/ d = e)
    BY <1>1, <1>2, <2>1
  <2>3. QED BY <2>1, <2>2
<1>4. CASE ~ \E e \in Entry : status[J[e]] # "ok" /\ status'[J[e]] = "ok"
  BY <1>1, <1>4
<1>5. QED BY <1>3, <1>4

LEMMA PoolRefines ==
  ASSUME Control, Pool
  PROVE  MappedSame \/ (\E e \in Entry : C!Complete(e))
<1> USE DEF Control
<1>1. pc' = pc /\ runs' = runs
  BY PoolSteps DEF PoolEffect, mainVars
<1>2. CASE pc \in InBuild
  <2> DEFINE J == [e \in Entry |-> Build(e)]
  <2>1. J \in [Entry -> Job] /\ \A d, e \in Entry : J[d] = J[e] => d = e
    BY JobTypes, JobsDiffer
  <2>2. /\ FinishedIn(StageOf) = {e \in Entry : status[J[e]] = "ok"}
        /\ FinishedIn(StageOf)' = {e \in Entry : status'[J[e]] = "ok"}
        /\ StageOf = "build" /\ StageOf' = "build"
    BY <1>1, <1>2, StageFacts DEF StageMap, Ended, Build
  <2>3. QED BY <1>1, <2>1, <2>2, OneMore DEF MappedSame, C!Complete, C!Following
<1>3. CASE pc \in InFuzz
  <2> DEFINE J == [e \in Entry |-> Fuzz(e)]
  <2>1. J \in [Entry -> Job] /\ \A d, e \in Entry : J[d] = J[e] => d = e
    BY JobTypes, JobsDiffer
  <2>2. /\ FinishedIn(StageOf) = {e \in Entry : status[J[e]] = "ok"}
        /\ FinishedIn(StageOf)' = {e \in Entry : status'[J[e]] = "ok"}
        /\ StageOf = "fuzz" /\ StageOf' = "fuzz"
    BY <1>1, <1>3, StageFacts DEF StageMap, Ended, Fuzz
  <2>3. QED BY <1>1, <2>1, <2>2, OneMore DEF MappedSame, C!Complete, C!Following
<1>4. CASE pc \in InTrace
  <2> DEFINE J == [e \in Entry |-> Smatch(e)]
  <2>1. J \in [Entry -> Job] /\ \A d, e \in Entry : J[d] = J[e] => d = e
    BY JobTypes, JobsDiffer
  <2>2. /\ FinishedIn(StageOf) = {e \in Entry : status[J[e]] = "ok"}
        /\ FinishedIn(StageOf)' = {e \in Entry : status'[J[e]] = "ok"}
        /\ StageOf = "trace" /\ StageOf' = "trace"
    BY <1>1, <1>4, StageFacts DEF StageMap, Ended, Smatch
  <2>3. QED BY <1>1, <2>1, <2>2, OneMore DEF MappedSame, C!Complete, C!Following
<1>5. CASE pc \in {"smatcher_submit", "smatcher_wait", "done", "aborted"}
  BY <1>1, <1>5, StageFacts DEF StageMap, MappedSame
<1>6. QED BY <1>2, <1>3, <1>4, <1>5, Parts

(* An exception in the main thread abandons the campaign.                  *)
LEMMA RaiseRefines ==
  ASSUME Control, pc \notin {"done", "aborted"}, Goto("aborted", 1), runs' = runs
  PROVE  C!Abort
<1>1. StageOf \notin {"done", "aborted"}
  BY Parts, StageFacts DEF Control, StageMap
<1>2. StageOf' = "aborted" /\ FinishedIn(StageOf)' = {}
  BY StageFacts DEF Goto, StageMap
<1>3. QED BY <1>1, <1>2 DEF C!Abort

LEMMA SubmitRefines ==
  ASSUME Control,
         SubmitBuild \/ SubmitFuzz \/ SubmitTrace \/ SubmitSmatch \/ SubmitTriage
         \/ SubmitSmatcher
  PROVE  MappedSame
<1> USE JobTypes
<1>1. ASSUME NEW j \in Job, ~ Begun(j), NEW r \in {"queued", "pending"},
             status' = [status EXCEPT ![j] = r]
      PROVE  \A k \in Job : Ended(k)' <=> Ended(k)
  BY <1>1 DEF Control, TypeOK, Begun, Ended
<1>2. \A k \in Job : Ended(k)' <=> Ended(k)
  <2>1. CASE SubmitBuild
    <3>1. idx \in Entry /\ ~ Begun(Build(idx))
      BY <2>1 DEF SubmitBuild, Control, Cursor, Unsubmitted, Entry
    <3>2. QED BY <1>1, <2>1, <3>1 DEF SubmitBuild, Submit
  <2>2. CASE SubmitFuzz
    <3>1. left \in Entry /\ ~ Begun(Fuzz(left))
      BY <2>2, ConstantsAssumption DEF SubmitFuzz, Control, TypeOK, Unsubmitted, Entry, InFuzz
    <3>2. QED BY <1>1, <2>2, <3>1 DEF SubmitFuzz, Submit
  <2>3. CASE SubmitTrace
    <3>1. idx \in Entry /\ ~ Begun(Trace(idx))
      BY <2>3 DEF SubmitTrace, Control, Cursor, Unsubmitted, Entry
    <3>2. QED BY <1>1, <2>3, <3>1 DEF SubmitTrace, Submit
  <2>4. CASE SubmitSmatch
    <3>1. idx \in Entry /\ ~ Begun(Smatch(idx))
      BY <2>4 DEF SubmitSmatch, Control, Cursor, Unsubmitted, Entry
    <3>2. QED BY <1>1, <2>4, <3>1 DEF SubmitSmatch, Submit
  <2>5. CASE SubmitTriage
    BY <1>1, <2>5 DEF SubmitTriage, Submit, Control, Unsubmitted, InTrace
  <2>6. CASE SubmitSmatcher
    BY <1>1, <2>6 DEF SubmitSmatcher, Submit, Control, Unsubmitted
  <2>7. QED BY <2>1, <2>2, <2>3, <2>4, <2>5, <2>6
<1>3. /\ runs' = runs
      /\ \/ pc \in InBuild /\ pc' \in InBuild
         \/ pc \in InFuzz /\ pc' \in InFuzz
         \/ pc \in InTrace /\ pc' \in InTrace
         \/ pc \in {"smatcher_submit", "smatcher_wait"} /\ pc' \in {"smatcher_submit", "smatcher_wait"}
  BY DEF SubmitBuild, SubmitFuzz, SubmitTrace, SubmitSmatch, SubmitTriage, SubmitSmatcher,
     Goto, InBuild, InFuzz, InTrace
<1>4. QED BY <1>2, <1>3, SameWithin DEF Control

(* Leaving a wait loop: everybody has completed the stage, nobody has      *)
(* begun the next one.                                                     *)
LEMMA AwaitRefines ==
  ASSUME Control, Control', AwaitBuild \/ AwaitFuzz \/ AwaitTrace \/ AwaitSmatcher
  PROVE  MappedSame \/ C!Advance \/ C!Report \/ C!Abort
<1>1. /\ runs' = runs /\ status' = status /\ pc \notin {"done", "aborted"}
      /\ \A j \in Job : Ended(j)' <=> Ended(j)
  BY DEF AwaitBuild, AwaitFuzz, AwaitTrace, AwaitSmatcher, Await, Ended
<1>2. CASE pc' = "aborted"
  <2>1. Goto("aborted", 1)
    BY <1>2 DEF AwaitBuild, AwaitFuzz, AwaitTrace, AwaitSmatcher, Await, Goto
  <2>2. QED BY <1>1, <2>1, RaiseRefines
<1>3. CASE pc' \in {"build_wait", "fuzz_wait", "trace_wait"}
  <2>1. pc' = pc
    BY <1>3 DEF AwaitBuild, AwaitFuzz, AwaitTrace, AwaitSmatcher, Await, Goto
  <2>2. QED BY <1>1, <1>3, <2>1, SameWithin DEF Control, InBuild, InFuzz, InTrace
<1>4. CASE pc' = "fuzz_submit"
  <2>1. pc = "build_wait"
    BY <1>4 DEF AwaitBuild, AwaitFuzz, AwaitTrace, AwaitSmatcher, Await, Goto
  <2>2. \A e \in Entry : Ended(Build(e))
    BY <1>1, <1>4, JobTypes DEF Control, Awaited, InFuzz, Ended, Build
  <2>3. \A e \in Entry : ~ Ended(Fuzz(e))'
    BY <1>1, <2>1 DEF Control, Unsubmitted, InBuild, Begun, Ended, Fuzz
  <2>4. /\ StageOf = "build" /\ FinishedIn(StageOf) = Entry
        /\ StageOf' = "fuzz" /\ FinishedIn(StageOf)' = {}
    BY <1>4, <2>1, <2>2, <2>3, StageFacts DEF StageMap, InBuild, InFuzz
  <2>5. QED BY <1>1, <2>4 DEF C!Advance, C!Following, C!Entry, Entry
<1>5. CASE pc' = "trace_submit"
  <2>1. pc = "fuzz_wait"
    BY <1>5 DEF AwaitBuild, AwaitFuzz, AwaitTrace, AwaitSmatcher, Await, Goto
  <2>2. \A e \in Entry : Ended(Fuzz(e))
    BY <1>1, <1>5, JobTypes DEF Control, Awaited, InTrace, Ended, Fuzz
  <2>3. \A e \in Entry : ~ Ended(Smatch(e))'
    BY <1>1, <2>1 DEF Control, Unsubmitted, InFuzz, Begun, Ended, Smatch
  <2>4. /\ StageOf = "fuzz" /\ FinishedIn(StageOf) = Entry
        /\ StageOf' = "trace" /\ FinishedIn(StageOf)' = {}
    BY <1>5, <2>1, <2>2, <2>3, StageFacts DEF StageMap, InFuzz, InTrace
  <2>5. QED BY <1>1, <2>4 DEF C!Advance, C!Following, C!Entry, Entry
<1>6. CASE pc' = "smatcher_submit"
  <2>1. pc = "trace_wait"
    BY <1>6 DEF AwaitBuild, AwaitFuzz, AwaitTrace, AwaitSmatcher, Await, Goto
  <2>2. \A e \in Entry : Ended(Smatch(e))
    BY <1>1, <1>6, JobTypes DEF Control, Awaited, InReport, Ended, Smatch
  <2>3. /\ StageOf = "trace" /\ FinishedIn(StageOf) = Entry
        /\ StageOf' = "report" /\ FinishedIn(StageOf)' = {}
    BY <1>6, <2>1, <2>2, StageFacts DEF StageMap, InTrace
  <2>4. QED BY <1>1, <2>3 DEF C!Advance, C!Following, C!Entry, Entry
<1>7. CASE pc' = "done"
  <2>1. pc = "smatcher_wait"
    BY <1>7 DEF AwaitBuild, AwaitFuzz, AwaitTrace, AwaitSmatcher, Await, Goto
  <2>2. QED BY <1>1, <1>7, <2>1, StageFacts DEF StageMap, C!Report
<1>8. QED BY <1>2, <1>3, <1>4, <1>5, <1>6, <1>7
      DEF AwaitBuild, AwaitFuzz, AwaitTrace, AwaitSmatcher, Await, Goto

LEMMA LoopRefines ==
  ASSUME Control, EndFuzzSubmit \/ PollFuzz \/ EndPoll
  PROVE  MappedSame \/ C!Abort
<1>1. runs' = runs /\ pc \in InFuzz /\ \A j \in Job : Ended(j)' <=> Ended(j)
  BY DEF EndFuzzSubmit, PollFuzz, EndPoll, InFuzz, Ended
<1>2. pc' \in InFuzz \/ Goto("aborted", 1)
  BY DEF EndFuzzSubmit, PollFuzz, EndPoll, Goto, InFuzz
<1>3. QED BY <1>1, <1>2, SameWithin, RaiseRefines DEF Control, InFuzz

(* The pipeline, with its job pool, pipes, failures and restarts, is a     *)
(* staged campaign.                                                        *)
THEOREM Refinement == Spec => ImplementsCampaign
<1>1. Init => C!Init
  <2> SUFFICES ASSUME Init PROVE C!Init
    OBVIOUS
  <2>1. pc \in InBuild /\ \A e \in Entry : ~ Ended(Build(e))
    BY JobTypes DEF Init, NoJobs, Ended, InBuild
  <2>2. QED BY <2>1, StageFacts DEF Init, StageMap, C!Init
<1>2. Control /\ Control' /\ [Next]_vars => [C!Next]_(C!campaignVars)
  <2> SUFFICES ASSUME Control, Control', [Next]_vars
               PROVE  MappedSame \/ C!Next
    BY DEF MappedSame, C!campaignVars
  <2>1. CASE Main
    BY <2>1, SubmitRefines, AwaitRefines, LoopRefines DEF Main, C!Next
  <2>2. CASE Pool
    BY <2>2, PoolRefines DEF C!Next, C!Entry, Entry
  <2>3. CASE Restart
    <3>1. pc' \in InBuild /\ \A e \in Entry : ~ Ended(Build(e))'
      BY <2>3, JobTypes DEF Restart, Goto, NoJobs, Ended, InBuild
    <3>2. StageOf' = "build" /\ FinishedIn(StageOf)' = {}
      BY <3>1, StageFacts DEF StageMap
    <3>3. QED BY <2>3, <3>2 DEF Restart, C!Next, C!Resume
  <2>4. CASE Terminated \/ UNCHANGED vars
    BY <2>4 DEF Terminated, vars, MappedSame, StageOf, FinishedIn, Ended
  <2>5. QED BY <2>1, <2>2, <2>3, <2>4 DEF Next
<1>3. QED BY <1>1, <1>2, ControlInvariant, PTL DEF Spec, ImplementsCampaign, C!Spec
=============================================================================
