---------------------------- MODULE BuildTarget -----------------------------
(***************************************************************************)
(* task_build() of bkc/kafl/pipeline.py for the workdirs of one harness.   *)
(* Every workdir has a build job with a build directory of its own, but    *)
(* all of them check and fill the same target/, without a lock, and what   *)
(* they leave there survives an aborted campaign.                          *)
(***************************************************************************)
EXTENDS Naturals, FiniteSets

CONSTANTS
  Builders, (* number of workdirs of the harness, hence of build jobs      *)
  Files,    (* length of target_files                                      *)
  MaxRuns   (* bound: how often the pipeline is started                    *)

ASSUME BuildAssumption ==
  /\ Builders \in Nat \ {0}
  /\ Files \in Nat \ {0}
  /\ MaxRuns \in Nat \ {0}

VARIABLES
  rebuild, (* was --rebuild given to this run?                             *)
  rebuilt, (* history: was it given to any run?                            *)
  runs,    (* how often the pipeline was started                           *)
  pc,      (* what a job does                                              *)
  at,      (* the element of target_files it is at                         *)
  overlap, (* how the copy a job is writing was disturbed                  *)
  target   (* what target/ holds of each file                              *)

vars == <<rebuild, rebuilt, runs, pc, at, overlap, target>>

Builder == 1..Builders
File    == 1..Files

(* A file is missing, has gaps or lacks its end, or holds bytes throughout:*)
(* those that one job of some run has built, or a mix of several jobs'.    *)
Missing == <<"missing", 0>>
Torn    == <<"torn", 0>>
Filling == {"whole", "mixed"}

Init ==
  /\ rebuild \in BOOLEAN
  /\ rebuilt = rebuild
  /\ runs = 1
  /\ pc = [b \in Builder |-> "queued"]
  /\ at = [b \in Builder |-> 1]
  /\ overlap = [b \in Builder |-> "alone"]
  /\ target = [f \in File |-> Missing]

Goto(b, location, f) ==
  /\ pc' = [pc EXCEPT ![b] = location]
  /\ at' = [at EXCEPT ![b] = f]

Begin(b) ==
  /\ pc[b] = "queued"
  /\ Goto(b, IF rebuild THEN "building" ELSE "checking", 1)
  /\ UNCHANGED <<rebuild, rebuilt, runs, overlap, target>>

(* Mutant: the first file stands for all.                                  *)
CheckFirst(b) ==
  /\ pc[b] = "checking"
  /\ Goto(b, IF target[at[b]] = Missing THEN "building" ELSE "skipped", 1)
  /\ UNCHANGED <<rebuild, rebuilt, runs, overlap, target>>

(* Mutant: the index runs past the last file.                              *)
CheckPastEnd(b) ==
  /\ pc[b] = "checking"
  /\ IF target[at[b]] = Missing THEN Goto(b, "building", 1) ELSE Goto(b, "checking", at[b] + 1)
  /\ UNCHANGED <<rebuild, rebuilt, runs, overlap, target>>

(* all_exist() looks at one file after the other.                          *)
Check(b) ==
  /\ pc[b] = "checking"
  /\ IF target[at[b]] = Missing THEN Goto(b, "building", 1)
     ELSE IF at[b] = Files THEN Goto(b, "skipped", 1)
     ELSE Goto(b, "checking", at[b] + 1)
  /\ UNCHANGED <<rebuild, rebuilt, runs, overlap, target>>

(* fuzz.sh build works in the build directory only.                        *)
Build(b) ==
  /\ pc[b] = "building"
  /\ \E result \in {"copying", "failed"} : Goto(b, result, 1)
  /\ UNCHANGED <<rebuild, rebuilt, runs, overlap, target>>

(* The other jobs that have the same file open.                            *)
CoWriters(b) == {c \in Builder \ {b} : pc[c] = "writing" /\ at[c] = at[b]}

(* shutil.copy() truncates the file and then writes it at an offset of its *)
(* own: what others have written of it so far is gone, and they go on      *)
(* behind the gap.                                                         *)
Truncate(b) ==
  /\ pc[b] = "copying"
  /\ Goto(b, "writing", at[b])
  /\ target' = [target EXCEPT ![at[b]] = Torn]
  /\ overlap' = [c \in Builder |->
       IF c \in CoWriters(b) THEN "cut"
       ELSE IF c = b /\ CoWriters(b) # {} THEN "over"
       ELSE overlap[c]]
  /\ UNCHANGED <<rebuild, rebuilt, runs>>

(* What the file may be when a job has written all of its copy.  A copy    *)
(* nobody disturbed is whole.  One that overlapped with another may be     *)
(* mixed with it, then or by what the other still writes; one that was     *)
(* also truncated may have a gap, until another job has filled it.         *)
Outcome(b) ==
  CASE overlap[b] = "alone" -> {<<"whole", runs>>}
    [] overlap[b] = "over"  -> Filling \X {runs}
    [] overlap[b] = "cut"   -> Filling \X {runs} \cup {Torn}

(* Mutant: the loop ends before the last file.                             *)
WriteAllButLast(b) ==
  /\ pc[b] = "writing"
  /\ IF at[b] + 1 < Files THEN Goto(b, "copying", at[b] + 1) ELSE Goto(b, "done", 1)
  /\ \E result \in Outcome(b) : target' = [target EXCEPT ![at[b]] = result]
  /\ overlap' = [overlap EXCEPT ![b] = "alone"]
  /\ UNCHANGED <<rebuild, rebuilt, runs>>

Write(b) ==
  /\ pc[b] = "writing"
  /\ IF at[b] < Files THEN Goto(b, "copying", at[b] + 1) ELSE Goto(b, "done", 1)
  /\ \E result \in Outcome(b) :
       /\ target' = [target EXCEPT ![at[b]] = result]
       /\ overlap' = [c \in Builder |->
            IF c = b THEN "alone"
            ELSE IF c \in CoWriters(b) /\ result # Torn THEN "over"
            ELSE overlap[c]]
  /\ UNCHANGED <<rebuild, rebuilt, runs>>

(* An I/O error raises.                                                    *)
BreakOff(b) ==
  /\ pc[b] \in {"copying", "writing"}
  /\ Goto(b, "failed", 1)
  /\ overlap' = [overlap EXCEPT ![b] = "alone"]
  /\ UNCHANGED <<rebuild, rebuilt, runs, target>>

(* The pipeline dies at any point, or has ended, and is started again.     *)
Restart ==
  /\ runs < MaxRuns
  /\ runs' = runs + 1
  /\ rebuild' \in BOOLEAN
  /\ rebuilt' = (rebuilt \/ rebuild')
  /\ pc' = [b \in Builder |-> "queued"]
  /\ at' = [b \in Builder |-> 1]
  /\ overlap' = [b \in Builder |-> "alone"]
  /\ UNCHANGED target

Ended == {"skipped", "done", "failed"}

(* [t.result() for t in build_tasks] has returned, or has raised.          *)
Settled == (\A b \in Builder : pc[b] \in Ended) /\ UNCHANGED vars

Step(b) == Begin(b) \/ Check(b) \/ Build(b) \/ Truncate(b) \/ Write(b) \/ BreakOff(b)

Next == (\E b \in Builder : Step(b)) \/ Restart \/ Settled

Spec == Init /\ [][Next]_vars
-----------------------------------------------------------------------------
(* Types of the state.                                                     *)
TypeOK ==
  /\ rebuild \in BOOLEAN /\ rebuilt \in BOOLEAN
  /\ runs \in 1..MaxRuns
  /\ pc \in [Builder -> {"queued", "checking", "building", "copying", "writing"} \cup Ended]
  /\ at \in [Builder -> File]
  /\ overlap \in [Builder -> {"alone", "over", "cut"}]
  /\ target \in [File -> {Missing, Torn} \cup (Filling \X (1..MaxRuns))]

Passed    == \A b \in Builder : pc[b] \in {"skipped", "done"}
Filled(f) == target[f] \notin {Missing, Torn}
RunOf(f)  == target[f][2]

(* In a campaign that was not interrupted, fuzzing starts from files that  *)
(* are there and have no gaps, also when a job was skipped because of      *)
(* files another job had only begun to copy, or when several jobs copy     *)
(* over each other: the wait for all build jobs covers the one that        *)
(* truncated a file last.  A file can be a mix of two builds, but only if  *)
(* more than one job has built.                                            *)
FilledAtBarrier ==
  runs = 1 /\ Passed =>
    /\ \A f \in File : Filled(f)
    /\ (\E b \in Builder : \A c \in Builder \ {b} : pc[c] = "skipped") =>
         \A f \in File : target[f] = <<"whole", 1>>

(* Without --rebuild, whatever was interrupted before, a campaign that     *)
(* gets past the build finds no file missing and never mixes two runs,     *)
(* between files or within one.  It may take files with gaps for good, but *)
(* at most one for each job that was interrupted: all_exist() is satisfied *)
(* only after some job has come to the last file, nothing is written after *)
(* that run, and a gap stays only if the job that truncated the file last  *)
(* has not written all of it.                                              *)
OneRunsFiles ==
  ~ rebuilt /\ Passed =>
    /\ \A f \in File : target[f] # Missing
    /\ Cardinality({f \in File : target[f] = Torn}) <= Builders
    /\ \A f, g \in File : Filled(f) /\ Filled(g) => RunOf(f) = RunOf(g)
=============================================================================
