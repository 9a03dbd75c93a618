------------------------------ MODULE Campaign ------------------------------
(***************************************************************************)
(* What a fuzzing campaign promises (bkc/kafl/pipeline.py, seen without    *)
(* its jobs, pool and pipes): the stages build, fuzz, trace and report     *)
(* follow each other, every entry goes through each of them in any order,  *)
(* and nobody enters a stage before everybody has completed the one before *)
(* it.  A campaign can be abandoned and started again at any time.         *)
(***************************************************************************)
EXTENDS Naturals

CONSTANTS
  N,      (* number of pipeline entries                                    *)
  MaxRuns (* bound: how often the campaign is started                      *)

VARIABLES
  stage,    (* what the campaign is doing                                  *)
  finished, (* the entries that have completed the stage                   *)
  runs      (* how often the campaign was started                          *)

campaignVars == <<stage, finished, runs>>

Entry == 1..N
Stage == {"build", "fuzz", "trace", "report", "done", "aborted"}

(* The stage after one that every entry has to complete.                   *)
Following ==
  [s \in {"build", "fuzz", "trace"} |->
     IF s = "build" THEN "fuzz" ELSE IF s = "fuzz" THEN "trace" ELSE "report"]

Init ==
  /\ stage = "build"
  /\ finished = {}
  /\ runs = 1

Complete(e) ==
  /\ stage \in DOMAIN Following
  /\ e \notin finished
  /\ finished' = finished \cup {e}
  /\ UNCHANGED <<stage, runs>>

Advance ==
  /\ stage \in DOMAIN Following
  /\ finished = Entry
  /\ stage' = Following[stage]
  /\ finished' = {}
  /\ UNCHANGED runs

Report ==
  /\ stage = "report"
  /\ stage' = "done"
  /\ UNCHANGED <<finished, runs>>

Abort ==
  /\ stage \notin {"done", "aborted"}
  /\ stage' = "aborted"
  /\ finished' = {}
  /\ UNCHANGED runs

Resume ==
  /\ runs < MaxRuns
  /\ runs' = runs + 1
  /\ stage' = "build"
  /\ finished' = {}

Next == (\E e \in Entry : Complete(e)) \/ Advance \/ Report \/ Abort \/ Resume

Spec == Init /\ [][Next]_campaignVars
=============================================================================
