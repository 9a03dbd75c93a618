------------------------- MODULE CampaignRefinement -------------------------
(***************************************************************************)
(* The pipeline implements the campaign: the refinement mapping.           *)
(***************************************************************************)
EXTENDS Pipeline

(* The stage of the campaign that the main thread's location stands for.   *)
StageOf ==
  CASE pc \in {"build_submit", "build_wait"} -> "build"
    [] pc \in {"fuzz_submit", "fuzz_poll", "fuzz_wait"} -> "fuzz"
    [] pc \in {"trace_submit", "smatch_submit", "triage_submit", "trace_wait"} -> "trace"
    [] pc \in {"smatcher_submit", "smatcher_wait"} -> "report"
    [] OTHER -> pc

(* The entries whose last job of this stage has succeeded.                 *)
FinishedIn(stage) ==
  CASE stage = "build" -> {e \in Entry : Ended(Build(e))}
    [] stage = "fuzz"  -> {e \in Entry : Ended(Fuzz(e))}
    [] stage = "trace" -> {e \in Entry : Ended(Smatch(e))}
    [] OTHER -> {}

C == INSTANCE Campaign WITH stage <- StageOf, finished <- FinishedIn(StageOf)

(* Every behaviour of run_campaign, its pool and its restarts is, job for  *)
(* job, a behaviour of the staged campaign: jobs complete only the stage   *)
(* the campaign is in, and the main thread moves on only when all entries  *)
(* have completed it.                                                      *)
ImplementsCampaign == C!Spec
=============================================================================
