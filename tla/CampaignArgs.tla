---------------------------- MODULE CampaignArgs ----------------------------
(***************************************************************************)
(* How bkc/kafl/pipeline.py divides the machine: parse_args() and the part *)
(* of main() that derives from the command line how many fuzzers run side  *)
(* by side (pipes), how many workers each has and with how many threads a  *)
(* kernel is built.  The CPU set of a pipe follows in task_fuzz().         *)
(***************************************************************************)
EXTENDS Integers

CONSTANTS
  MaxCpu,       (* bound: largest size of --ncpu and --workers             *)
  MaxHarnesses, (* bound: largest number of harness directories            *)
  Threads       (* values of --threads                                     *)

ASSUME ArgsAssumption ==
  /\ MaxCpu \in Nat \ {0}
  /\ MaxHarnesses \in Nat \ {0}
  /\ Threads \subseteq Int

VARIABLES
  step,  (* how far main() has come                                        *)
  given, (* what the user typed                                            *)
  args,  (* the namespace main() reads and writes                          *)
  dirs   (* number of harness directories                                  *)

vars == <<step, given, args, dirs>>

(* The options the plan depends on: type=int takes zero and negative       *)
(* numbers as well.                                                        *)
Option == [ncpu : -MaxCpu..MaxCpu, workers : -MaxCpu..MaxCpu, threads : Threads]

Namespace == [ncpu : Int, workers : Int, threads : Int, pipes : Nat]

larger(a, b) == IF a > b THEN a ELSE b

(* Python's //, which rounds down whatever the signs; \div is that for a   *)
(* positive divisor.                                                       *)
FloorDiv(a, b) == IF b > 0 THEN a \div b ELSE (-a) \div (-b)

Init ==
  /\ step = "parsed"
  /\ given \in Option
  /\ args = [ncpu |-> given.ncpu, workers |-> given.workers,
             threads |-> given.threads, pipes |-> 0]
  /\ dirs \in 1..MaxHarnesses

(* Mutant: only the pipes and threads follow the machine.                  *)
PlanFewUnlowered ==
  /\ step = "parsed"
  /\ args.ncpu < args.workers
  /\ args' = [args EXCEPT !.pipes = 1, !.threads = 2*args.ncpu]
  /\ step' = "planned"
  /\ UNCHANGED <<given, dirs>>

(* "for few CPUs, use single pipes and all available cores"                *)
PlanFew ==
  /\ step = "parsed"
  /\ args.ncpu < args.workers
  /\ args' = [args EXCEPT !.pipes = 1, !.workers = args.ncpu, !.threads = 2*args.ncpu]
  /\ step' = "planned"
  /\ UNCHANGED <<given, dirs>>

(* Mutant: a machine without spare CPUs gets no pipe.                      *)
PipesUnforced == FloorDiv(args.ncpu - 2, args.workers)

(* Mutant: no CPUs are set aside and the division rounds up.               *)
PipesRoundedUp == larger(1, FloorDiv(args.ncpu + args.workers - 1, args.workers))

PipesFor == larger(1, FloorDiv(args.ncpu - 2, args.workers))

PlanMany ==
  /\ step = "parsed"
  /\ args.ncpu >= args.workers
  /\ args.workers # 0
  /\ args' = [args EXCEPT !.pipes = PipesFor, !.threads = 2*args.workers]
  /\ step' = "planned"
  /\ UNCHANGED <<given, dirs>>

(* ZeroDivisionError in the same line ends main().                         *)
DivideByZero ==
  /\ step = "parsed"
  /\ args.ncpu >= args.workers
  /\ args.workers = 0
  /\ step' = "raised"
  /\ UNCHANGED <<given, args, dirs>>

(* Mutant: the threads are scaled before the number of pipes is lowered.   *)
ScaleThreadsTwice ==
  /\ step = "planned"
  /\ args' = IF args.pipes > dirs
             THEN [args EXCEPT !.pipes = dirs, !.threads = args.pipes * args.threads]
             ELSE args
  /\ step' = "ready"
  /\ UNCHANGED <<given, dirs>>

(* "if we don't need so many pipes, scale up the threads"                  *)
Scale ==
  /\ step = "planned"
  /\ args' = IF args.pipes > dirs
             THEN [args EXCEPT !.pipes = dirs, !.threads = 2*(args.ncpu \div dirs)]
             ELSE args
  /\ step' = "ready"
  /\ UNCHANGED <<given, dirs>>

(* The campaign runs, or main() is over.                                   *)
Campaign == step \in {"ready", "raised"} /\ UNCHANGED vars

Next == PlanFew \/ PlanMany \/ DivideByZero \/ Scale \/ Campaign

Spec == Init /\ [][Next]_vars

(* Mutant: the offset counts pipes, not the CPUs in front of a pipe.       *)
CpusFromPipe(i) == i .. i + args.workers - 1

(* --cpu-offset workers*pipe_id -p workers                                 *)
CpusOf(i) == args.workers * i .. args.workers * i + args.workers - 1
-----------------------------------------------------------------------------
(* Types of the state.                                                     *)
TypeOK ==
  /\ step \in {"parsed", "planned", "ready", "raised"}
  /\ given \in Option
  /\ args \in Namespace
  /\ dirs \in 1..MaxHarnesses

Ready == step = "ready"
Pipe  == 0..(args.pipes - 1)

(* What the user may type.  Planning fails exactly when --workers is 0 and *)
(* --ncpu is not below it; every other command line gets a pipe to run on  *)
(* and at most one per harness.  A pipe has workers, and a build threads,  *)
(* exactly when neither option was below 1: main() has no other check, and *)
(* task_fuzz() and task_build() pass what they get to the fuzzer and to    *)
(* make.                                                                   *)
PlanUsable ==
  /\ step = "raised" => given.workers = 0 /\ given.ncpu >= 0
  /\ Ready => /\ ~(given.workers = 0 /\ given.ncpu >= 0)
              /\ args.pipes \in 1..dirs
              /\ given.ncpu >= 1 /\ given.workers >= 1
                   <=> args.workers >= 1
              /\ args.workers >= 1 <=> args.threads >= 1

(* The fuzzers of two pipes never share a CPU: the offsets that task_fuzz  *)
(* computes from the adjusted number of workers keep their ranges apart.   *)
CpusDisjoint ==
  Ready => \A i, j \in Pipe : i # j => CpusOf(i) \cap CpusOf(j) = {}

(* Every CPU the fuzzers are pinned to exists, and with several pipes two  *)
(* CPUs stay free for everything else ("args.ncpu-2" in main()), however   *)
(* the number of workers and pipes was lowered.                            *)
CpusExist ==
  Ready => /\ \A i \in Pipe : CpusOf(i) \subseteq 0..(args.ncpu - 1)
           /\ args.pipes > 1 =>
                \A i \in Pipe : CpusOf(i) \cap {args.ncpu - 2, args.ncpu - 1} = {}

(* One build per pipe with -j threads never starts more than two compilers *)
(* per CPU, also after "scale up the threads".                             *)
ThreadsBounded == Ready => args.pipes * args.threads <= 2 * args.ncpu

(* "--threads n: number of SW threads (default: 2*workers)": a value other *)
(* than the parser's own default is what the builds use.                   *)
DefaultThreads == 32
ThreadsAsGiven ==
  Ready /\ given.threads # DefaultThreads => args.threads = given.threads
=============================================================================
