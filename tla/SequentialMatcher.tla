------------------------- MODULE SequentialMatcher --------------------------
(***************************************************************************)
(* What fast_matcher promises (bkc/coverage/fast_matcher/src/main.rs, seen *)
(* without its threads, queue and lock): the trace files are counted one   *)
(* after the other, each at once and each once.  A file that cannot be     *)
(* read costs one of nproc attempts; the report waits for the last file    *)
(* unless all attempts are used up.                                        *)
(***************************************************************************)
EXTENDS Naturals

CONSTANTS
  Files,      (* number of trace files                                     *)
  nproc,      (* number of attempts                                        *)
  Input,      (* the contents a trace file may have                        *)
  Panics(_),  (* whether such a file makes its reader panic                *)
  Covered(_)  (* what such a file adds to the ranges otherwise             *)

VARIABLES
  trace,    (* the contents of every file                                  *)
  rest,     (* the files still to be counted                               *)
  attempts, (* how often a reader may still fail                           *)
  total,    (* the ranges counted so far                                   *)
  reported  (* whether the report was made                                 *)

matcherVars == <<trace, rest, attempts, total, reported>>

File == 1..Files

Init ==
  /\ trace \in [File -> Input]
  /\ rest = File
  /\ attempts = nproc
  /\ total = {}
  /\ reported = FALSE

Count(f) ==
  /\ f \in rest /\ ~ Panics(trace[f])
  /\ attempts > 0
  /\ rest' = rest \ {f}
  /\ total' = total \cup Covered(trace[f])
  /\ UNCHANGED <<trace, attempts, reported>>

Lose(f) ==
  /\ f \in rest /\ Panics(trace[f])
  /\ attempts > 0
  /\ rest' = rest \ {f}
  /\ attempts' = attempts - 1
  /\ UNCHANGED <<trace, total, reported>>

Report ==
  /\ ~ reported
  /\ rest = {} \/ attempts = 0
  /\ reported' = TRUE
  /\ UNCHANGED <<trace, rest, attempts, total>>

Next == Report \/ (~ reported /\ \E f \in File : Count(f) \/ Lose(f))

Spec == Init /\ [][Next]_matcherVars
=============================================================================
