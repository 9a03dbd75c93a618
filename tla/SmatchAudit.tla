----------------------------- MODULE SmatchAudit -----------------------------
(***************************************************************************)
(* bkc/audit/smatch_audit.sh: the report of a kernel build is filtered by  *)
(* process_smatch_output.py, the verdicts of an earlier audit are carried  *)
(* over by transfer_results.py, and the lists are copied to the output     *)
(* directory.  An audit may be killed and repeated, on another kernel.     *)
(*                                                                         *)
(* A result is a record of the parts the scripts look at: its path, as the *)
(* subsystem it falls into, its function, line and id (or none), and what  *)
(* it reads from the host into which variable.                             *)
(***************************************************************************)
EXTENDS Naturals, Sequences, FiniteSets

CONSTANTS
  Reports,    (* the reports that smatch may come to                       *)
  Annotated,  (* SMATCH_ANNOTATED: the results of the earlier audit, with  *)
              (* their verdicts                                            *)
  MaxAudits   (* bound: how often an audit is started                      *)

Subsystem == {"core", "allowed driver", "driver", "controller", "sound", "samples", "relative"}

Result ==
  [path : Subsystem, func : STRING, line : Nat, id : STRING,
   reads : {"native_read_msr", "paravirt_read_msr", "other", "nothing"}, var : STRING]

(* An entry of a list with verdicts; one without a verdict has none.       *)
Status == {Annotated[j].status : j \in DOMAIN Annotated} \cup {"none"}
Entry == [result : Result, status : Status]

(* A line of another check has neither an id nor the name of the pattern,  *)
(* and is not about spectre; a result about spectre has no id.             *)
IsNoise(r) == r.reads = "nothing"

ASSUME AuditAssumption ==
  /\ Reports \subseteq Seq(Result)
  /\ \A report \in Reports : \A i \in DOMAIN report : IsNoise(report[i]) => report[i].id = "none"
  /\ Annotated \in Seq([result : Result, status : STRING])
  /\ MaxAudits \in Nat

VARIABLES
  audits,    (* how often an audit was started                             *)
  pc,        (* what the audit does                                        *)
  at,        (* the result it is at                                        *)
  warns,     (* smatch_warns.txt                                           *)
  filtered,  (* smatch_warns_filtered.txt                                  *)
  annotated, (* smatch_warns_annotated.txt                                 *)
  output,    (* the three lists in the output directory                    *)
  torn,      (* those of them that are being written, or were given up;    *)
             (* what these hold is left open                               *)
  origin     (* history: the audit that wrote each list, and its report    *)

published == <<output, torn, origin>>
vars == <<audits, pc, at, warns, filtered, annotated, published>>

(* Mutant: the report is copied last.                                      *)
CopiesWarnsLast == <<"filtered", "annotated", "warns">>

(* The files in the order they are copied: two cp commands, of which the   *)
(* second copies two files.                                                *)
Copies == <<"warns", "filtered", "annotated">>

Init ==
  /\ audits = 0
  /\ pc = "idle"
  /\ at = 1
  /\ warns = <<>>
  /\ filtered = <<>>
  /\ annotated = <<>>
  /\ output = [warns |-> <<>>, filtered |-> <<>>, annotated |-> <<>>]
  /\ torn = {}
  /\ origin = [l \in {Copies[i] : i \in DOMAIN Copies} |-> [audit |-> 0, report |-> <<>>]]

(* make CHECK=smatch, external, and the collection of its output.          *)
Analyze ==
  /\ pc \in {"idle", "done"}
  /\ audits < MaxAudits
  /\ audits' = audits + 1
  /\ \E report \in Reports : warns' = report
  /\ filtered' = <<>>
  /\ at' = 1
  /\ pc' = "filter"
  /\ UNCHANGED <<annotated, published>>
-----------------------------------------------------------------------------
(* process_smatch_output.py                                                *)

(* The places of a report that are kept as results.                        *)
result_list(report) == {i \in DOMAIN report : ~ IsNoise(report[i])}

(* Mutant: sound/ and samples/ are not told apart from the core.           *)
ExcludedDrivers(r) == r.path \in {"driver", "controller"}

Excluded(r) == r.path \in {"sound", "samples", "driver", "controller"}

(* Only the first result has no line break in front of it: its path is not *)
(* recognised, and one with the same text is not taken for its duplicate.  *)
IsFirst(report, i) == \A j \in result_list(report) : i <= j

Dropped(report, i) ==
  \/ report[i].path = "relative"
  \/ ~ IsFirst(report, i) /\ Excluded(report[i])
  \/ \E j \in result_list(report) : j < i /\ ~ IsFirst(report, j) /\ report[j] = report[i]

Kept(report) == {i \in result_list(report) : ~ Dropped(report, i)}

Filter ==
  /\ pc = "filter"
  /\ at <= Len(warns)
  /\ filtered' = IF at \in Kept(warns) THEN Append(filtered, warns[at]) ELSE filtered
  /\ at' = at + 1
  /\ UNCHANGED <<audits, pc, warns, annotated, published>>

(* Mutant: the transfer goes on where the filter ended.                    *)
EndFilterThere ==
  /\ pc = "filter"
  /\ at > Len(warns)
  /\ annotated' = <<>>
  /\ pc' = "transfer"
  /\ UNCHANGED <<audits, at, warns, filtered, published>>

(* The output file of the transfer is truncated.                           *)
EndFilter ==
  /\ pc = "filter"
  /\ at > Len(warns)
  /\ annotated' = <<>>
  /\ at' = 1
  /\ pc' = "transfer"
  /\ UNCHANGED <<audits, warns, filtered, published>>
-----------------------------------------------------------------------------
(* transfer_results.py                                                     *)

(* native_read_msr takes the place of paravirt_read_msr under another id.  *)
Renamed(e, r) ==
  r.reads = "native_read_msr" /\ e.result.reads = "paravirt_read_msr"

(* Mutant: the verdict on a function is the verdict on all its results.    *)
SameFunction(e, r) == e.result.path = r.path /\ e.result.func = r.func

(* Does the analysed entry e decide on the new result r?                   *)
Decides(e, r) ==
  \/ e.result = r
  \/ /\ e.result.path = r.path
     /\ e.result.func = r.func
     /\ e.result.id # "none"
     /\ \/ e.result.id = r.id
        \/ Renamed(e, r) /\ e.result.line = r.line /\ e.result.var = r.var
        \/ ~ Renamed(e, r) /\ e.status = "excluded"

Deciding(r) == {j \in DOMAIN Annotated : Decides(Annotated[j], r)}

(* Mutant: a later entry overrides an earlier one.                         *)
LastVerdict(r) ==
  IF Deciding(r) = {} THEN "none"
  ELSE Annotated[CHOOSE j \in Deciding(r) : \A k \in Deciding(r) : k <= j].status

(* The first entry that decides; none leaves the result without a verdict. *)
Verdict(r) ==
  IF Deciding(r) = {} THEN "none"
  ELSE Annotated[CHOOSE j \in Deciding(r) : \A k \in Deciding(r) : j <= k].status

(* Mutant: results without a verdict are left to the other list.           *)
TransferFound ==
  /\ pc = "transfer"
  /\ at <= Len(filtered)
  /\ annotated' = IF Deciding(filtered[at]) = {} THEN annotated
                  ELSE Append(annotated, [result |-> filtered[at], status |-> Verdict(filtered[at])])
  /\ at' = at + 1
  /\ UNCHANGED <<audits, pc, warns, filtered, published>>

(* Results without an id are left out.                                     *)
Transfer ==
  /\ pc = "transfer"
  /\ at <= Len(filtered)
  /\ annotated' = IF filtered[at].id = "none" THEN annotated
                  ELSE Append(annotated, [result |-> filtered[at], status |-> Verdict(filtered[at])])
  /\ at' = at + 1
  /\ UNCHANGED <<audits, pc, warns, filtered, published>>

EndTransfer ==
  /\ pc = "transfer"
  /\ at > Len(filtered)
  /\ at' = 1
  /\ pc' = "copy"
  /\ UNCHANGED <<audits, warns, filtered, annotated, published>>
-----------------------------------------------------------------------------
(* cp truncates the next file in the output directory, and then fills it.  *)
OpenCopy ==
  /\ pc = "copy"
  /\ output' = [output EXCEPT ![Copies[at]] = <<>>]
  /\ torn' = torn \cup {Copies[at]}
  /\ origin' = [origin EXCEPT ![Copies[at]] = [audit |-> audits, report |-> warns]]
  /\ pc' = "copying"
  /\ UNCHANGED <<audits, at, warns, filtered, annotated>>

Copy ==
  [warns |-> warns, filtered |-> filtered, annotated |-> annotated]

FillCopy ==
  /\ pc = "copying"
  /\ output' = [output EXCEPT ![Copies[at]] = Copy[Copies[at]]]
  /\ torn' = torn \ {Copies[at]}
  /\ at' = at + 1
  /\ pc' = IF at = Len(Copies) THEN "done" ELSE "copy"
  /\ UNCHANGED <<audits, warns, filtered, annotated, origin>>

(* The lists are left as far as they were written.                         *)
Kill ==
  /\ pc \notin {"idle", "done"}
  /\ pc' = "idle"
  /\ UNCHANGED <<audits, at, warns, filtered, annotated, published>>

Next ==
  \/ Analyze \/ Filter \/ EndFilter \/ Transfer \/ EndTransfer
  \/ OpenCopy \/ FillCopy \/ Kill

Spec == Init /\ [][Next]_vars
-----------------------------------------------------------------------------
Listed(list, r) == {i \in DOMAIN list : list[i] = r}
Results(list) == [i \in DOMAIN list |-> list[i].result]
First(report) == {report[i] : i \in {j \in result_list(report) : IsFirst(report, j)}}

OutOfScope == {"sound", "samples", "driver", "controller"}

(* Types of the state.                                                     *)
TypeOK ==
  /\ audits \in 0..MaxAudits
  /\ pc \in {"idle", "filter", "transfer", "copy", "copying", "done"}
  /\ at \in Nat \ {0}
  /\ pc = "filter"   => at <= Len(warns) + 1
  /\ pc = "transfer" => at <= Len(filtered) + 1
  /\ pc \in {"copy", "copying"} => at <= Len(Copies)
  /\ warns \in Reports \cup {<<>>}
  /\ filtered \in Seq(Result)
  /\ annotated \in Seq(Entry)
  /\ output \in [warns : Reports \cup {<<>>}, filtered : Seq(Result), annotated : Seq(Entry)]
  /\ torn \subseteq {"warns", "filtered", "annotated"}
  /\ origin \in [{"warns", "filtered", "annotated"} ->
                   [audit : 0..MaxAudits, report : Reports \cup {<<>>}]]

(* The results in one of the two lists that an auditor works on.           *)
Published(l) == IF l = "filtered" THEN output.filtered ELSE Results(output.annotated)

InScope(report) ==
  {report[i] : i \in {j \in result_list(report) :
                        report[j].path \notin OutOfScope \cup {"relative"}}}

(* What an auditor is given after any number of audits, wherever they were *)
(* killed: a list that was not cut off has every result in scope of the    *)
(* report it was made from, once, unless it was the very first, whose      *)
(* duplicate is not recognised.  The list with the verdicts lacks those    *)
(* without an id.                                                          *)
NothingMissed ==
  \A l \in {"filtered", "annotated"} \ torn :
    LET report == origin[l].report IN
    \A r \in {x \in InScope(report) : l = "annotated" => x.id # "none"} :
      LET n == Cardinality(Listed(Published(l), r)) IN
      n = 1 \/ (n = 2 /\ r \in First(report))

(* Nothing else is there: no other subsystem, except in the first result,  *)
(* whose path is not recognised, and nothing of another kernel.            *)
OnlyInScope ==
  \A l \in {"filtered", "annotated"} \ torn :
    \A i \in DOMAIN Published(l) :
      LET report == origin[l].report
          r == Published(l)[i]
      IN  Listed(report, r) # {} /\ (r.path \in OutOfScope => r \in First(report))

(* An audit that is killed between the copies leaves lists of two kernels  *)
(* side by side, or a torn one.  The list with the verdicts comes last: if *)
(* it is whole and from the latest audit, so are the others.               *)
VerdictsVouch ==
  "annotated" \notin torn /\ origin["annotated"].audit = audits =>
    torn = {} /\ \A l \in DOMAIN origin : origin[l] = origin["annotated"]

(* A verdict is only carried over to the finding it was given to, the same *)
(* id or the same renamed msr read in the same function; "excluded" goes   *)
(* to other findings as well, but not out of the function.                 *)
VerdictFounded ==
  \A i \in DOMAIN annotated : annotated[i].status # "none" =>
    \E j \in DOMAIN Annotated :
      LET e == Annotated[j]
          r == annotated[i].result
      IN  /\ e.status = annotated[i].status
          /\ e.result.path = r.path /\ e.result.func = r.func
          /\ \/ e.status = "excluded"
             \/ e.result.id = r.id
             \/ e.result.var = r.var /\ e.result.line = r.line

(* A finding that has not changed at all keeps its verdict, or has that of *)
(* an entry in front of it: one of its function that is excluded, shares   *)
(* its id, or is about the same variable in the same line.                 *)
VerdictKept ==
  \A i \in DOMAIN annotated, j \in DOMAIN Annotated :
    LET r == annotated[i].result IN
    Annotated[j].result = r =>
      \E k \in 1..j :
        LET e == Annotated[k] IN
        /\ annotated[i].status = e.status
        /\ e.result.path = r.path /\ e.result.func = r.func
        /\ \/ e.status = "excluded"
           \/ e.result.id = r.id
           \/ e.result.var = r.var /\ e.result.line = r.line
=============================================================================
