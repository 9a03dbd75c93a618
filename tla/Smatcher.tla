------------------------------ MODULE Smatcher ------------------------------
(***************************************************************************)
(* bkc/coverage/smatcher: combines the coverage files of workdirs, matches *)
(* them with the smatch report of each workdir, and with --save and --load *)
(* accumulates what was covered in a database that all calls share.        *)
(*                                                                         *)
(* An entry of a report is <<class, line, function>>.  What a workdir's    *)
(* coverage files hold, and when, is the module LineCoverage.              *)
(***************************************************************************)
EXTENDS LineCoverage, Sequences

CONSTANTS
  Call,        (* calls of smatcher that may run at the same time          *)
  MaxCalls,    (* bound: how many are started                              *)
  Options,     (* the command lines they are given                         *)
  AnnotatedOf, (* the entries in smatch_warns_annotated.txt of the         *)
               (* workdirs that have one                                   *)
  GivenReport  (* the entries of the report that --smatch names            *)

(* An input item is a workdir, "dir", or one of its coverage files.        *)
Item == Workdir \X (Name \cup {"dir"})

CommandLine ==
  [items : Seq(Item), smatch : BOOLEAN, combine_cov_files : BOOLEAN,
   ignore_errors : BOOLEAN, load : BOOLEAN, save : BOOLEAN]

Entry ==
  (UNION {WarnsOf[w] : w \in DOMAIN WarnsOf})
    \cup (UNION {AnnotatedOf[w] : w \in DOMAIN AnnotatedOf}) \cup GivenReport

ASSUME SmatcherAssumption ==
  /\ MaxCalls \in Nat
  /\ Options \subseteq CommandLine

VARIABLES
  calls,     (* how many calls were started                                *)
  db,        (* args.db_file                                               *)
  pc,        (* where a call is in start()                                 *)
  args,      (* its command line                                           *)
  at,        (* the input item it is at                                    *)
  covered,   (* covered                                                    *)
  smatch_set,(* smatch_set                                                 *)
  due,       (* history: what it has to count as covered                   *)
  saved,     (* history: everything that was ever written to the database  *)
  disturbed  (* history: have two savers overlapped, or has one died?      *)

callVars == <<calls, db, pc, args, at, covered, smatch_set, due, saved, disturbed>>
vars == <<lineVars, callVars>>

Absent      == [state |-> "absent", holds |-> {}]
Torn        == [state |-> "torn", holds |-> {}]
Whole(set)  == [state |-> "whole", holds |-> set]

NoArgs == [items |-> <<>>, smatch |-> FALSE, combine_cov_files |-> FALSE,
           ignore_errors |-> FALSE, load |-> FALSE, save |-> FALSE]

Init ==
  /\ LineInit
  /\ calls = 0
  /\ db = Absent
  /\ pc = [p \in Call |-> "off"]
  /\ args = [p \in Call |-> NoArgs]
  /\ at = [p \in Call |-> 1]
  /\ covered = [p \in Call |-> {}]
  /\ smatch_set = [p \in Call |-> {}]
  /\ due = [p \in Call |-> {}]
  /\ saved = {}
  /\ disturbed = FALSE

Become(p, location) == pc' = [pc EXCEPT ![p] = location]

(* A call has ended with an error, or was killed, and prints no report.    *)
Gone(p) ==
  /\ Become(p, "off")
  /\ args' = [args EXCEPT ![p] = NoArgs]
  /\ at' = [at EXCEPT ![p] = 1]
  /\ covered' = [covered EXCEPT ![p] = {}]
  /\ smatch_set' = [smatch_set EXCEPT ![p] = {}]
  /\ due' = [due EXCEPT ![p] = {}]
-----------------------------------------------------------------------------
(* What a call reads of an input item.                                     *)

(* Without smatch_match_rust.lst, which nothing writes any more.           *)
LINECOV_FILES == <<"linecov", "smatch_match", "addr2line">>

Exists(item) == item[2] = "dir" \/ file[item[1]][item[2]].exists

(* The coverage files of a workdir that exist, as places in the list.      *)
Existing(w) == {i \in DOMAIN LINECOV_FILES : file[w][LINECOV_FILES[i]].exists}

(* Mutant: the last file takes the place of the first.                     *)
LastFile(w, combine) ==
  UNION {Known(file[w][LINECOV_FILES[i]]) :
           i \in {j \in Existing(w) : combine \/ \A k \in Existing(w) : j >= k}}

(* The first file that exists, or with --combine-cov-files all of them.    *)
WorkdirCoverage(w, combine) ==
  UNION {Known(file[w][LINECOV_FILES[i]]) :
           i \in {j \in Existing(w) : combine \/ \A k \in Existing(w) : j <= k}}

(* try_get_coverage: a path that does not exist is no workdir, and has no  *)
(* coverage files either; both end the call without --ignore-errors.       *)
try_get_coverage(a, item) ==
  IF item[2] = "dir" THEN WorkdirCoverage(item[1], a.combine_cov_files)
  ELSE IF Exists(item) THEN Known(file[item[1]][item[2]])
  ELSE {}
NoCoverage(item) ==
  IF item[2] = "dir" THEN Existing(item[1]) = {} ELSE ~ Exists(item)

(* try_find_smatch_file and parse_smatch_file: the report of a workdir is  *)
(* the annotated one if it has one; a coverage file has none of its own.   *)
HasReport(a, item) ==
  \/ a.smatch
  \/ item[2] = "dir" /\ item[1] \in (DOMAIN AnnotatedOf \cup DOMAIN WarnsOf)
Report(a, item) ==
  IF a.smatch THEN GivenReport
  ELSE IF ~ HasReport(a, item) THEN {}
  ELSE IF item[1] \in DOMAIN AnnotatedOf THEN AnnotatedOf[item[1]]
  ELSE WarnsOf[item[1]]

(* Exits with --ignore-errors or without: a coverage file cannot do        *)
(* without --smatch.                                                       *)
Refused(a, item) ==
  \/ ~ a.ignore_errors /\ (NoCoverage(item) \/ ~ HasReport(a, item))
  \/ ~ a.smatch /\ item[2] # "dir" /\ Exists(item)

On(entries, lines) == {e \in entries : e[2] \in lines}
-----------------------------------------------------------------------------
(* The steps of a call.                                                    *)

(* --load does not ask whether the database exists; what a writer has left *)
(* incomplete cannot be unpickled.                                         *)
Start(p) ==
  /\ pc[p] \in {"off", "done"}
  /\ calls < MaxCalls
  /\ calls' = calls + 1
  /\ \E a \in Options :
       \/ a.load /\ db.state # "whole" /\ Gone(p)
       \/ /\ a.load => db.state = "whole"
          /\ Become(p, "matching")
          /\ args' = [args EXCEPT ![p] = a]
          /\ at' = [at EXCEPT ![p] = 1]
          /\ covered' = [covered EXCEPT ![p] = IF a.load THEN db.holds ELSE {}]
          /\ smatch_set' = [smatch_set EXCEPT ![p] = {}]
          /\ due' = [due EXCEPT ![p] = {}]
  /\ UNCHANGED <<lineVars, db, saved, disturbed>>

(* The executed lines that a coverage file has to have, once it is whole.  *)
Expected(w, name) ==
  IF name \in spoiled[w] \/ step[w] # "idle" \/ ~ file[w][name].relative THEN {}
  ELSE CASE name = "linecov"      -> LinesOf(executed[w])
         [] name = "smatch_match" -> ReportLines(w) \cap LinesOf(executed[w] \cap Endpoint)
         [] name = "addr2line"    -> LinesOf(executed[w] \cap Endpoint)
         [] OTHER -> {}

(* What an item has to count: a workdir what each of its files has to have *)
(* if they are combined, and otherwise what the first that is there has.   *)
Due(a, item) ==
  LET w == item[1]
      none(names) == \A n \in names : ~ file[w][n].exists
      used == IF item[2] # "dir" THEN {item[2]}
              ELSE IF a.combine_cov_files THEN {"linecov", "smatch_match", "addr2line"}
              ELSE {"linecov"}
                     \cup {n \in {"smatch_match"} : none({"linecov"})}
                     \cup {n \in {"addr2line"} : none({"linecov", "smatch_match"})}
  IN  On(Report(a, item), UNION {Expected(w, n) : n \in used})

(* Mutant: the coverage of an item counts for all the reports read so far. *)
MatchItemWithAll(p) ==
  LET a == args[p]
      item == a.items[at[p]]
  IN  /\ pc[p] = "matching"
      /\ at[p] <= Len(a.items)
      /\ ~ Refused(a, item)
      /\ smatch_set' = [smatch_set EXCEPT ![p] = @ \cup Report(a, item)]
      /\ covered' = [covered EXCEPT ![p] =
           @ \cup On(smatch_set[p] \cup Report(a, item), try_get_coverage(a, item))]
      /\ due' = [due EXCEPT ![p] = @ \cup Due(a, item)]
      /\ at' = [at EXCEPT ![p] = @ + 1]
      /\ UNCHANGED <<lineVars, calls, db, pc, args, saved, disturbed>>

(* The coverage of an item counts only for the entries of its own report.  *)
MatchItem(p) ==
  LET a == args[p]
      item == a.items[at[p]]
  IN  /\ pc[p] = "matching"
      /\ at[p] <= Len(a.items)
      /\ \/ Refused(a, item) /\ Gone(p)
         \/ /\ ~ Refused(a, item)
            /\ smatch_set' = [smatch_set EXCEPT ![p] = @ \cup Report(a, item)]
            /\ covered' = [covered EXCEPT ![p] =
                 @ \cup On(Report(a, item), try_get_coverage(a, item))]
            /\ due' = [due EXCEPT ![p] = @ \cup Due(a, item)]
            /\ at' = [at EXCEPT ![p] = @ + 1]
            /\ UNCHANGED <<pc, args>>
      /\ UNCHANGED <<lineVars, calls, db, saved, disturbed>>

(* Without --save the report is printed.                                   *)
Finish(p) ==
  /\ pc[p] = "matching"
  /\ at[p] > Len(args[p].items)
  /\ ~ args[p].save
  /\ Become(p, "done")
  /\ UNCHANGED <<lineVars, calls, db, args, at, covered, smatch_set, due, saved, disturbed>>

Saving(q) == pc[q] \in {"merged", "writing", "mixing"}

(* Mutant: the database is replaced, not added to.                         *)
MergeNothing(p) ==
  /\ pc[p] = "matching"
  /\ at[p] > Len(args[p].items)
  /\ args[p].save
  /\ Become(p, "merged")
  /\ disturbed' = (disturbed \/ \E q \in Call : Saving(q))
  /\ UNCHANGED <<lineVars, calls, db, args, at, covered, smatch_set, due, saved>>

(* --save: an existing database is read and added to covered.              *)
Merge(p) ==
  /\ pc[p] = "matching"
  /\ at[p] > Len(args[p].items)
  /\ args[p].save
  /\ \/ db.state = "torn" /\ Gone(p) /\ UNCHANGED disturbed
     \/ /\ db.state # "torn"
        /\ Become(p, "merged")
        /\ covered' = [covered EXCEPT ![p] = @ \cup db.holds]
        /\ disturbed' = (disturbed \/ \E q \in Call : Saving(q))
        /\ UNCHANGED <<args, at, smatch_set, due>>
  /\ UNCHANGED <<lineVars, calls, db, saved>>

(* open(args.db_file, "wb+") truncates the file.                           *)
Open(p) ==
  /\ pc[p] = "merged"
  /\ Become(p, "writing")
  /\ db' = Torn
  /\ UNCHANGED <<lineVars, calls, args, at, covered, smatch_set, due, saved, disturbed>>

(* pickle.dump.  Two calls that have the file open write over each other,  *)
(* each from its start: until the last of them has finished, and perhaps   *)
(* after it, the file holds parts of both.                                 *)
Dump(p) ==
  LET others == {q \in Call \ {p} : pc[q] \in {"writing", "mixing"}}
  IN  /\ pc[p] \in {"writing", "mixing"}
      /\ pc' = [q \in Call |-> IF q = p THEN "done" ELSE IF q \in others THEN "mixing" ELSE pc[q]]
      /\ \/ db' = Whole(covered[p])
         \/ (others # {} \/ pc[p] = "mixing") /\ db' = Torn
      /\ saved' = saved \cup covered[p]
      /\ UNCHANGED <<lineVars, calls, args, at, covered, smatch_set, due, disturbed>>

(* One that dies while it writes leaves what has reached the file.         *)
KillCall(p) ==
  /\ pc[p] \notin {"off", "done"}
  /\ Gone(p)
  /\ disturbed' = (disturbed \/ pc[p] \in {"writing", "mixing"})
  /\ db' = IF pc[p] \in {"writing", "mixing"} THEN Torn ELSE db
  /\ UNCHANGED <<lineVars, calls, saved>>

CallStep(p) ==
  \/ Start(p) \/ MatchItem(p) \/ Finish(p)
  \/ Merge(p) \/ Open(p) \/ Dump(p) \/ KillCall(p)

Next ==
  \/ \E w \in Workdir : LineStep(w) /\ UNCHANGED callVars
  \/ \E p \in Call : CallStep(p)

Spec == Init /\ [][Next]_vars
-----------------------------------------------------------------------------
(* Types of the state.                                                     *)
TypeOK ==
  /\ \A w \in Workdir : executed[w] \subseteq Reach[w]
  /\ step \in [Workdir -> {"idle", "fast", "fast_strip", "ghidra", "listing", "decode",
                            "decoding", "strip", "match", "matching"}]
  /\ \A w \in Workdir : \A n \in Name :
       /\ file[w][n].exists \in BOOLEAN /\ file[w][n].relative \in BOOLEAN
       /\ file[w][n].holds \subseteq IF n = "addr" THEN Addr ELSE Line
  /\ spoiled \in [Workdir -> SUBSET {"linecov", "smatch_match", "addr2line"}]
  /\ calls \in 0..MaxCalls
  /\ db.state \in {"absent", "torn", "whole"} /\ db.holds \subseteq Entry
  /\ pc \in [Call -> {"off", "matching", "merged", "writing", "mixing", "done"}]
  /\ args \in [Call -> Options \cup {NoArgs}]
  /\ \A p \in Call : at[p] \in 1..(Len(args[p].items) + 1)
  /\ covered \in [Call -> SUBSET Entry]
  /\ smatch_set \in [Call -> SUBSET Entry]
  /\ due \in [Call -> SUBSET Entry]
  /\ saved \subseteq Entry
  /\ disturbed \in BOOLEAN

(* An entry is in the database only if some workdir executed its line and  *)
(* that workdir's report, or the one given with --smatch, has the entry:   *)
(* neither an incomplete file nor a concurrent or killed call adds any.    *)
Justified ==
  {e \in Entry : \E w \in Workdir :
     /\ e[2] \in LinesOf(executed[w])
     /\ \E smatch \in BOOLEAN : e \in Report([NoArgs EXCEPT !.smatch = smatch], <<w, "dir">>)}
DbJustified == db.holds \subseteq Justified

(* Savers that neither overlap nor die while they write lose nothing that  *)
(* any of them has ever saved, whatever happens to the other calls.        *)
NothingLost ==
  ~ disturbed =>
    IF db.state = "torn" THEN \E p \in Call : pc[p] = "writing" ELSE db.holds = saved

(* What a workdir has executed is counted, under its own report, if the    *)
(* coverage file that is used, with --combine-cov-files one of them, was   *)
(* made after the last traces and nothing interrupted that, whichever      *)
(* other files there are besides, empty, cut off or out of date.           *)
DueCounted == \A p \in Call : due[p] \subseteq covered[p]
=============================================================================
