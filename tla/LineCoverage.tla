---------------------------- MODULE LineCoverage ----------------------------
(***************************************************************************)
(* What bkc/kafl/fuzz.sh smatch derives from the traces of a workdir:      *)
(* bkc/kafl/gen_addr2line.sh decodes the traced addresses to source lines  *)
(* and bkc/kafl/smatch_match.py picks those the smatch report names;       *)
(* fast_matcher does both at once.  Files are created empty and filled     *)
(* later, and two of them are never made again once they exist, whether    *)
(* the step that was to fill them has succeeded or not.                    *)
(*                                                                         *)
(* Each workdir has at most one fuzz.sh smatch at a time.  It may be       *)
(* killed, and more traces may be collected between two of them.           *)
(***************************************************************************)
EXTENDS Naturals, FiniteSets

CONSTANTS
  Workdir,   (* the workdirs                                               *)
  Addr,      (* addresses of the traced kernel                             *)
  Endpoint,  (* those at which a basic block starts or ends                *)
  Line,      (* file:line                                                  *)
  LinesAt,   (* the lines of an address, those it is inlined into included *)
  WarnsOf,   (* the entries <<class, line, function>> in smatch_warns.txt  *)
             (* of the workdirs that have one                              *)
  DefaultWarns, (* those in $BKC_ROOT/smatch_warns.txt                     *)
  Modes,     (* the settings of USE_FAST_MATCHER and USE_GHIDRA in use     *)
  Reach      (* bound: the addresses that each workdir may come to execute *)

ASSUME LinesAssumption ==
  /\ Endpoint \subseteq Addr
  /\ LinesAt \in [Addr -> SUBSET Line]
  /\ Modes \in [Workdir -> SUBSET {"fast", "slow", "ghidra"}]
  /\ Reach \in [Workdir -> SUBSET Addr]

VARIABLES
  executed,  (* the addresses in the traces; none if there are no traces   *)
  step,      (* what fuzz.sh smatch does in the workdir                    *)
  file,      (* the files derived from the traces                          *)
  spoiled    (* history: the coverage files that are out of date, or that  *)
             (* something has got in the way of                            *)

lineVars == <<executed, step, file, spoiled>>

(* traces/linecov.lst, smatch_match.lst, addr2line.lst and addr_uniq.lst.  *)
Name == {"linecov", "smatch_match", "addr2line", "addr"}

(* A file that does not exist, and one that holds some lines, with paths   *)
(* as the debug information has them or relative to the kernel tree.       *)
(* addr_uniq.lst holds addresses.                                          *)
NoFile == [exists |-> FALSE, holds |-> {}, relative |-> FALSE]
Holding(content, relative) == [exists |-> TRUE, holds |-> content, relative |-> relative]
Empty == Holding({}, FALSE)

LinesOf(addrs) == UNION {LinesAt[a] : a \in addrs}
ReportLines(w) == {e[2] : e \in IF w \in DOMAIN WarnsOf THEN WarnsOf[w] ELSE DefaultWarns}

LineInit ==
  /\ executed = [w \in Workdir |-> {}]
  /\ step = [w \in Workdir |-> "idle"]
  /\ file = [w \in Workdir |-> [n \in Name |-> NoFile]]
  /\ spoiled = [w \in Workdir |-> {}]

Write(w, name, content) == file' = [file EXCEPT ![w][name] = content]
Goto(w, location) == step' = [step EXCEPT ![w] = location]
Spoil(w, names) == spoiled' = [spoiled EXCEPT ![w] = @ \cup names]
Renew(w, name) == spoiled' = [spoiled EXCEPT ![w] = @ \ {name}]

(* fuzz.sh cov: kAFL executes the corpus again, which has grown, and       *)
(* writes traces/ and edges_uniq.lst.  Whatever was derived is out of date *)
(* if that brings anything new.                                            *)
Collect(w) ==
  /\ step[w] = "idle"
  /\ \E more \in SUBSET (Reach[w] \ executed[w]) \ {{}} :
       executed' = [executed EXCEPT ![w] = @ \cup more]
  /\ Spoil(w, {n \in Name \ {"addr"} : file[w][n].exists}
                \cup {n \in {"addr2line"} : file[w]["addr"].exists})
  /\ UNCHANGED <<step, file>>
-----------------------------------------------------------------------------
(* USE_FAST_MATCHER=1: the shell truncates linecov.lst, fast_matcher       *)
(* prints the lines of all executed addresses to it, and the paths are     *)
(* made relative to the kernel tree.                                       *)
StartFast(w) ==
  /\ step[w] = "idle"
  /\ "fast" \in Modes[w]
  /\ executed[w] # {}
  /\ Write(w, "linecov", Empty)
  /\ Goto(w, "fast")
  /\ Renew(w, "linecov")
  /\ UNCHANGED executed

FinishFast(w) ==
  /\ step[w] = "fast"
  /\ Write(w, "linecov", Holding(LinesOf(executed[w]), FALSE))
  /\ Goto(w, "fast_strip")
  /\ UNCHANGED <<executed, spoiled>>

(* strip_addr2line_absolute_path.sh; sed -i replaces the file at once.     *)
StripFast(w) ==
  /\ step[w] = "fast_strip"
  /\ Write(w, "linecov", [file[w]["linecov"] EXCEPT !.relative = TRUE])
  /\ Goto(w, "idle")
  /\ UNCHANGED <<executed, spoiled>>
-----------------------------------------------------------------------------
(* USE_FAST_MATCHER=0: gen_addr2line.sh does nothing if there is an        *)
(* addr2line.lst, decodes an existing addr_uniq.lst, or the block list, or *)
(* with USE_GHIDRA=1 first has Ghidra list all executed addresses.         *)
StartSlow(w) ==
  /\ step[w] = "idle"
  /\ executed[w] # {}
  /\ \E mode \in Modes[w] \ {"fast"} :
       Goto(w, IF file[w]["addr2line"].exists THEN "strip"
               ELSE IF mode = "slow" \/ file[w]["addr"].exists THEN "decode"
               ELSE "ghidra")
  /\ UNCHANGED <<executed, file, spoiled>>

(* Ghidra has ended, and the shell creates addr_uniq.lst.                  *)
RunGhidra(w) ==
  /\ step[w] = "ghidra"
  /\ Write(w, "addr", Empty)
  /\ Goto(w, "listing")
  /\ UNCHANGED <<executed, spoiled>>

(* grep | sed > addr_uniq.lst; with nothing to grep for, pipefail ends the *)
(* script, and the empty file stays.                                       *)
ListAddrs(w) ==
  /\ step[w] = "listing"
  /\ \/ /\ Write(w, "addr", Holding(executed[w], FALSE))
        /\ Goto(w, "decode") /\ UNCHANGED spoiled
     \/ /\ UNCHANGED file
        /\ Goto(w, "idle") /\ Spoil(w, {"addr2line"})
  /\ UNCHANGED executed

(* The addresses that eu-addr2line is given.                               *)
Decoded(w) ==
  IF file[w]["addr"].exists THEN file[w]["addr"].holds ELSE executed[w] \cap Endpoint

(* The shell creates addr2line.lst before eu-addr2line reads anything.     *)
Truncate(w) ==
  /\ step[w] = "decode"
  /\ Write(w, "addr2line", Empty)
  /\ Goto(w, "decoding")
  /\ UNCHANGED <<executed, spoiled>>

(* Mutant: the addresses are copied as they are.                           *)
DecodeNothing(w) ==
  /\ step[w] = "decoding"
  /\ Write(w, "addr2line", Holding(Decoded(w), FALSE))
  /\ Goto(w, "strip")
  /\ UNCHANGED <<executed, spoiled>>

(* A failure of eu-addr2line is ignored: the list ends where it failed.    *)
Decode(w) ==
  /\ step[w] = "decoding"
  /\ \/ /\ Write(w, "addr2line", Holding(LinesOf(Decoded(w)), FALSE))
        /\ UNCHANGED spoiled
     \/ /\ \E part \in SUBSET LinesOf(Decoded(w)) : Write(w, "addr2line", Holding(part, FALSE))
        /\ Spoil(w, {"addr2line"})
  /\ Goto(w, "strip")
  /\ UNCHANGED executed

Strip(w) ==
  /\ step[w] = "strip"
  /\ Write(w, "addr2line", [file[w]["addr2line"] EXCEPT !.relative = TRUE])
  /\ Goto(w, "match")
  /\ UNCHANGED <<executed, spoiled>>

(* parse_addr2line: the keys of line2addr.  A line with a path that is not *)
(* relative is none the report names.                                      *)
Known(f) == IF f.relative THEN f.holds ELSE {}

(* smatch_match.py | sort -u > smatch_match.lst, created empty.            *)
StartMatch(w) ==
  /\ step[w] = "match"
  /\ Write(w, "smatch_match", Empty)
  /\ Goto(w, "matching")
  /\ UNCHANGED <<executed, spoiled>>

(* main: the lines of the report that are in addr2line.lst.                *)
Match(w) ==
  /\ step[w] = "matching"
  /\ Write(w, "smatch_match", Holding(ReportLines(w) \cap Known(file[w]["addr2line"]), TRUE))
  /\ Goto(w, "idle")
  /\ IF "addr2line" \in spoiled[w] THEN Spoil(w, {"smatch_match"}) ELSE Renew(w, "smatch_match")
  /\ UNCHANGED executed
-----------------------------------------------------------------------------
(* fuzz.sh smatch is killed; a file that was being written keeps what has  *)
(* reached it.                                                             *)
Partial(w) ==
  CASE step[w] = "listing"  -> {<<"addr", p>> : p \in SUBSET executed[w]}
    [] step[w] = "decoding" -> {<<"addr2line", p>> : p \in SUBSET LinesOf(Decoded(w))}
    [] step[w] = "fast"     -> {<<"linecov", p>> : p \in SUBSET LinesOf(executed[w])}
    [] OTHER -> {}

Kill(w) ==
  /\ step[w] # "idle"
  /\ \/ \E p \in Partial(w) : Write(w, p[1], Holding(p[2], FALSE))
     \/ Partial(w) = {} /\ UNCHANGED file
  /\ Goto(w, "idle")
  /\ Spoil(w, {n \in {"addr2line"} : step[w] \in {"listing", "decoding"}})
  /\ UNCHANGED executed

LineStep(w) ==
  \/ Collect(w)
  \/ StartFast(w) \/ FinishFast(w) \/ StripFast(w)
  \/ StartSlow(w) \/ RunGhidra(w) \/ ListAddrs(w) \/ Truncate(w) \/ Decode(w) \/ Strip(w)
  \/ StartMatch(w) \/ Match(w) \/ Kill(w)
=============================================================================
