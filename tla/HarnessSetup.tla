---------------------------- MODULE HarnessSetup -----------------------------
(***************************************************************************)
(* bkc/kafl/init_harness.py writes a directory with the configuration of   *)
(* each selected harness; bkc/kafl/pipeline.py calls it for a campaign     *)
(* that does not exist yet, and schedules every directory that has a       *)
(* kafl.yaml; bkc/kafl/fuzz.sh build makes the .config of the kernel.      *)
(*                                                                         *)
(* Calls come one after the other.  One may stop anywhere: it is killed,   *)
(* or what it needs next is missing.                                       *)
(***************************************************************************)
EXTENDS Naturals, Sequences, FiniteSets

CONSTANTS
  HARNESSES,  (* the supported harnesses, in their order                   *)
  Kind,       (* of a harness: "BOOT", "DOINITCALLS", "BPH", "US"          *)
  Own,        (* the rest of its name, which names a Kconfig choice        *)
  Matches,    (* the harnesses that contain a pattern                      *)
  Templates,  (* the options that are set in each kernel .config template  *)
  SeedDirs,   (* the subdirectories of each seeds directory                *)
  Sharedirs,  (* what $BKC_ROOT/sharedir may hold when a call is made      *)
  Requests,   (* the command lines in use                                  *)
  Missing,    (* what may be missing when a call is made                   *)
  MaxCalls    (* bound: how many calls are made                            *)

Harness == {HARNESSES[i] : i \in DOMAIN HARNESSES}

(* A template or a seeds directory that does not exist is in no domain.    *)
(* Every name contains the empty pattern, none contains "all".             *)
ASSUME SetupAssumption ==
  /\ HARNESSES \in Seq(Harness)
  /\ \A i, j \in DOMAIN HARNESSES : HARNESSES[i] = HARNESSES[j] => i = j
  /\ Kind \in [Harness -> {"BOOT", "DOINITCALLS", "BPH", "US"}]
  /\ DOMAIN Own = Harness
  /\ \A p \in DOMAIN Matches :
       /\ Matches[p] \subseteq Harness
       /\ p = "" => Matches[p] = Harness
       /\ p = "all" => Matches[p] = {}
  /\ Requests \subseteq [pattern : DOMAIN Matches, template : STRING, seeds : STRING]
  /\ \A s \in Sharedirs : \A x, y \in s : x[1] = y[1] => x = y
  /\ Missing \subseteq {"sharedir", "initrd", "KAFL_CONFIG_FILE"}
  /\ MaxCalls \in Nat

VARIABLES
  calls,     (* how many calls were made                                   *)
  call,      (* the command line of the last one, and what was there then  *)
  pc,        (* what it does                                               *)
  todo,      (* the places in HARNESSES of those that are left             *)
  at,        (* the file in hand                                           *)
  open,      (* is it open for writing?                                    *)
  root,      (* does the campaign directory exist?                         *)
  dir,       (* the files of each harness                                  *)
  scheduled, (* harness_dirs                                               *)
  spoiled    (* history: harnesses left with an older or torn kafl.yaml    *)

vars == <<calls, call, pc, todo, at, open, root, dir, scheduled, spoiled>>
-----------------------------------------------------------------------------
(* What the files are to hold: options with their values.                  *)

(* dict.update                                                             *)
Update(f, g) ==
  [o \in DOMAIN f \cup DOMAIN g |-> IF o \in DOMAIN g THEN g[o] ELSE f[o]]

(* CONFIG_TDX_FUZZ_HARNESS_*, of which Kconfig allows one, is named as a   *)
(* pair; of the others those are modelled that are set in several places.  *)
Choice(name) == <<"HARNESS", name>>
Set(name, value) == [o \in {name} |-> value]
Plain(name) == <<"KAFL", name>>

default_kafl_options ==
  Update(Set(Plain("DETERMINISTIC"), "y"),
  Update(Set(Plain("DEBUGFS"), "n"),
  Update(Set(Plain("SKIP_ACPI_PIO"), "n"), Set(Plain("SKIP_PARAVIRT_REWRITE"), "n"))))

type_options(h) ==
  CASE Kind[h] = "BOOT"        -> Set(Choice(Own[h]), "y")
    [] Kind[h] = "DOINITCALLS" -> Update(Set(Choice("DOINITCALLS"), "y"),
                                         Set(Plain("DOINITCALLS_LEVEL"), Own[h]))
    [] Kind[h] = "BPH"         -> Set(Choice("NONE"), "y")
    [] Kind[h] = "US"          -> Update(Set(Choice("NONE"), "y"),
                                    Update(Set(Plain("DETERMINISTIC"), "n"),
                                           Set(Plain("DEBUGFS"), "y")))

harness_options(h) ==
  CASE h = "BOOT_EARLYBOOT"    -> Set(Plain("SKIP_PARAVIRT_REWRITE"), "n")
    [] h = "BOOT_FULL_BOOT"    -> Set(Plain("SKIP_PARAVIRT_REWRITE"), "y")
    [] h = "BOOT_POST_TRAP"    -> Update(Set(Plain("SKIP_ACPI_PIO"), "y"),
                                         Set(Plain("SKIP_PARAVIRT_REWRITE"), "y"))
    [] h \in {"BOOT_DOINITCALLS_PCI", "BOOT_START_KERNEL"} ->
                                  Set(Plain("SKIP_ACPI_PIO"), "y")
    [] OTHER                   -> <<>>

(* Mutant: the defaults are applied last.                                  *)
DefaultsLast(h) ==
  Update(type_options(h), Update(harness_options(h), default_kafl_options))

generate_setups(h) ==
  Update(Update(default_kafl_options, type_options(h)), harness_options(h))

(* kafl.yaml sets options that are set twice to the later value.           *)
abort_time(h) ==
  CASE h \in {"BOOT_FULL_BOOT", "BOOT_DO_BASIC"} -> "12"
    [] h \in {"BOOT_DOINITCALLS_VIRTIO", "BPH_VIRTIO_PCI_PROBE"} -> "4"
    [] OTHER -> "2"

BOOT_PARAM_HARNESSES == {h \in Harness : Kind[h] = "BPH"}

select_seed_root(seeds, h) ==
  IF h \in SeedDirs[seeds] THEN <<seeds, h>>
  ELSE IF "generic" \in SeedDirs[seeds] THEN <<seeds, "generic">>
  ELSE <<seeds>>

(* A setting that is not made is absent.                                   *)
kafl_config(c, h) ==
  {<<"abort_time", abort_time(h)>>}
    \cup {<<"sharedir", s>> : s \in {k \in {h} : Kind[k] = "US"}}
    \cup {<<"seed_dir", select_seed_root(s, h)>> : s \in {c.seeds} \ {"none"}}
    \cup {<<"qemu_append", s>> : s \in {h} \cap BOOT_PARAM_HARNESSES}

Settings(f) == {<<o, f[o]>> : o \in DOMAIN f}

(* copytree with dirs_exist_ok: files of the same name are replaced, those *)
(* that only the old directory has stay.                                   *)
Over(old, new) == new \cup {s \in old : \A t \in new : t[1] # s[1]}

(* Mutant: the kAFL configuration comes first.                             *)
StepsKaflFirst == <<"kafl", "linux", "template", "sharedir">>

(* The files of a harness directory, in the order they are written; one    *)
(* of them is a directory, the sharedir.                                   *)
Steps == <<"linux", "template", "sharedir", "kafl">>

Content(c, h, f) ==
  CASE f = "linux"    -> Settings(generate_setups(h))
    [] f = "template" -> Settings(Templates[c.template])
    [] f = "sharedir" -> Over(c.share, {<<"init.sh", Own[h]>>})
    [] f = "kafl"     -> kafl_config(c, h)

NoFile == [state |-> "none", call |-> 0, holds |-> {}]
Torn(content) == [state |-> "torn", call |-> 0, holds |-> content]
Whole(n, content) == [state |-> "whole", call |-> n, holds |-> content]
-----------------------------------------------------------------------------
NoCall == [by |-> "none", pattern |-> "", template |-> "", seeds |-> "none",
           share |-> {}, missing |-> {}, had |-> {}, inits |-> FALSE]

Init ==
  /\ calls = 0
  /\ call = NoCall
  /\ pc = "idle"
  /\ todo = {}
  /\ at = 1
  /\ open = FALSE
  /\ root = FALSE
  /\ dir = [h \in Harness |-> [f \in {Steps[i] : i \in DOMAIN Steps} |-> NoFile]]
  /\ scheduled = {}
  /\ spoiled = {}

(* init_harness.parse_args: "all" is no pattern, "list" selects nothing.   *)
(* What is selected are places in HARNESSES.                               *)
Selected(pattern) ==
  {i \in DOMAIN HARNESSES :
     pattern # "list" /\ (pattern = "all" \/ HARNESSES[i] \in Matches[pattern])}

(* Mutant: the pattern is not passed on.                                   *)
InitAlways(pattern) == "all"

(* The pattern that pipeline.init_campaign passes on.                      *)
InitPattern(pattern) == IF pattern = "" THEN "all" ELSE pattern

Accepted(r) ==
  /\ Selected(r.pattern) # {}
  /\ r.template \in DOMAIN Templates
  /\ r.seeds \in DOMAIN SeedDirs \cup {"none"}

Configured == {h \in Harness : dir[h]["kafl"].state # "none"}

NewCall(by, r, share, missing) ==
  /\ pc \in {"idle", "initialised", "scheduled", "unmatched"}
  /\ calls < MaxCalls
  /\ calls' = calls + 1
  /\ call' = [by |-> by, pattern |-> r.pattern, template |-> r.template, seeds |-> r.seeds,
              share |-> share, missing |-> missing, had |-> Configured,
              inits |-> by = "init_harness" \/ ~ root]
  /\ at' = 1
  /\ scheduled' = {}
  /\ UNCHANGED <<open, root, dir, spoiled>>

(* init_harness.py, by hand: up to the loop over the harnesses.            *)
InitHarness(r, share, missing) ==
  /\ NewCall("init_harness", r, share, missing)
  /\ todo' = IF Accepted(r) THEN Selected(r.pattern) ELSE {}
  /\ pc' = IF Accepted(r) THEN "makedirs" ELSE "idle"

(* pipeline.py: init_harness.py is run only without a campaign directory.  *)
StartPipeline(r, share, missing) ==
  LET i == [r EXCEPT !.pattern = InitPattern(@)] IN
  /\ NewCall("pipeline", r, share, missing)
  /\ todo' = IF ~ root /\ Accepted(i) THEN Selected(i.pattern) ELSE {}
  /\ pc' = IF root THEN "initialised" ELSE IF Accepted(i) THEN "makedirs" ELSE "idle"

(* Mutant: all files are created before the first is written, as the code  *)
(* that is commented out would do in front of the loop.                    *)
MakeDirsTestCreate ==
  /\ pc = "makedirs"
  /\ root' = TRUE
  /\ at' = 1
  /\ pc' = "writing"
  /\ dir' = [h \in Harness |->
              IF \E i \in todo : h = HARNESSES[i]
              THEN [dir[h] EXCEPT !["linux"] = Torn({}), !["template"] = Torn({})]
              ELSE dir[h]]
  /\ UNCHANGED <<calls, call, todo, open, scheduled, spoiled>>

(* os.makedirs, the first of which makes the campaign directory as well.   *)
MakeDirs ==
  /\ pc = "makedirs"
  /\ root' = TRUE
  /\ at' = 1
  /\ pc' = "writing"
  /\ UNCHANGED <<calls, call, todo, open, dir, scheduled, spoiled>>

(* What a step ends the call for.  The sharedir is not for all harnesses,  *)
(* but required for all.                                                   *)
Needs(h, f) ==
  CASE f = "sharedir" -> {"sharedir", "initrd"}
    [] f = "kafl" /\ h \in BOOT_PARAM_HARNESSES -> {"KAFL_CONFIG_FILE"}
    [] OTHER -> {}

First == CHOOSE i \in todo : \A j \in todo : i <= j
InHand == HARNESSES[First]
File == Steps[at]

(* The harness in hand keeps an older kafl.yaml, or has half of a new one. *)
Spoil ==
  spoiled' = spoiled \cup
    {h \in {InHand} : pc = "writing" /\ (h \in call.had \/ (open /\ File = "kafl"))}

Stop ==
  /\ pc' = "idle"
  /\ todo' = {}
  /\ open' = FALSE
  /\ Spoil

(* The call ends, or raises, because of what is missing.                   *)
Fail ==
  /\ pc = "writing" /\ ~ open /\ at <= Len(Steps)
  /\ Needs(InHand, File) \cap call.missing # {}
  /\ Stop
  /\ UNCHANGED <<calls, call, at, root, dir, scheduled>>

(* Only harnesses that run in userspace get a sharedir.                    *)
Skipped(h, f) == f = "sharedir" /\ Kind[h] # "US"

(* What stays of a file that is written over.                              *)
Kept == IF File = "sharedir" THEN dir[InHand][File].holds ELSE {}

(* A file that open() has truncated.  Of the files that are copied to the  *)
(* sharedir, each may still be the old one, be cut off, or be the new one. *)
Truncated ==
  Torn(Over(Kept, {<<s[1], "torn">> :
         s \in {new \in Content(call, InHand, File) : File = "sharedir"}}))

(* Mutant: a file that is there already is not written again.              *)
OpenNew ==
  /\ pc = "writing" /\ ~ open /\ at <= Len(Steps)
  /\ Needs(InHand, File) \cap call.missing = {}
  /\ IF Skipped(InHand, File) \/ dir[InHand][File].state = "whole"
     THEN at' = at + 1 /\ UNCHANGED <<open, dir>>
     ELSE open' = TRUE /\ dir' = [dir EXCEPT ![InHand][File] = Truncated] /\ UNCHANGED at
  /\ UNCHANGED <<calls, call, pc, todo, root, scheduled, spoiled>>

(* The call begins to write the next file, or skips it.                    *)
OpenFile ==
  /\ pc = "writing" /\ ~ open /\ at <= Len(Steps)
  /\ Needs(InHand, File) \cap call.missing = {}
  /\ IF Skipped(InHand, File)
     THEN at' = at + 1 /\ UNCHANGED <<open, dir>>
     ELSE open' = TRUE /\ dir' = [dir EXCEPT ![InHand][File] = Truncated] /\ UNCHANGED at
  /\ UNCHANGED <<calls, call, pc, todo, root, scheduled, spoiled>>

Filled == Whole(calls, Over(Kept, Content(call, InHand, File)))

(* Mutant: the file is not closed.                                         *)
FillOpen ==
  /\ pc = "writing" /\ open
  /\ dir' = [dir EXCEPT ![InHand][File] = Filled]
  /\ at' = at + 1
  /\ UNCHANGED <<calls, call, pc, todo, open, root, scheduled, spoiled>>

(* What was written is in the file once it is closed.                      *)
FillFile ==
  /\ pc = "writing" /\ open
  /\ dir' = [dir EXCEPT ![InHand][File] = Filled]
  /\ open' = FALSE
  /\ at' = at + 1
  /\ UNCHANGED <<calls, call, pc, todo, root, scheduled, spoiled>>

NextHarness ==
  /\ pc = "writing" /\ ~ open /\ at > Len(Steps)
  /\ todo' = todo \ {First}
  /\ pc' = IF todo' = {} THEN "initialised" ELSE "makedirs"
  /\ spoiled' = spoiled \ {InHand}
  /\ UNCHANGED <<calls, call, at, open, root, dir, scheduled>>

(* pipeline.main: the directories with a kafl.yaml that match --harness.   *)
HarnessDirs(pattern) ==
  IF pattern = "" THEN Configured ELSE Configured \cap Matches[pattern]

Schedule ==
  /\ pc = "initialised"
  /\ call.by = "pipeline"
  /\ scheduled' = HarnessDirs(call.pattern)
  /\ pc' = IF scheduled' = {} THEN "unmatched" ELSE "scheduled"
  /\ UNCHANGED <<calls, call, todo, at, open, root, dir, spoiled>>

(* The call is killed.                                                     *)
Kill ==
  /\ pc \in {"makedirs", "writing"}
  /\ Stop
  /\ UNCHANGED <<calls, call, at, root, dir, scheduled>>

Next ==
  \/ \E r \in Requests, share \in Sharedirs, missing \in SUBSET Missing :
       InitHarness(r, share, missing) \/ StartPipeline(r, share, missing)
  \/ MakeDirs \/ Fail \/ OpenFile \/ FillFile \/ NextHarness \/ Schedule \/ Kill

Spec == Init /\ [][Next]_vars
-----------------------------------------------------------------------------
(* fuzz.sh build: the harness options are appended to the template, and    *)
(* Kconfig takes the last value of an option and the last choice.          *)
build_harness(h) ==
  LET template == dir[h]["template"].holds
      linux == dir[h]["linux"].holds
      choices == {s[1] : s \in {t \in linux : t[1][1] = "HARNESS"}}
      replaced(o) == \/ \E s \in linux : s[1] = o
                     \/ o[1] = "HARNESS" /\ choices # {}
  IN  linux \cup {s \in template : ~ replaced(s[1])}
-----------------------------------------------------------------------------
(* Types of the state.                                                     *)
TypeOK ==
  /\ calls \in 0..MaxCalls
  /\ call.missing \subseteq Missing /\ call.had \subseteq Harness
  /\ pc \in {"idle", "makedirs", "writing", "initialised", "scheduled", "unmatched"}
  /\ todo \subseteq DOMAIN HARNESSES
  /\ pc \in {"makedirs", "writing"} => todo # {}
  /\ at \in 1..(Len(Steps) + 1)
  /\ open \in BOOLEAN
  /\ open => pc = "writing" /\ at <= Len(Steps)
  /\ root \in BOOLEAN
  /\ \A h \in Harness : \A i \in DOMAIN Steps : dir[h][Steps[i]].state \in {"none", "torn", "whole"}
  /\ scheduled \subseteq Harness
  /\ spoiled \subseteq Harness

(* All files of a harness are there, and from the same call.               *)
Complete(h) ==
  \A i \in DOMAIN Steps :
    LET f == dir[h][Steps[i]] IN
    \/ f.state = "whole" /\ f.call = dir[h]["kafl"].call
    \/ Skipped(h, Steps[i])

(* What the pipeline schedules is complete, wherever earlier calls stopped *)
(* between two files: kafl.yaml stands for all of them unless it was there *)
(* before, or was itself cut off.                                          *)
ScheduledComplete == pc = "scheduled" => \A h \in scheduled \ spoiled : Complete(h)

SetUp == {HARNESSES[i] : i \in Selected(InitPattern(call.pattern))}

(* A call that gets to its end leaves in every selected harness what it is *)
(* to write, in full, whatever an older call, stopped or not, has left     *)
(* there.  Older files stay in the sharedir, which is merged, but none     *)
(* under a name that the call copies.                                      *)
AllSetUp ==
  pc = "initialised" /\ call.inits =>
    \A h \in SetUp : \A i \in DOMAIN Steps :
      LET f == dir[h][Steps[i]]
          new == Content(call, h, Steps[i])
      IN  \/ Skipped(h, Steps[i])
          \/ /\ f.state = "whole"
             /\ new \subseteq f.holds
             /\ \A s \in f.holds \ new :
                  Steps[i] = "sharedir" /\ \A t \in new : t[1] # s[1]

(* Setting harnesses up again is not atomic: a call that stops leaves one  *)
(* under its older kafl.yaml with files of two calls, or torn ones.  It is *)
(* one for each call, however many the call has selected.                  *)
OneSpoiledPerCall == Cardinality({h \in Configured : ~ Complete(h)}) <= calls

(* The pipeline that sets a campaign up schedules all that it has set up,  *)
(* except for "all", which sets up everything and then matches nothing.    *)
FreshScheduled ==
  pc \in {"scheduled", "unmatched"} /\ call.inits =>
    scheduled = IF call.pattern = "all" THEN {} ELSE SetUp

(* The kernel of a complete harness is built with the options of its own,  *)
(* with those of its type that it does not set itself, and for one         *)
(* harness, whatever the defaults and the template set.                    *)
BuiltFor ==
  \A h \in Harness : Complete(h) =>
    LET config == build_harness(h) IN
    /\ Settings(harness_options(h)) \subseteq config
    /\ \A o \in DOMAIN type_options(h) \ DOMAIN harness_options(h) :
         <<o, type_options(h)[o]>> \in config
    /\ Cardinality({s \in config : s[1][1] = "HARNESS" /\ s[2] = "y"}) = 1
    /\ \A s, t \in config : s[1] = t[1] => s = t
=============================================================================
