--------------------------- MODULE SmatcherProofs ---------------------------
(***************************************************************************)
(* What holds of the coverage files and of smatcher for any workdirs,      *)
(* traces, reports and command lines, and any number of calls.             *)
(***************************************************************************)
EXTENDS Smatcher, TLAPS

File == [exists : BOOLEAN, holds : SUBSET (Addr \cup Line), relative : BOOLEAN]

Place == {"idle", "fast", "fast_strip", "ghidra", "listing", "decode", "decoding",
          "strip", "match", "matching"}
CoverageFile == {"linecov", "smatch_match", "addr2line"}

LineShape ==
  /\ executed \in [Workdir -> SUBSET Addr]
  /\ \A w \in Workdir : executed[w] \subseteq Reach[w]
  /\ step \in [Workdir -> Place]
  /\ file \in [Workdir -> [Name -> File]]
  /\ spoiled \in [Workdir -> SUBSET CoverageFile]

(* Every file of a workdir holds what was executed, or less.               *)
Derived(w) ==
  /\ file[w]["addr"].holds \subseteq executed[w] /\ ~ file[w]["addr"].relative
  /\ \A n \in Name \ {"addr"} : file[w][n].holds \subseteq LinesOf(executed[w])
  /\ \A n \in Name : file[w][n].relative => file[w][n].exists
  /\ step[w] = "strip" => file[w]["addr2line"].exists
  /\ step[w] = "fast_strip" => file[w]["linecov"].exists
  /\ step[w] \in {"match", "matching"} => file[w]["addr2line"].relative

(* One that nothing has got in the way of leaves nothing out.              *)
Needed(w) == LinesOf(executed[w] \cap Endpoint)
Decided(w) ==
  /\ "linecov" \notin spoiled[w] /\ (file[w]["linecov"].relative \/ step[w] = "fast_strip") =>
       LinesOf(executed[w]) \subseteq file[w]["linecov"].holds
  /\ "addr2line" \notin spoiled[w] =>
       /\ file[w]["addr"].exists /\ step[w] # "listing" => file[w]["addr"].holds = executed[w]
       /\ file[w]["addr2line"].exists /\ step[w] # "decoding" =>
            Needed(w) \subseteq file[w]["addr2line"].holds
  /\ "smatch_match" \notin spoiled[w] /\ file[w]["smatch_match"].relative =>
       ReportLines(w) \cap Needed(w) \subseteq file[w]["smatch_match"].holds

LineInv == LineShape /\ \A w \in Workdir : Derived(w) /\ Decided(w)

CallShape ==
  /\ calls \in 0..MaxCalls
  /\ db \in [state : {"absent", "torn", "whole"}, holds : SUBSET Entry]
  /\ pc \in [Call -> {"off", "matching", "merged", "writing", "mixing", "done"}]
  /\ args \in [Call -> Options \cup {NoArgs}]
  /\ at \in [Call -> Nat \ {0}]
  /\ \A p \in Call : at[p] \in 1..(Len(args[p].items) + 1)
  /\ covered \in [Call -> SUBSET Entry]
  /\ smatch_set \in [Call -> SUBSET Entry]
  /\ due \in [Call -> SUBSET Entry]
  /\ saved \subseteq Entry
  /\ disturbed \in BOOLEAN

(* Nothing is counted that was not executed.                               *)
Founded == DbJustified /\ \A p \in Call : covered[p] \subseteq Justified

(* Undisturbed savers take turns, and each has read what was saved before. *)
Turns ==
  ~ disturbed =>
    /\ \A p, q \in Call : Saving(p) /\ Saving(q) => p = q
    /\ \A p \in Call : pc[p] # "mixing"
    /\ \A p \in Call : Saving(p) => saved \subseteq covered[p]

Inv ==
  LineInv /\ CallShape /\ Founded /\ Turns /\ NothingLost /\ DueCounted
-----------------------------------------------------------------------------
(* The files of the workdirs.                                              *)

LEMMA LinesGrow ==
  /\ \A A \in SUBSET Addr : LinesOf(A) \subseteq Line
  /\ \A A, B : A \subseteq B => LinesOf(A) \subseteq LinesOf(B)
BY LinesAssumption DEF LinesOf

LEMMA Contents ==
  /\ NoFile \in File /\ Empty \in File /\ Empty.holds = {} /\ Empty.exists /\ ~ Empty.relative
  /\ ~ NoFile.exists /\ NoFile.holds = {} /\ ~ NoFile.relative
  /\ \A c \in SUBSET (Addr \cup Line), r \in BOOLEAN :
       /\ Holding(c, r) \in File
       /\ Holding(c, r).exists /\ Holding(c, r).holds = c /\ Holding(c, r).relative = r
BY DEF NoFile, Empty, Holding, File

LEMMA LineInvInit == LineInit => LineInv
BY Contents, LinesAssumption
DEF LineInit, LineInv, LineShape, Derived, Decided, Name, Place, CoverageFile

(* What a step of fuzz.sh smatch changes.                                  *)
LEMMA Written ==
  ASSUME LineShape, NEW w \in Workdir, NEW n \in Name, NEW f \in File, Write(w, n, f)
  PROVE  /\ file' \in [Workdir -> [Name -> File]]
         /\ file'[w][n] = f
         /\ \A m \in Name \ {n} : file'[w][m] = file[w][m]
         /\ \A v \in Workdir \ {w} : file'[v] = file[v]
BY DEF LineShape, Write

LEMMA Went ==
  ASSUME LineShape, NEW w \in Workdir, NEW l \in Place, Goto(w, l)
  PROVE  /\ step' \in [Workdir -> Place]
         /\ step'[w] = l /\ \A v \in Workdir \ {w} : step'[v] = step[v]
BY DEF LineShape, Goto

LEMMA Spoilt ==
  ASSUME LineShape, NEW w \in Workdir
  PROVE  /\ \A names \in SUBSET CoverageFile : Spoil(w, names) =>
              /\ spoiled' \in [Workdir -> SUBSET CoverageFile]
              /\ spoiled'[w] = spoiled[w] \cup names
              /\ \A v \in Workdir \ {w} : spoiled'[v] = spoiled[v]
         /\ \A name : Renew(w, name) =>
              /\ spoiled' \in [Workdir -> SUBSET CoverageFile]
              /\ spoiled'[w] = spoiled[w] \ {name}
              /\ \A v \in Workdir \ {w} : spoiled'[v] = spoiled[v]
         /\ UNCHANGED spoiled =>
              /\ spoiled' \in [Workdir -> SUBSET CoverageFile]
              /\ spoiled'[w] = spoiled[w]
              /\ \A v \in Workdir \ {w} : spoiled'[v] = spoiled[v]
<1> USE DEF LineShape
<1>1. ASSUME NEW names \in SUBSET CoverageFile, Spoil(w, names)
      PROVE  /\ spoiled' \in [Workdir -> SUBSET CoverageFile]
             /\ spoiled'[w] = spoiled[w] \cup names
             /\ \A v \in Workdir \ {w} : spoiled'[v] = spoiled[v]
  BY <1>1 DEF Spoil
<1>2. ASSUME NEW name, Renew(w, name)
      PROVE  /\ spoiled' \in [Workdir -> SUBSET CoverageFile]
             /\ spoiled'[w] = spoiled[w] \ {name}
             /\ \A v \in Workdir \ {w} : spoiled'[v] = spoiled[v]
  BY <1>2 DEF Renew
<1>3. QED BY <1>1, <1>2

(* A workdir is only touched by its own steps.                             *)
Apart(w) ==
  /\ executed' = executed
  /\ \A v \in Workdir \ {w} : file'[v] = file[v] /\ step'[v] = step[v] /\ spoiled'[v] = spoiled[v]

LEMMA Local ==
  ASSUME LineInv, NEW w \in Workdir, LineShape', Apart(w), Derived(w)', Decided(w)'
  PROVE  LineInv'
<1>1. ASSUME NEW v \in Workdir, v # w PROVE Derived(v)' /\ Decided(v)'
  BY <1>1 DEF LineInv, Apart, Derived, Decided, Needed
<1>2. QED BY <1>1 DEF LineInv

(* What a workdir spoils it may mend by writing the file anew, except for  *)
(* addr2line.lst, which is never made again.                               *)
Mended(w, n) ==
  /\ spoiled' \in [Workdir -> SUBSET CoverageFile]
  /\ \A v \in Workdir \ {w} : spoiled'[v] = spoiled[v]
  /\ \A m \in CoverageFile : m \in spoiled[w] /\ m \notin spoiled'[w] => m = n /\ m # "addr2line"

(* What is written is executed, and complete unless it is marked spoiled.  *)
Sound(w, n, f, l) ==
  /\ f.exists /\ (n = "addr" => ~ f.relative)
  /\ f.holds \subseteq IF n = "addr" THEN executed[w] ELSE LinesOf(executed[w])
  /\ l = "strip" => n = "addr2line"
  /\ l = "fast_strip" => n = "linecov"
  /\ l \in {"match", "matching"} =>
       IF n = "addr2line" THEN f.relative ELSE file[w]["addr2line"].relative
Complete(w, n, f, l) ==
  /\ n = "linecov" /\ "linecov" \notin spoiled'[w] /\ (f.relative \/ l = "fast_strip") =>
       LinesOf(executed[w]) \subseteq f.holds
  /\ "addr2line" \notin spoiled'[w] =>
       /\ n = "addr" /\ l # "listing" => f.holds = executed[w]
       /\ n = "addr2line" /\ l # "decoding" => Needed(w) \subseteq f.holds
       /\ n # "addr" => step[w] # "listing"
       /\ n # "addr2line" => step[w] # "decoding"
  /\ n = "smatch_match" /\ "smatch_match" \notin spoiled'[w] /\ f.relative =>
       ReportLines(w) \cap Needed(w) \subseteq f.holds

LEMMA OneFile ==
  ASSUME LineInv, NEW w \in Workdir, NEW n \in Name, NEW f \in File, Write(w, n, f),
         NEW l \in Place, Goto(w, l), executed' = executed, Mended(w, n),
         Sound(w, n, f, l), Complete(w, n, f, l)
  PROVE  LineInv'
<1>1. LineShape /\ LineShape'
  BY Written, Went DEF LineInv, LineShape, Mended
<1>2. /\ file'[w][n] = f /\ \A m \in Name \ {n} : file'[w][m] = file[w][m]
      /\ step'[w] = l /\ executed'[w] = executed[w]
  BY <1>1, Written, Went
<1>3. Apart(w)
  BY <1>1, Written, Went DEF Apart, Mended
<1>4. Derived(w) /\ Decided(w)
  BY DEF LineInv
<1>5. Derived(w)'
  BY <1>2, <1>4 DEF Derived, Name, Sound
<1>6. Needed(w)' = Needed(w) /\ ReportLines(w)' = ReportLines(w)
  BY <1>2 DEF Needed, ReportLines
<1>7. "linecov" \notin spoiled'[w] /\ (file'[w]["linecov"].relative \/ step'[w] = "fast_strip") =>
        LinesOf(executed[w]) \subseteq file'[w]["linecov"].holds
  <2>1. CASE n = "linecov"
    BY <1>2, <2>1 DEF Complete
  <2>2. CASE n # "linecov"
    BY <1>2, <1>4, <2>2 DEF Complete, Sound, Mended, Decided, Name, CoverageFile
  <2>3. QED BY <2>1, <2>2
<1>8. ASSUME "addr2line" \notin spoiled'[w]
      PROVE  /\ file'[w]["addr"].exists /\ step'[w] # "listing" => file'[w]["addr"].holds = executed[w]
             /\ file'[w]["addr2line"].exists /\ step'[w] # "decoding" =>
                  Needed(w) \subseteq file'[w]["addr2line"].holds
  <2>1. "addr2line" \notin spoiled[w]
    BY <1>8 DEF Mended, CoverageFile
  <2>2. CASE n = "addr"
    BY <1>2, <1>4, <1>8, <2>1, <2>2 DEF Complete, Decided, Name
  <2>3. CASE n = "addr2line"
    BY <1>2, <1>4, <1>8, <2>1, <2>3 DEF Complete, Decided, Name
  <2>4. CASE n \notin {"addr", "addr2line"}
    BY <1>2, <1>4, <1>8, <2>1, <2>4 DEF Complete, Decided, Name
  <2>5. QED BY <2>2, <2>3, <2>4
<1>9. "smatch_match" \notin spoiled'[w] /\ file'[w]["smatch_match"].relative =>
        ReportLines(w) \cap Needed(w) \subseteq file'[w]["smatch_match"].holds
  <2>1. CASE n = "smatch_match"
    BY <1>2, <2>1 DEF Complete
  <2>2. CASE n # "smatch_match"
    BY <1>2, <1>4, <2>2 DEF Mended, Decided, Name, CoverageFile
  <2>3. QED BY <2>1, <2>2
<1>10. Decided(w)'
  BY <1>2, <1>6, <1>7, <1>8, <1>9 DEF Decided
<1>11. QED BY <1>1, <1>3, <1>5, <1>10, Local

(* A step that writes no file.                                             *)
LEMMA NoneWritten ==
  ASSUME LineInv, NEW w \in Workdir, UNCHANGED <<executed, file>>,
         NEW l \in Place \ {"fast_strip", "match", "matching"}, Goto(w, l), Mended(w, "none"),
         l = "strip" => file[w]["addr2line"].exists,
         "addr2line" \notin spoiled'[w] => step[w] \notin {"listing", "decoding"}
  PROVE  LineInv'
<1>1. LineShape /\ LineShape'
  BY Went DEF LineInv, LineShape, Mended
<1>2. step'[w] = l /\ executed'[w] = executed[w] /\ file'[w] = file[w]
  BY <1>1, Went
<1>3. Apart(w)
  BY <1>1, Went DEF Apart, Mended
<1>4. \A m \in CoverageFile : m \in spoiled[w] => m \in spoiled'[w]
  BY DEF Mended, CoverageFile
<1>5. Derived(w)'
  BY <1>2 DEF LineInv, Derived
<1>6. Decided(w)'
  BY <1>2, <1>4 DEF LineInv, Decided, Needed, ReportLines, CoverageFile
<1>7. QED BY <1>1, <1>3, <1>5, <1>6, Local

LEMMA CollectKeeps == ASSUME LineInv, NEW w \in Workdir, Collect(w) PROVE LineInv'
<1>1. LineShape
  BY DEF LineInv
<1>2. PICK more \in SUBSET (Reach[w] \ executed[w]) :
        executed' = [executed EXCEPT ![w] = @ \cup more]
  BY DEF Collect
<1> DEFINE names == {n \in Name \ {"addr"} : file[w][n].exists}
                      \cup {n \in {"addr2line"} : file[w]["addr"].exists}
<1>3. names \in SUBSET CoverageFile /\ Spoil(w, names)
  BY DEF Collect, Name, CoverageFile
<1>4. /\ executed'[w] = executed[w] \cup more
      /\ \A v \in Workdir \ {w} : executed'[v] = executed[v]
      /\ step' = step /\ file' = file /\ step[w] = "idle"
      /\ spoiled' \in [Workdir -> SUBSET CoverageFile]
      /\ spoiled'[w] = spoiled[w] \cup names
      /\ \A v \in Workdir \ {w} : spoiled'[v] = spoiled[v]
  BY <1>1, <1>2, <1>3, Spoilt DEF LineShape, Collect
<1>5. LineShape'
  BY <1>1, <1>2, <1>4, LinesAssumption DEF LineShape
<1>6. \A v \in Workdir : Derived(v)'
  <2>1. \A v \in Workdir : executed[v] \subseteq executed'[v]
    BY <1>4
  <2>2. \A v \in Workdir : LinesOf(executed[v]) \subseteq LinesOf(executed'[v])
    BY <2>1, LinesGrow
  <2>3. QED BY <1>4, <2>1, <2>2 DEF LineInv, Derived
<1>7. ASSUME NEW v \in Workdir, v # w PROVE Decided(v)'
  BY <1>4, <1>7 DEF LineInv, Decided, Needed, ReportLines
<1>8. Decided(w)'
  <2>1. /\ "linecov" \notin spoiled'[w] => ~ file[w]["linecov"].exists
        /\ "addr2line" \notin spoiled'[w] => ~ file[w]["addr2line"].exists /\ ~ file[w]["addr"].exists
        /\ "smatch_match" \notin spoiled'[w] => ~ file[w]["smatch_match"].exists
    BY <1>4 DEF Name
  <2>2. \A n \in Name : file[w][n].relative => file[w][n].exists
    BY DEF LineInv, Derived
  <2> HIDE DEF names
  <2>3. QED BY <1>4, <2>1, <2>2 DEF Decided, Name
<1>9. QED BY <1>5, <1>6, <1>7, <1>8 DEF LineInv

(* The part of a step that leaves spoiled as it is.                        *)
LEMMA Unspoilt ==
  ASSUME LineInv, NEW w \in Workdir, NEW n, UNCHANGED spoiled
  PROVE  Mended(w, n) /\ spoiled'[w] = spoiled[w]
BY Spoilt DEF Mended, LineInv

LEMMA FastKeeps ==
  ASSUME LineInv, NEW w \in Workdir, StartFast(w) \/ FinishFast(w) \/ StripFast(w)
  PROVE  LineInv'
<1>1. LineShape /\ Derived(w) /\ Decided(w) /\ "linecov" \in Name /\ file[w]["linecov"] \in File
      /\ {"idle", "fast", "fast_strip"} \subseteq Place
  BY DEF LineInv, LineShape, Name, Place
<1>2. executed[w] \in SUBSET Addr /\ LinesOf(executed[w]) \in SUBSET (Addr \cup Line)
  BY <1>1, LinesGrow DEF LineShape
<1>3. CASE StartFast(w)
  <2>1. /\ Write(w, "linecov", Empty) /\ Goto(w, "fast") /\ UNCHANGED executed /\ step[w] = "idle"
        /\ Renew(w, "linecov")
    BY <1>3 DEF StartFast
  <2>2. Mended(w, "linecov")
    BY <1>1, <2>1, Spoilt DEF Mended
  <2>3. Sound(w, "linecov", Empty, "fast") /\ Complete(w, "linecov", Empty, "fast")
    BY <2>1, Contents DEF Sound, Complete
  <2>4. QED BY <1>1, <2>1, <2>2, <2>3, Contents, OneFile
<1>4. CASE FinishFast(w)
  <2> DEFINE f == Holding(LinesOf(executed[w]), FALSE)
  <2>1. f \in File /\ f.exists /\ f.holds = LinesOf(executed[w])
    BY <1>2, Contents
  <2>2. Write(w, "linecov", f) /\ Goto(w, "fast_strip") /\ UNCHANGED <<executed, spoiled>>
        /\ step[w] = "fast"
    BY <1>4 DEF FinishFast
  <2> HIDE DEF f
  <2>3. Sound(w, "linecov", f, "fast_strip") /\ Complete(w, "linecov", f, "fast_strip")
    BY <2>1, <2>2 DEF Sound, Complete
  <2>4. Mended(w, "linecov")
    BY <2>2, Unspoilt
  <2>5. QED BY <1>1, <2>1, <2>2, <2>3, <2>4, OneFile
<1>5. CASE StripFast(w)
  <2> DEFINE f == [file[w]["linecov"] EXCEPT !.relative = TRUE]
  <2>1. f \in File /\ f.exists /\ f.holds \subseteq LinesOf(executed[w])
        /\ f.holds = file[w]["linecov"].holds
    BY <1>1, <1>5 DEF File, Derived, StripFast, Name
  <2>2. Write(w, "linecov", f) /\ Goto(w, "idle") /\ UNCHANGED <<executed, spoiled>>
        /\ step[w] = "fast_strip"
    BY <1>5 DEF StripFast
  <2> HIDE DEF f
  <2>3. Mended(w, "linecov") /\ spoiled'[w] = spoiled[w]
    BY <2>2, Unspoilt
  <2>4. Sound(w, "linecov", f, "idle") /\ Complete(w, "linecov", f, "idle")
    BY <1>1, <2>1, <2>2, <2>3 DEF Sound, Complete, Decided
  <2>5. QED BY <1>1, <2>1, <2>2, <2>3, <2>4, OneFile
<1>6. QED BY <1>3, <1>4, <1>5

LEMMA ListKeeps ==
  ASSUME LineInv, NEW w \in Workdir, StartSlow(w) \/ RunGhidra(w) \/ ListAddrs(w)
  PROVE  LineInv'
<1>1. LineShape /\ Derived(w) /\ Decided(w) /\ "addr" \in Name /\ "addr2line" \in CoverageFile
      /\ {"idle", "strip", "ghidra", "listing", "decode"} \subseteq Place
  BY DEF LineInv, Name, Place, CoverageFile
<1>2. executed[w] \in SUBSET Addr
  BY <1>1 DEF LineShape
<1>3. CASE StartSlow(w)
  <2>1. PICK l \in {"strip", "decode", "ghidra"} :
          Goto(w, l) /\ (l = "strip" => file[w]["addr2line"].exists)
    BY <1>3 DEF StartSlow
  <2>2. step[w] = "idle" /\ UNCHANGED <<executed, file, spoiled>> /\ Mended(w, "none")
    BY <1>3, Unspoilt DEF StartSlow
  <2>3. l \in Place \ {"fast_strip", "match", "matching"}
    BY <1>1
  <2>4. QED BY <2>1, <2>2, <2>3, NoneWritten
<1>4. CASE RunGhidra(w)
  <2>1. /\ Write(w, "addr", Empty) /\ Goto(w, "listing") /\ UNCHANGED <<executed, spoiled>>
        /\ step[w] = "ghidra"
    BY <1>4 DEF RunGhidra
  <2>2. Sound(w, "addr", Empty, "listing") /\ Complete(w, "addr", Empty, "listing")
    BY <2>1, Contents DEF Sound, Complete
  <2>3. Mended(w, "addr")
    BY <2>1, Unspoilt
  <2>4. QED BY <1>1, <2>1, <2>2, <2>3, Contents, OneFile
<1>5. CASE ListAddrs(w)
  <2>1. step[w] = "listing" /\ UNCHANGED executed
    BY <1>5 DEF ListAddrs
  <2>2. CASE Write(w, "addr", Holding(executed[w], FALSE)) /\ Goto(w, "decode") /\ UNCHANGED spoiled
    <3> DEFINE f == Holding(executed[w], FALSE)
    <3>1. f \in File /\ f.exists /\ f.holds = executed[w] /\ ~ f.relative
      BY <1>2, Contents
    <3> HIDE DEF f
    <3>2. Sound(w, "addr", f, "decode") /\ Complete(w, "addr", f, "decode")
      BY <2>1, <3>1 DEF Sound, Complete
    <3>3. Mended(w, "addr")
      BY <2>2, Unspoilt
    <3>4. QED BY <1>1, <2>1, <2>2, <3>1, <3>2, <3>3, OneFile DEF f
  <2>3. CASE UNCHANGED file /\ Goto(w, "idle") /\ Spoil(w, {"addr2line"})
    <3>1. Mended(w, "none") /\ "addr2line" \in spoiled'[w]
      BY <1>1, <2>3, Spoilt DEF Mended
    <3>2. QED BY <1>1, <2>1, <2>3, <3>1, NoneWritten
  <2>4. QED BY <1>5, <2>2, <2>3 DEF ListAddrs
<1>6. QED BY <1>3, <1>4, <1>5

(* What eu-addr2line is given.                                             *)
LEMMA DecodedLines ==
  ASSUME LineInv, NEW w \in Workdir
  PROVE  /\ LinesOf(Decoded(w)) \subseteq LinesOf(executed[w])
         /\ LinesOf(Decoded(w)) \in SUBSET (Addr \cup Line)
         /\ "addr2line" \notin spoiled[w] /\ step[w] # "listing" =>
              Needed(w) \subseteq LinesOf(Decoded(w))
<1>1. Derived(w) /\ Decided(w) /\ executed[w] \in SUBSET Addr
  BY DEF LineInv, LineShape
<1>2. Decoded(w) \subseteq executed[w]
  BY <1>1 DEF Decoded, Derived
<1>3. LinesOf(Decoded(w)) \subseteq LinesOf(executed[w]) /\ LinesOf(executed[w]) \subseteq Line
  BY <1>1, <1>2, LinesGrow
<1>4. ASSUME "addr2line" \notin spoiled[w], step[w] # "listing"
      PROVE  Needed(w) \subseteq LinesOf(Decoded(w))
  <2>1. executed[w] \cap Endpoint \subseteq Decoded(w)
    BY <1>1, <1>4 DEF Decided, Decoded
  <2>2. QED BY <2>1, LinesGrow DEF Needed
<1>5. QED BY <1>3, <1>4

LEMMA DecodeKeeps ==
  ASSUME LineInv, NEW w \in Workdir, Truncate(w) \/ Decode(w)
  PROVE  LineInv'
<1>1. LineShape /\ Derived(w) /\ Decided(w) /\ "addr2line" \in Name /\ "addr2line" \in CoverageFile
      /\ {"decoding", "strip"} \subseteq Place
  BY DEF LineInv, Name, CoverageFile, Place
<1>2. CASE Truncate(w)
  <2>1. /\ Write(w, "addr2line", Empty) /\ Goto(w, "decoding") /\ UNCHANGED <<executed, spoiled>>
        /\ step[w] = "decode"
    BY <1>2 DEF Truncate
  <2>2. Sound(w, "addr2line", Empty, "decoding") /\ Complete(w, "addr2line", Empty, "decoding")
    BY <2>1, Contents DEF Sound, Complete
  <2>3. Mended(w, "addr2line")
    BY <2>1, Unspoilt
  <2>4. QED BY <1>1, <2>1, <2>2, <2>3, Contents, OneFile
<1>3. CASE Decode(w)
  <2>1. step[w] = "decoding" /\ Goto(w, "strip") /\ UNCHANGED executed
    BY <1>3 DEF Decode
  <2>2. CASE Write(w, "addr2line", Holding(LinesOf(Decoded(w)), FALSE)) /\ UNCHANGED spoiled
    <3> DEFINE f == Holding(LinesOf(Decoded(w)), FALSE)
    <3>1. f \in File /\ f.exists /\ f.holds = LinesOf(Decoded(w)) /\ ~ f.relative
      BY DecodedLines, Contents
    <3> HIDE DEF f
    <3>2. Mended(w, "addr2line") /\ spoiled'[w] = spoiled[w]
      BY <2>2, Unspoilt
    <3>3. Sound(w, "addr2line", f, "strip") /\ Complete(w, "addr2line", f, "strip")
      BY <2>1, <3>1, <3>2, DecodedLines DEF Sound, Complete
    <3>4. QED BY <1>1, <2>1, <2>2, <3>1, <3>2, <3>3, OneFile DEF f
  <2>3. CASE Spoil(w, {"addr2line"}) /\ \E part \in SUBSET LinesOf(Decoded(w)) :
                               Write(w, "addr2line", Holding(part, FALSE))
    <3>1. PICK part \in SUBSET LinesOf(Decoded(w)) : Write(w, "addr2line", Holding(part, FALSE))
      BY <2>3
    <3>2. part \in SUBSET (Addr \cup Line) /\ part \subseteq LinesOf(executed[w])
      BY DecodedLines
    <3> DEFINE f == Holding(part, FALSE)
    <3>3. f \in File /\ f.exists /\ f.holds = part /\ Write(w, "addr2line", f)
      BY <3>1, <3>2, Contents
    <3> HIDE DEF f
    <3>4. Mended(w, "addr2line") /\ "addr2line" \in spoiled'[w]
      BY <1>1, <2>3, Spoilt DEF Mended
    <3>5. Sound(w, "addr2line", f, "strip") /\ Complete(w, "addr2line", f, "strip")
      BY <3>2, <3>3, <3>4 DEF Sound, Complete
    <3>6. QED BY <1>1, <2>1, <3>3, <3>4, <3>5, OneFile
  <2>4. QED BY <1>3, <2>2, <2>3 DEF Decode
<1>4. QED BY <1>2, <1>3

LEMMA MatchKeeps ==
  ASSUME LineInv, NEW w \in Workdir, Strip(w) \/ StartMatch(w) \/ Match(w)
  PROVE  LineInv'
<1>1. LineShape /\ Derived(w) /\ Decided(w) /\ "smatch_match" \in Name /\ "addr2line" \in Name
      /\ file[w]["addr2line"] \in File /\ {"match", "matching", "idle"} \subseteq Place
      /\ "smatch_match" \in CoverageFile
  BY DEF LineInv, LineShape, Name, Place, CoverageFile
<1>2. executed[w] \in SUBSET Addr /\ LinesOf(executed[w]) \in SUBSET Line
  BY <1>1, LinesGrow DEF LineShape
<1>3. CASE Strip(w)
  <2> DEFINE f == [file[w]["addr2line"] EXCEPT !.relative = TRUE]
  <2>1. f \in File /\ f.exists /\ f.relative /\ f.holds \subseteq LinesOf(executed[w])
        /\ ("addr2line" \notin spoiled[w] => Needed(w) \subseteq f.holds)
    BY <1>1, <1>3 DEF File, Derived, Decided, Strip, Name
  <2>2. Write(w, "addr2line", f) /\ Goto(w, "match") /\ UNCHANGED <<executed, spoiled>>
        /\ step[w] = "strip"
    BY <1>3 DEF Strip
  <2> HIDE DEF f
  <2>3. Mended(w, "addr2line") /\ spoiled'[w] = spoiled[w]
    BY <2>2, Unspoilt
  <2>4. Sound(w, "addr2line", f, "match") /\ Complete(w, "addr2line", f, "match")
    BY <2>1, <2>2, <2>3 DEF Sound, Complete
  <2>5. QED BY <1>1, <2>1, <2>2, <2>3, <2>4, OneFile
<1>4. CASE StartMatch(w)
  <2>1. /\ Write(w, "smatch_match", Empty) /\ Goto(w, "matching") /\ UNCHANGED <<executed, spoiled>>
        /\ step[w] = "match"
    BY <1>4 DEF StartMatch
  <2>2. file[w]["addr2line"].relative
    BY <1>1, <2>1 DEF Derived
  <2>3. Sound(w, "smatch_match", Empty, "matching") /\ Complete(w, "smatch_match", Empty, "matching")
    BY <2>1, <2>2, Contents DEF Sound, Complete
  <2>4. Mended(w, "smatch_match")
    BY <2>1, Unspoilt
  <2>5. QED BY <1>1, <2>1, <2>3, <2>4, Contents, OneFile
<1>5. CASE Match(w)
  <2> DEFINE c == ReportLines(w) \cap Known(file[w]["addr2line"])
  <2>1. c \in SUBSET LinesOf(executed[w])
    BY <1>1 DEF Known, Derived, Name
  <2>2. Write(w, "smatch_match", Holding(c, TRUE)) /\ Goto(w, "idle") /\ step[w] = "matching"
        /\ UNCHANGED executed
        /\ IF "addr2line" \in spoiled[w] THEN Spoil(w, {"smatch_match"}) ELSE Renew(w, "smatch_match")
    BY <1>5 DEF Match
  <2>3. "addr2line" \notin spoiled[w] => ReportLines(w) \cap Needed(w) \subseteq c
    <3>1. file[w]["addr2line"].relative /\ file[w]["addr2line"].exists
      BY <1>1, <2>2 DEF Derived
    <3>2. QED BY <1>1, <2>2, <3>1 DEF Decided, Known
  <2>4. /\ Mended(w, "smatch_match")
        /\ "smatch_match" \notin spoiled'[w] => "addr2line" \notin spoiled[w]
    <3>1. CASE "addr2line" \in spoiled[w]
      <4>1. Spoil(w, {"smatch_match"}) /\ {"smatch_match"} \in SUBSET CoverageFile
        BY <1>1, <2>2, <3>1
      <4>2. QED BY <1>1, <4>1, Spoilt DEF Mended
    <3>2. CASE "addr2line" \notin spoiled[w]
      <4>1. Renew(w, "smatch_match")
        BY <2>2, <3>2
      <4>2. QED BY <1>1, <3>2, <4>1, Spoilt DEF Mended
    <3>3. QED BY <3>1, <3>2
  <2> DEFINE f == Holding(c, TRUE)
  <2> HIDE DEF c
  <2>5. f \in File /\ f.exists /\ f.holds = c
    BY <1>2, <2>1, Contents
  <2> HIDE DEF f
  <2>6. Sound(w, "smatch_match", f, "idle") /\ Complete(w, "smatch_match", f, "idle")
    BY <2>1, <2>2, <2>3, <2>4, <2>5 DEF Sound, Complete
  <2>7. QED BY <1>1, <2>2, <2>4, <2>5, <2>6, OneFile DEF f
<1>6. QED BY <1>3, <1>4, <1>5

LEMMA KillKeeps == ASSUME LineInv, NEW w \in Workdir, Kill(w) PROVE LineInv'
<1>1. LineShape /\ Derived(w) /\ Decided(w) /\ "idle" \in Place
      /\ "linecov" \in Name /\ "addr2line" \in Name /\ "addr" \in Name
  BY DEF LineInv, Name, Place
<1>2. executed[w] \in SUBSET Addr /\ LinesOf(executed[w]) \in SUBSET Line
  BY <1>1, LinesGrow DEF LineShape
<1> DEFINE names == {n \in {"addr2line"} : step[w] \in {"listing", "decoding"}}
<1>3. UNCHANGED executed /\ Goto(w, "idle") /\ Spoil(w, names)
  BY DEF Kill
<1>4. \A n : Mended(w, n)
  <2>1. names \in SUBSET CoverageFile
    BY DEF CoverageFile
  <2> HIDE DEF names
  <2>2. QED BY <1>1, <1>3, <2>1, Spoilt DEF Mended
<1>5. "addr2line" \notin spoiled'[w] => step[w] \notin {"listing", "decoding"}
  <2>1. names \in SUBSET CoverageFile
    BY DEF CoverageFile
  <2>2. spoiled'[w] = spoiled[w] \cup names
    BY <1>1, <1>3, <2>1, Spoilt
  <2>3. QED BY <2>2
<1> HIDE DEF names
<1>6. CASE UNCHANGED file
  BY <1>1, <1>3, <1>4, <1>5, <1>6, NoneWritten
<1>7. CASE \E p \in Partial(w) : Write(w, p[1], Holding(p[2], FALSE))
  <2>1. PICK p \in Partial(w) : Write(w, p[1], Holding(p[2], FALSE))
    BY <1>7
  <2>2. \/ step[w] = "listing" /\ p[1] = "addr" /\ p[2] \in SUBSET executed[w]
        \/ step[w] = "decoding" /\ p[1] = "addr2line" /\ p[2] \in SUBSET LinesOf(Decoded(w))
        \/ step[w] = "fast" /\ p[1] = "linecov" /\ p[2] \in SUBSET LinesOf(executed[w])
    BY DEF Partial
  <2>3. /\ p[1] \in Name /\ p[2] \in SUBSET (Addr \cup Line)
        /\ p[2] \subseteq IF p[1] = "addr" THEN executed[w] ELSE LinesOf(executed[w])
    BY <1>1, <1>2, <2>2, DecodedLines
  <2> DEFINE f == Holding(p[2], FALSE)
             n == p[1]
  <2>4. f \in File /\ f.exists /\ f.holds = p[2] /\ ~ f.relative /\ Write(w, n, f)
    BY <2>1, <2>3, Contents
  <2>5. \/ n = "addr" /\ step[w] = "listing"
        \/ n = "addr2line" /\ step[w] = "decoding"
        \/ n = "linecov" /\ step[w] = "fast"
    BY <2>2
  <2>6. n \in Name /\ f.holds \subseteq IF n = "addr" THEN executed[w] ELSE LinesOf(executed[w])
    BY <2>3, <2>4
  <2> HIDE DEF f, n
  <2>7. Sound(w, n, f, "idle")
    BY <2>4, <2>6 DEF Sound
  <2>8. Complete(w, n, f, "idle")
    BY <1>5, <2>4, <2>5 DEF Complete
  <2>9. QED BY <1>1, <1>3, <1>4, <2>4, <2>6, <2>7, <2>8, OneFile
<1>8. QED BY <1>6, <1>7 DEF Kill

LEMMA LineKeeps == LineInv /\ (\E w \in Workdir : LineStep(w)) => LineInv'
BY CollectKeeps, FastKeeps, ListKeeps, DecodeKeeps, MatchKeeps, KillKeeps DEF LineStep
-----------------------------------------------------------------------------
(* The calls of smatcher.                                                  *)

Calls == CallShape /\ Founded /\ Turns /\ NothingLost /\ DueCounted

LEMMA Commands ==
  /\ NoArgs \in CommandLine /\ Len(NoArgs.items) = 0 /\ Options \subseteq CommandLine
  /\ Absent \in [state : {"absent", "torn", "whole"}, holds : SUBSET Entry]
  /\ Torn \in [state : {"absent", "torn", "whole"}, holds : SUBSET Entry]
  /\ \A S \in SUBSET Entry :
       Whole(S) \in [state : {"absent", "torn", "whole"}, holds : SUBSET Entry]
BY SmatcherAssumption DEF NoArgs, CommandLine, Absent, Torn, Whole

LEMMA InvInit == Init => Inv
<1> SUFFICES ASSUME Init PROVE Inv
  OBVIOUS
<1>1. LineInv
  BY LineInvInit DEF Init
<1>2. CallShape
  <2>1. \A p \in Call : at[p] = 1 /\ args[p] = NoArgs
    BY DEF Init
  <2>2. \A p \in Call : at[p] \in 1..(Len(args[p].items) + 1)
    BY <2>1, Commands
  <2>3. calls \in 0..MaxCalls /\ Absent \in [state : {"absent", "torn", "whole"}, holds : SUBSET Entry]
    BY Commands, SmatcherAssumption DEF Init
  <2>4. /\ args \in [Call -> Options \cup {NoArgs}] /\ at \in [Call -> Nat \ {0}]
        /\ pc \in [Call -> {"off", "matching", "merged", "writing", "mixing", "done"}]
    BY DEF Init
  <2>5. /\ covered \in [Call -> SUBSET Entry] /\ smatch_set \in [Call -> SUBSET Entry]
        /\ due \in [Call -> SUBSET Entry] /\ saved \subseteq Entry /\ disturbed \in BOOLEAN
    BY DEF Init
  <2>6. QED BY <2>2, <2>3, <2>4, <2>5 DEF Init, CallShape
<1>3. Founded /\ Turns /\ NothingLost /\ DueCounted
  BY DEF Init, Founded, DbJustified, Turns, Saving, NothingLost, DueCounted, Absent
<1>4. QED BY <1>1, <1>2, <1>3 DEF Inv

LEMMA Traced ==
  ASSUME LineShape, NEW w \in Workdir, LineStep(w)
  PROVE  \A v \in Workdir : executed[v] \subseteq executed'[v]
<1>1. CASE Collect(w)
  BY <1>1 DEF LineShape, Collect
<1>2. CASE UNCHANGED executed
  BY <1>2
<1>3. QED BY <1>1, <1>2 DEF LineStep, StartFast, FinishFast, StripFast, StartSlow, RunGhidra,
                           ListAddrs, Truncate, Decode, Strip, StartMatch, Match, Kill

LEMMA JustifiedGrows ==
  ASSUME \A v \in Workdir : executed[v] \subseteq executed'[v]
  PROVE  Justified \subseteq Justified'
<1>1. \A v \in Workdir : LinesOf(executed[v]) \subseteq LinesOf(executed'[v])
  BY LinesGrow
<1>2. QED BY <1>1 DEF Justified, Report, HasReport

LEMMA LineKeepsCalls ==
  ASSUME Inv, NEW w \in Workdir, LineStep(w), UNCHANGED callVars
  PROVE  Calls'
<1>1. Justified \subseteq Justified'
  BY Traced, JustifiedGrows DEF Inv, LineInv
<1>2. CallShape' /\ Founded'
  BY <1>1 DEF Inv, CallShape, Founded, DbJustified, callVars
<1>3. Turns' /\ NothingLost' /\ DueCounted'
  BY DEF Inv, Turns, Saving, NothingLost, DueCounted, callVars
<1>4. QED BY <1>2, <1>3 DEF Calls

(* What a call reads of an item was executed by its workdir.               *)
LEMMA Read ==
  ASSUME LineInv, NEW a \in CommandLine, NEW item \in Item
  PROVE  try_get_coverage(a, item) \subseteq LinesOf(executed[item[1]])
<1>1. item[1] \in Workdir /\ (item[2] # "dir" => item[2] \in Name)
  BY DEF Item
<1>2. \A n \in Name \ {"addr"} : Known(file[item[1]][n]) \subseteq LinesOf(executed[item[1]])
  BY <1>1 DEF LineInv, Derived, Known
<1>3. \A i \in DOMAIN LINECOV_FILES : LINECOV_FILES[i] \in Name \ {"addr"}
  BY DEF LINECOV_FILES, Name
<1>4. Known(file[item[1]]["addr"]) = {}
  <2>1. ~ file[item[1]]["addr"].relative
    BY <1>1 DEF LineInv, Derived
  <2>2. QED BY <2>1 DEF Known
<1>5. WorkdirCoverage(item[1], a.combine_cov_files) \subseteq LinesOf(executed[item[1]])
  BY <1>2, <1>3 DEF WorkdirCoverage, Existing
<1>6. QED BY <1>1, <1>2, <1>4, <1>5 DEF try_get_coverage

LEMMA Reported ==
  ASSUME NEW a \in CommandLine, NEW item \in Item
  PROVE  Report(a, item) \subseteq Entry
<1>1. /\ GivenReport \subseteq Entry
      /\ \A w \in DOMAIN AnnotatedOf : AnnotatedOf[w] \subseteq Entry
      /\ \A w \in DOMAIN WarnsOf : WarnsOf[w] \subseteq Entry
  BY DEF Entry
<1>2. a.smatch \in BOOLEAN
  BY DEF CommandLine
<1>3. QED BY <1>1, <1>2 DEF Report, HasReport

LEMMA Matched ==
  ASSUME LineInv, NEW a \in CommandLine, NEW item \in Item
  PROVE  On(Report(a, item), try_get_coverage(a, item)) \subseteq Justified
<1> SUFFICES ASSUME NEW e \in Report(a, item), e[2] \in try_get_coverage(a, item)
             PROVE  e \in Justified
  BY DEF On
<1> DEFINE w == item[1]
           like == [NoArgs EXCEPT !.smatch = a.smatch]
<1>1. w \in Workdir /\ e \in Entry /\ e[2] \in LinesOf(executed[w])
  BY Read, Reported DEF Item
<1>2. a.smatch \in BOOLEAN /\ like.smatch = a.smatch
  BY DEF CommandLine, NoArgs
<1>3. e \in Report(like, <<w, "dir">>)
  BY <1>2 DEF Report, HasReport
<1> HIDE DEF like
<1>4. e \in Report([NoArgs EXCEPT !.smatch = a.smatch], <<w, "dir">>)
  BY <1>3 DEF like
<1>5. \E smatch \in BOOLEAN : e \in Report([NoArgs EXCEPT !.smatch = smatch], <<w, "dir">>)
  BY <1>2, <1>4
<1>6. QED BY <1>1, <1>5 DEF Justified

(* The item a call is at, and what it finds there.                         *)
LEMMA AtItem ==
  ASSUME CallShape, NEW p \in Call, at[p] <= Len(args[p].items)
  PROVE  /\ args[p] \in CommandLine /\ args[p].items[at[p]] \in Item
         /\ at[p] + 1 \in Nat \ {0} /\ at[p] + 1 \in 1..(Len(args[p].items) + 1)
<1>1. args[p] \in CommandLine /\ args[p].items \in Seq(Item)
  BY Commands DEF CallShape, CommandLine
<1>2. at[p] \in 1..Len(args[p].items) /\ at[p] \in Nat /\ Len(args[p].items) \in Nat
  BY <1>1 DEF CallShape
<1>3. args[p].items[at[p]] \in Item
  BY <1>1, <1>2
<1>4. QED BY <1>1, <1>2, <1>3

(* A step changes the call that makes it; a dump may mix up others.        *)
LEMMA CallsApart ==
  ASSUME CallShape, NEW p \in Call, CallStep(p)
  PROVE  /\ UNCHANGED lineVars
         /\ \A q \in Call \ {p} :
              /\ args'[q] = args[q] /\ at'[q] = at[q] /\ covered'[q] = covered[q]
              /\ smatch_set'[q] = smatch_set[q] /\ due'[q] = due[q]
         /\ ~ Dump(p) => \A q \in Call \ {p} : pc'[q] = pc[q]
BY DEF CallShape, CallStep, Start, MatchItem, Finish, Merge, Open, Dump, KillCall, Gone, Become,
       lineVars

LEMMA GoneShape ==
  ASSUME CallShape, NEW p \in Call, Gone(p)
  PROVE  /\ pc' \in [Call -> {"off", "matching", "merged", "writing", "mixing", "done"}]
         /\ args' \in [Call -> Options \cup {NoArgs}]
         /\ at' \in [Call -> Nat \ {0}]
         /\ covered' \in [Call -> SUBSET Entry]
         /\ smatch_set' \in [Call -> SUBSET Entry]
         /\ due' \in [Call -> SUBSET Entry]
         /\ pc'[p] = "off" /\ args'[p] = NoArgs /\ at'[p] = 1
         /\ covered'[p] = {} /\ smatch_set'[p] = {} /\ due'[p] = {}
         /\ at'[p] \in 1..(Len(args'[p].items) + 1)
<1>1. 1 \in 1..(Len(NoArgs.items) + 1)
  BY Commands
<1>2. pc'[p] = "off" /\ args'[p] = NoArgs /\ at'[p] = 1
  BY DEF CallShape, Gone, Become
<1>3. QED BY <1>1, <1>2 DEF CallShape, Gone, Become

LEMMA ShapeKeeps ==
  ASSUME CallShape, NEW p \in Call, CallStep(p)
  PROVE  CallShape'
<1>1. \A q \in Call \ {p} : at'[q] \in 1..(Len(args'[q].items) + 1)
  BY CallsApart DEF CallShape
<1>2. CASE Start(p)
  <2>1. calls' \in 0..MaxCalls
    BY <1>2, SmatcherAssumption DEF CallShape, Start
  <2>2. UNCHANGED <<db, saved, disturbed>>
    BY <1>2 DEF Start
  <2>3. CASE Gone(p)
    BY <1>1, <2>1, <2>2, <2>3, GoneShape DEF CallShape
  <2>4. CASE ~ Gone(p)
    <3>1. PICK a \in Options :
            /\ Become(p, "matching")
            /\ args' = [args EXCEPT ![p] = a]
            /\ at' = [at EXCEPT ![p] = 1]
            /\ covered' = [covered EXCEPT ![p] = IF a.load THEN db.holds ELSE {}]
            /\ smatch_set' = [smatch_set EXCEPT ![p] = {}]
            /\ due' = [due EXCEPT ![p] = {}]
      BY <1>2, <2>4 DEF Start
    <3>2. a.items \in Seq(Item)
      BY Commands DEF CommandLine
    <3>3. at'[p] \in 1..(Len(args'[p].items) + 1)
      BY <3>1, <3>2 DEF CallShape
    <3>4. QED BY <1>1, <2>1, <2>2, <3>1, <3>3 DEF CallShape, Become
  <2>5. QED BY <2>3, <2>4
<1>3. CASE MatchItem(p)
  <2>1. UNCHANGED <<calls, db, saved, disturbed>> /\ at[p] <= Len(args[p].items)
    BY <1>3 DEF MatchItem
  <2>2. CASE Gone(p)
    BY <1>1, <2>1, <2>2, GoneShape DEF CallShape
  <2>3. CASE ~ Gone(p)
    <3> DEFINE a == args[p]
               item == a.items[at[p]]
    <3>1. a \in CommandLine /\ item \in Item /\ at[p] + 1 \in Nat \ {0}
          /\ at[p] + 1 \in 1..(Len(a.items) + 1)
      BY <2>1, AtItem
    <3>2. Report(a, item) \subseteq Entry /\ On(Report(a, item), try_get_coverage(a, item)) \subseteq Entry
          /\ Due(a, item) \subseteq Entry
      BY <3>1, Reported DEF On, Due
    <3>3. /\ smatch_set' = [smatch_set EXCEPT ![p] = @ \cup Report(a, item)]
          /\ covered' = [covered EXCEPT ![p] =
               @ \cup On(Report(a, item), try_get_coverage(a, item))]
          /\ due' = [due EXCEPT ![p] = @ \cup Due(a, item)]
          /\ at' = [at EXCEPT ![p] = @ + 1]
          /\ UNCHANGED <<pc, args>>
      BY <1>3, <2>3 DEF MatchItem
    <3> HIDE DEF item
    <3>4. QED BY <1>1, <2>1, <3>1, <3>2, <3>3 DEF CallShape
  <2>4. QED BY <2>2, <2>3
<1>4. CASE Finish(p) \/ Open(p)
  BY <1>4, Commands DEF CallShape, Finish, Open, Become
<1>5. CASE Merge(p)
  <2>1. UNCHANGED <<calls, db, saved>> /\ disturbed' \in BOOLEAN
    BY <1>5 DEF Merge, CallShape
  <2>2. CASE Gone(p)
    BY <1>1, <2>1, <2>2, GoneShape DEF CallShape
  <2>3. CASE ~ Gone(p)
    <3>1. /\ pc' = [pc EXCEPT ![p] = "merged"] /\ UNCHANGED <<args, at, smatch_set, due>>
          /\ covered' = [covered EXCEPT ![p] = @ \cup db.holds]
      BY <1>5, <2>3 DEF Merge, Become
    <3>2. db.holds \in SUBSET Entry
      BY DEF CallShape
    <3>3. QED BY <2>1, <3>1, <3>2 DEF CallShape
  <2>4. QED BY <2>2, <2>3
<1>6. CASE Dump(p)
  <2>1. UNCHANGED <<calls, args, at, covered, smatch_set, due, disturbed>>
        /\ saved' = saved \cup covered[p] /\ (db' = Whole(covered[p]) \/ db' = Torn)
    BY <1>6 DEF Dump
  <2>2. pc' \in [Call -> {"off", "matching", "merged", "writing", "mixing", "done"}]
    BY <1>6 DEF Dump, CallShape
  <2>3. QED BY <2>1, <2>2, Commands DEF CallShape
<1>7. CASE KillCall(p)
  <2>1. UNCHANGED <<calls, saved>> /\ disturbed' \in BOOLEAN /\ (db' = Torn \/ db' = db) /\ Gone(p)
    BY <1>7 DEF CallShape, KillCall
  <2>2. db' \in [state : {"absent", "torn", "whole"}, holds : SUBSET Entry]
    BY <2>1, Commands DEF CallShape
  <2>3. QED BY <1>1, <2>1, <2>2, GoneShape DEF CallShape
<1>8. QED BY <1>2, <1>3, <1>4, <1>5, <1>6, <1>7 DEF CallStep

LEMMA FoundedKeeps ==
  ASSUME LineInv, CallShape, Founded, NEW p \in Call, CallStep(p)
  PROVE  Founded'
<1>1. Justified' = Justified /\ db.holds \subseteq Justified
  BY CallsApart DEF Justified, Report, HasReport, lineVars, Founded, DbJustified
<1> SUFFICES db'.holds \subseteq Justified /\ covered'[p] \subseteq Justified
  BY <1>1, CallsApart DEF Founded, DbJustified
<1>2. covered[p] \subseteq Justified
  BY DEF Founded
<1>3. Gone(p) => covered'[p] = {}
  BY GoneShape
<1>4. CASE Start(p)
  <2>1. db' = db /\ (Gone(p) \/ covered'[p] \subseteq db.holds)
    BY <1>4 DEF Start, CallShape
  <2>2. QED BY <1>1, <1>3, <2>1
<1>5. CASE MatchItem(p)
  <2> DEFINE a == args[p]
             item == a.items[at[p]]
             found == On(Report(a, item), try_get_coverage(a, item))
  <2>1. a \in CommandLine /\ item \in Item
    BY <1>5, AtItem DEF MatchItem
  <2>2. found \subseteq Justified
    BY <2>1, Matched
  <2>3. db' = db /\ (Gone(p) \/ covered' = [covered EXCEPT ![p] = @ \cup found])
    BY <1>5 DEF MatchItem
  <2> HIDE DEF found
  <2>4. QED BY <1>1, <1>2, <1>3, <2>2, <2>3 DEF CallShape
<1>6. CASE Merge(p)
  <2>1. db' = db /\ (Gone(p) \/ covered' = [covered EXCEPT ![p] = @ \cup db.holds])
    BY <1>6 DEF Merge
  <2>2. QED BY <1>1, <1>2, <1>3, <2>1 DEF CallShape
<1>7. CASE Finish(p) \/ Open(p)
  BY <1>1, <1>2, <1>7 DEF Finish, Open, Torn
<1>8. CASE Dump(p)
  BY <1>1, <1>2, <1>8 DEF Dump, Torn, Whole
<1>9. CASE KillCall(p)
  BY <1>1, <1>3, <1>9 DEF KillCall, Torn
<1>10. QED BY <1>4, <1>5, <1>6, <1>7, <1>8, <1>9 DEF CallStep

(* A step of a call that is not saving, and does not save afterwards.      *)
LEMMA NotSaving ==
  ASSUME CallShape, Turns, NothingLost, NEW p \in Call, UNCHANGED <<db, saved>>,
         disturbed' = disturbed, ~ Saving(p)',
         \A q \in Call \ {p} : pc'[q] = pc[q] /\ covered'[q] = covered[q],
         pc[p] # "writing"
  PROVE  Turns' /\ NothingLost'
<1>1. Turns'
  BY DEF Turns, Saving
<1>2. NothingLost'
  BY DEF NothingLost
<1>3. QED BY <1>1, <1>2

LEMMA TurnsKeeps ==
  ASSUME CallShape, Turns, NothingLost, NEW p \in Call, CallStep(p)
  PROVE  Turns' /\ NothingLost'
<1>1. \A q \in Call \ {p} : covered'[q] = covered[q]
  BY CallsApart
<1>2. ~ Dump(p) => \A q \in Call \ {p} : pc'[q] = pc[q]
  BY CallsApart
<1>3. Gone(p) => pc'[p] = "off"
  BY GoneShape
<1>4. CASE Start(p) \/ MatchItem(p) \/ Finish(p)
  <2>1. UNCHANGED <<db, saved, disturbed>> /\ pc'[p] \in {"off", "matching", "done"}
        /\ pc[p] # "writing" /\ ~ Dump(p)
    BY <1>3, <1>4 DEF CallShape, Start, MatchItem, Finish, Become, Dump
  <2>2. ~ Saving(p)'
    BY <2>1 DEF Saving
  <2>3. QED BY <1>1, <1>2, <2>1, <2>2, NotSaving
<1>5. CASE Merge(p)
  <2>1. UNCHANGED <<db, saved>> /\ pc[p] = "matching" /\ ~ Dump(p)
    BY <1>5 DEF Merge, Dump
  <2>2. CASE Gone(p) /\ UNCHANGED disturbed
    BY <1>1, <1>2, <1>3, <2>1, <2>2, NotSaving DEF Saving
  <2>3. CASE /\ db.state # "torn"
             /\ Become(p, "merged")
             /\ covered' = [covered EXCEPT ![p] = @ \cup db.holds]
             /\ disturbed' = (disturbed \/ \E q \in Call : Saving(q))
    <3>1. pc'[p] = "merged" /\ covered'[p] = covered[p] \cup db.holds
      BY <2>3 DEF CallShape, Become
    <3> SUFFICES ASSUME ~ disturbed'
                 PROVE  Turns' /\ NothingLost'
      BY DEF Turns, NothingLost
    <3>2. ~ disturbed /\ \A q \in Call : ~ Saving(q)
      BY <2>3 DEF CallShape
    <3>3. \A q \in Call : Saving(q)' => q = p
      BY <1>2, <2>1, <3>2 DEF Saving
    <3>4. db.holds = saved
      BY <2>3, <3>2 DEF NothingLost
    <3>5. Turns'
      BY <1>2, <2>1, <3>1, <3>2, <3>3, <3>4 DEF Turns
    <3>6. NothingLost'
      BY <2>1, <2>3, <3>4 DEF NothingLost
    <3>7. QED BY <3>5, <3>6
  <2>4. QED BY <1>5, <2>2, <2>3 DEF Merge
<1>6. CASE Open(p)
  <2>1. pc[p] = "merged" /\ pc'[p] = "writing" /\ ~ Dump(p) /\ db' = Torn
        /\ UNCHANGED <<covered, saved, disturbed>>
    BY <1>6 DEF CallShape, Open, Become, Dump
  <2>2. \A q \in Call : Saving(q)' <=> Saving(q)
    BY <1>2, <2>1 DEF Saving
  <2>3. Turns'
    BY <1>2, <2>1, <2>2 DEF Turns
  <2>4. NothingLost'
    BY <2>1 DEF NothingLost, Torn
  <2>5. QED BY <2>3, <2>4
<1>7. CASE Dump(p)
  <2> SUFFICES ASSUME ~ disturbed'
               PROVE  Turns' /\ NothingLost'
    BY DEF Turns, NothingLost
  <2>1. ~ disturbed /\ UNCHANGED covered /\ saved' = saved \cup covered[p]
        /\ pc[p] \in {"writing", "mixing"}
    BY <1>7 DEF Dump
  <2>2. Saving(p) /\ pc[p] = "writing" /\ saved \subseteq covered[p]
        /\ \A q \in Call \ {p} : ~ Saving(q)
    BY <2>1 DEF Turns, Saving
  <2>3. db' = Whole(covered[p]) /\ pc' = [q \in Call |-> IF q = p THEN "done" ELSE pc[q]]
    BY <1>7, <2>2 DEF Dump, Saving
  <2>4. \A q \in Call : ~ Saving(q)' /\ pc'[q] # "mixing"
    BY <2>2, <2>3 DEF Saving
  <2>5. Turns'
    BY <2>4 DEF Turns
  <2>6. NothingLost'
    BY <2>1, <2>2, <2>3 DEF NothingLost, Whole
  <2>7. QED BY <2>5, <2>6
<1>8. CASE KillCall(p)
  <2>1. Gone(p) /\ UNCHANGED saved /\ ~ Dump(p) /\ pc'[p] = "off"
    BY <1>3, <1>8 DEF KillCall, Dump, CallShape, Gone, Become
  <2>2. CASE pc[p] \in {"writing", "mixing"}
    BY <1>8, <2>2 DEF KillCall, Turns, NothingLost
  <2>3. CASE pc[p] \notin {"writing", "mixing"}
    <3>1. db' = db /\ disturbed' = disturbed
      BY <1>8, <2>3 DEF KillCall, CallShape
    <3>2. QED BY <1>1, <1>2, <2>1, <2>3, <3>1, NotSaving DEF Saving
  <2>4. QED BY <2>2, <2>3
<1>9. QED BY <1>4, <1>5, <1>6, <1>7, <1>8 DEF CallStep

(* What is due of an item is found there.                                  *)
LEMMA FileExpected ==
  ASSUME LineInv, NEW w \in Workdir, NEW n
  PROVE  /\ n \in Name => Expected(w, n) \subseteq Known(file[w][n])
         /\ n \notin Name => Expected(w, n) = {}
         /\ Expected(w, n) # {} => n \in CoverageFile /\ file[w][n].exists
<1>1. Derived(w) /\ Decided(w)
  BY DEF LineInv
<1>2. CASE n \in CoverageFile /\ n \notin spoiled[w] /\ file[w][n].relative
  <2>1. file[w][n].exists
    BY <1>1, <1>2 DEF Derived, Name, CoverageFile
  <2>2. CASE n = "linecov"
    BY <1>1, <1>2, <2>1, <2>2 DEF Expected, Decided, Known, Name, CoverageFile
  <2>3. CASE n = "smatch_match"
    BY <1>1, <1>2, <2>1, <2>3 DEF Expected, Decided, Known, Name, CoverageFile, Needed
  <2>4. CASE n = "addr2line"
    BY <1>1, <1>2, <2>1, <2>4 DEF Expected, Decided, Known, Name, CoverageFile, Needed
  <2>5. QED BY <1>2, <2>2, <2>3, <2>4 DEF CoverageFile
<1>3. CASE n \notin CoverageFile
  <2>1. Expected(w, n) = {}
    BY <1>3 DEF Expected, CoverageFile
  <2>2. QED BY <2>1
<1>4. CASE n \in spoiled[w] \/ (n \in CoverageFile /\ ~ file[w][n].relative)
  <2>1. Expected(w, n) = {}
    BY <1>4 DEF Expected
  <2>2. QED BY <2>1
<1>5. QED BY <1>2, <1>3, <1>4

LEMMA DueFound ==
  ASSUME LineInv, NEW a \in CommandLine, NEW item \in Item
  PROVE  Due(a, item) \subseteq On(Report(a, item), try_get_coverage(a, item))
<1> DEFINE w == item[1]
           none(names) == \A n \in names : ~ file[w][n].exists
           used == IF item[2] # "dir" THEN {item[2]}
                   ELSE IF a.combine_cov_files THEN {"linecov", "smatch_match", "addr2line"}
                   ELSE {"linecov"}
                          \cup {n \in {"smatch_match"} : none({"linecov"})}
                          \cup {n \in {"addr2line"} : none({"linecov", "smatch_match"})}
<1>1. w \in Workdir /\ (item[2] # "dir" => item[2] \in Name)
  BY DEF Item
<1> SUFFICES ASSUME NEW n \in used, Expected(w, n) # {}
             PROVE  Expected(w, n) \subseteq try_get_coverage(a, item)
  BY DEF Due, On
<1>2. n \in CoverageFile /\ file[w][n].exists /\ Expected(w, n) \subseteq Known(file[w][n])
  BY <1>1, FileExpected DEF CoverageFile, Name
<1>3. CASE item[2] # "dir"
  BY <1>2, <1>3 DEF try_get_coverage, Exists
<1>4. CASE item[2] = "dir"
  <2>1. /\ DOMAIN LINECOV_FILES = {1, 2, 3} /\ LINECOV_FILES[1] = "linecov"
        /\ LINECOV_FILES[2] = "smatch_match" /\ LINECOV_FILES[3] = "addr2line"
    BY DEF LINECOV_FILES
  <2>2. \E i \in Existing(w) :
          LINECOV_FILES[i] = n /\ (a.combine_cov_files \/ \A k \in Existing(w) : i <= k)
    <3>1. CASE n = "linecov"
      BY <1>2, <2>1, <3>1 DEF Existing
    <3>2. CASE n = "smatch_match"
      BY <1>2, <1>4, <2>1, <3>2 DEF Existing
    <3>3. CASE n = "addr2line"
      BY <1>2, <1>4, <2>1, <3>3 DEF Existing
    <3>4. QED BY <1>2, <3>1, <3>2, <3>3 DEF CoverageFile
  <2> HIDE DEF used
  <2>3. Known(file[w][n]) \subseteq WorkdirCoverage(w, a.combine_cov_files)
    BY <2>2 DEF WorkdirCoverage
  <2>4. QED BY <1>2, <1>4, <2>3 DEF try_get_coverage
<1>5. QED BY <1>3, <1>4

LEMMA DueKeeps ==
  ASSUME LineInv, CallShape, DueCounted, NEW p \in Call, CallStep(p)
  PROVE  DueCounted'
<1> SUFFICES due'[p] \subseteq covered'[p]
  BY CallsApart DEF DueCounted
<1>1. due[p] \subseteq covered[p]
  BY DEF DueCounted
<1>2. CASE Gone(p)
  BY <1>2, GoneShape
<1>3. CASE MatchItem(p) /\ ~ Gone(p)
  <2> DEFINE a == args[p]
             item == a.items[at[p]]
             found == On(Report(a, item), try_get_coverage(a, item))
  <2>1. a \in CommandLine /\ item \in Item
    BY <1>3, AtItem DEF MatchItem
  <2>2. Due(a, item) \subseteq found
    BY <2>1, DueFound
  <2>3. covered' = [covered EXCEPT ![p] = @ \cup found] /\ due' = [due EXCEPT ![p] = @ \cup Due(a, item)]
    BY <1>3 DEF MatchItem
  <2> HIDE DEF found, item
  <2>4. QED BY <1>1, <2>2, <2>3 DEF CallShape
<1>4. CASE ~ MatchItem(p) /\ ~ Gone(p)
  BY <1>1, <1>4 DEF CallShape, CallStep, Start, Finish, Merge, Open, Dump, KillCall
<1>5. QED BY <1>2, <1>3, <1>4

LEMMA Invariant == Spec => []Inv
<1>1. Inv /\ [Next]_vars => Inv'
  <2> SUFFICES ASSUME Inv, [Next]_vars PROVE Inv'
    OBVIOUS
  <2>1. CASE \E w \in Workdir : LineStep(w) /\ UNCHANGED callVars
    BY <2>1, LineKeeps, LineKeepsCalls DEF Inv, Calls
  <2>2. CASE \E p \in Call : CallStep(p)
    <3>1. PICK p \in Call : CallStep(p)
      BY <2>2
    <3>2. UNCHANGED lineVars
      BY <3>1, CallsApart DEF Inv
    <3>3. LineInv'
      BY <3>2 DEF Inv, LineInv, LineShape, Derived, Decided, Needed, ReportLines, lineVars
    <3>4. QED BY <3>1, <3>3, ShapeKeeps, FoundedKeeps, TurnsKeeps, DueKeeps DEF Inv
  <2>3. CASE UNCHANGED vars
    <3>1. LineInv'
      BY <2>3 DEF Inv, LineInv, LineShape, Derived, Decided, Needed, ReportLines, vars, lineVars
    <3>2. CallShape' /\ Turns' /\ NothingLost' /\ DueCounted'
      BY <2>3 DEF Inv, CallShape, Turns, Saving, NothingLost, DueCounted, vars, callVars
    <3>3. Founded'
      BY <2>3 DEF Inv, Founded, DbJustified, Justified, Report, HasReport, vars, lineVars, callVars
    <3>4. QED BY <3>1, <3>2, <3>3 DEF Inv
  <2>4. QED BY <2>1, <2>2, <2>3 DEF Next
<1>2. QED BY <1>1, InvInit, PTL DEF Spec

(* The coverage files hold lines, the list of addresses addresses, of what *)
(* the workdir can execute; what calls count are entries of reports.       *)
THEOREM Typing == Spec => []TypeOK
<1>1. Inv => TypeOK
  <2> SUFFICES ASSUME Inv PROVE TypeOK
    OBVIOUS
  <2>1. \A w \in Workdir : \A n \in Name :
          /\ file[w][n].exists \in BOOLEAN /\ file[w][n].relative \in BOOLEAN
          /\ file[w][n].holds \subseteq IF n = "addr" THEN Addr ELSE Line
    <3> SUFFICES ASSUME NEW w \in Workdir, NEW n \in Name
                 PROVE  /\ file[w][n].exists \in BOOLEAN /\ file[w][n].relative \in BOOLEAN
                        /\ file[w][n].holds \subseteq IF n = "addr" THEN Addr ELSE Line
      OBVIOUS
    <3>1. file[w][n] \in File /\ executed[w] \in SUBSET Addr
      BY DEF Inv, LineInv, LineShape
    <3>2. LinesOf(executed[w]) \subseteq Line
      BY <3>1, LinesGrow
    <3>3. QED BY <3>1, <3>2 DEF Inv, LineInv, Derived, File
  <2>2. QED BY <2>1 DEF Inv, LineInv, LineShape, CallShape, TypeOK, Place, CoverageFile
<1>2. QED BY <1>1, Invariant, PTL

(* The database never holds an entry whose line was not executed, whoever  *)
(* writes the coverage files and the database at the same time, or dies.   *)
THEOREM Executed == Spec => []DbJustified
<1>1. Inv => DbJustified
  BY DEF Inv, Founded
<1>2. QED BY <1>1, Invariant, PTL

(* Calls that save one after the other lose nothing.                       *)
THEOREM Accumulated == Spec => []NothingLost
<1>1. Inv => NothingLost
  BY DEF Inv
<1>2. QED BY <1>1, Invariant, PTL

(* What was executed is counted if the file that is used was made after    *)
(* the last traces and nothing interrupted that.                           *)
THEOREM Counted == Spec => []DueCounted
<1>1. Inv => DueCounted
  BY DEF Inv
<1>2. QED BY <1>1, Invariant, PTL
=============================================================================
