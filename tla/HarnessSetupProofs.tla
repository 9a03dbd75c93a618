------------------------- MODULE HarnessSetupProofs -------------------------
(***************************************************************************)
(* What holds of the harness directories for every list of harnesses, any  *)
(* patterns, templates and command lines, and any number of calls.         *)
(***************************************************************************)
EXTENDS HarnessSetup, FiniteSetTheorems, WellFoundedInduction, TLAPS

FileName == {"linux", "template", "sharedir", "kafl"}

Shape ==
  /\ dir = [h \in Harness |-> [f \in FileName |-> dir[h][f]]]
  /\ call.inits \in BOOLEAN

Active == pc \in {"makedirs", "writing"}

(* The call has come to, or past, the opening of the kafl.yaml in hand.    *)
Last == pc = "writing" /\ (at = 5 \/ (at = 4 /\ open))

(* Without a campaign directory there are no harnesses.                    *)
Rooted == (root \/ Configured = {}) /\ (pc \in {"writing", "initialised", "scheduled", "unmatched"} => root)

(* A kafl.yaml vouches for its directory, except while it is written over. *)
Sound ==
  \A h \in Configured \ spoiled :
    Complete(h) \/ (pc = "writing" /\ h = InHand /\ (h \in call.had \/ Last))

(* What the call has written of the harness in hand is there.              *)
Written ==
  pc = "writing" => \A i \in 1..(at - 1) :
    \/ Skipped(InHand, Steps[i])
    \/ dir[InHand][Steps[i]].state = "whole" /\ dir[InHand][Steps[i]].call = calls

(* Nobody but the call configures the harnesses that it has still to do.   *)
NotYet ==
  Active => \A i \in todo :
    HARNESSES[i] \in Configured => HARNESSES[i] \in call.had \/ (i = First /\ Last)

(* The harnesses that are done are complete, and of this call.             *)
DoneSoFar ==
  pc \notin {"idle"} /\ call.inits =>
    /\ \A h \in SetUp : (~ \E i \in todo : h = HARNESSES[i]) =>
         Complete(h) /\ dir[h]["kafl"].call = calls
    /\ \A i \in todo : HARNESSES[i] \in SetUp
    /\ pc \in {"initialised", "scheduled", "unmatched"} => todo = {}

(* No file is of a later call; those of this one hold what it writes.      *)
Holds(h, f) ==
  LET new == Content(call, h, f)
      old == dir[h][f].holds \ new
  IN  new \subseteq dir[h][f].holds
      /\ \A s \in old : f = "sharedir" /\ \A t \in new : t[1] # s[1]

Dated ==
  \A h \in Harness, f \in FileName :
    /\ dir[h][f].call \in 0..calls
    /\ dir[h][f].state = "whole" /\ dir[h][f].call = calls => Holds(h, f)

(* The call that sets a campaign up leaves no other harnesses in it.       *)
OnlySetUp ==
  pc \notin {"idle"} /\ call.inits /\ call.by = "pipeline" =>
    /\ call.had = {}
    /\ Configured \subseteq SetUp
    /\ call.pattern \in DOMAIN Matches

Chosen ==
  pc \in {"scheduled", "unmatched"} =>
    scheduled = HarnessDirs(call.pattern) /\ call.by = "pipeline"

Inv ==
  /\ TypeOK /\ Shape /\ Rooted /\ Sound /\ Written /\ NotYet /\ DoneSoFar /\ OnlySetUp /\ Chosen

LEMMA Least == ASSUME NEW T, T \subseteq Nat, T # {} PROVE \E i \in T : \A j \in T : i <= j
<1> DEFINE R == OpToRel(<, Nat)
<1>1. IsWellFoundedOn(R, Nat)
  BY NatLessThanWellFounded
<1>2. ASSUME NEW x \in Nat, NEW y \in Nat, x < y PROVE <<x, y>> \in R
  BY <1>2 DEF OpToRel
<1> HIDE DEF R
<1>3. PICK i \in T : \A j \in T : ~ (<<j, i>> \in R)
  BY <1>1, WFMin
<1>4. ASSUME NEW j \in T PROVE i <= j
  <2>1. i \in Nat /\ j \in Nat
    OBVIOUS
  <2>2. ~ (j < i)
    BY <2>1, <1>2, <1>3
  <2>3. QED BY <2>1, <2>2
<1>5. QED BY <1>4

LEMMA FourSteps ==
  /\ Len(Steps) = 4 /\ DOMAIN Steps = 1..4 /\ Steps[4] = "kafl"
  /\ \A i \in 1..4 : Steps[i] \in FileName /\ (Steps[i] = "kafl" => i = 4)
  /\ \A i, j \in 1..4 : i # j => Steps[i] # Steps[j]
  /\ \A h : ~ Skipped(h, "kafl")
BY DEF Steps, FileName, Skipped

(* The assumption, taken apart.                                            *)
LEMMA Bounds == MaxCalls \in Nat
BY SetupAssumption, Zenon

LEMMA Listed == HARNESSES \in Seq(Harness)
BY SetupAssumption, Zenon

LEMMA Names ==
  /\ \A i \in DOMAIN HARNESSES : i \in Nat /\ HARNESSES[i] \in Harness
  /\ \A i, j \in DOMAIN HARNESSES : HARNESSES[i] = HARNESSES[j] => i = j
<1>1. DOMAIN HARNESSES = 1..Len(HARNESSES) /\ Len(HARNESSES) \in Nat
  BY Listed
<1>2. \A i \in DOMAIN HARNESSES : i \in Nat
  BY <1>1
<1>3. \A i \in DOMAIN HARNESSES : HARNESSES[i] \in Harness
  BY DEF Harness
<1>4. QED BY <1>2, <1>3, SetupAssumption

LEMMA Hand ==
  ASSUME TypeOK, Active
  PROVE  First \in todo /\ InHand = HARNESSES[First] /\ InHand \in Harness
<1>1. todo # {} /\ todo \subseteq Nat /\ todo \subseteq DOMAIN HARNESSES
  BY Names DEF TypeOK, Active
<1>2. \E i \in todo : \A j \in todo : i <= j
  BY <1>1, Least
<1>3. First \in todo
  BY <1>2 DEF First
<1>4. QED BY <1>1, <1>3, Names DEF InHand

(* Writing one file.                                                       *)
Put(c) == dir' = [dir EXCEPT ![InHand][File] = c]

LEMMA Updated ==
  ASSUME Shape, InHand \in Harness, File \in FileName, NEW c, Put(c)
  PROVE  /\ dir' = [g \in Harness |-> [e \in FileName |-> dir'[g][e]]]
         /\ dir'[InHand][File] = c
         /\ \A g \in Harness, e \in FileName :
              g # InHand \/ e # File => dir'[g][e] = dir[g][e]
<1>1. PICK h \in Harness, f \in FileName : h = InHand /\ f = File
  OBVIOUS
<1>2. dir' = [dir EXCEPT ![h][f] = c]
  BY <1>1 DEF Put
<1>3. /\ dir' = [g \in Harness |-> [e \in FileName |-> dir'[g][e]]]
      /\ dir'[h][f] = c
      /\ \A g \in Harness, e \in FileName : g # h \/ e # f => dir'[g][e] = dir[g][e]
  BY <1>2 DEF Shape
<1>4. QED BY <1>1, <1>3

LEMMA CompleteKaflWhole ==
  ASSUME NEW h, Complete(h) PROVE dir[h]["kafl"].state = "whole"
BY FourSteps DEF Complete

(* A harness whose files do not change is as complete as it was.           *)
LEMMA SameFiles ==
  ASSUME NEW h, \A f \in FileName : dir'[h][f] = dir[h][f]
  PROVE  /\ Complete(h)' <=> Complete(h)
         /\ dir'[h]["kafl"] = dir[h]["kafl"]
BY FourSteps DEF Complete, FileName, Skipped

(* A harness is complete when its last file is written.                    *)
LEMMA Finished ==
  ASSUME Written, pc = "writing", at = 5
  PROVE  Complete(InHand) /\ dir[InHand]["kafl"].call = calls /\ dir[InHand]["kafl"].state = "whole"
BY FourSteps DEF Written, Complete

LEMMA InvInit == Init => Inv
<1> SUFFICES ASSUME Init PROVE Inv
  OBVIOUS
<1>1. Shape /\ \A h \in Harness, f \in FileName : dir[h][f] = NoFile
  <2>1. {Steps[i] : i \in DOMAIN Steps} = FileName
    BY FourSteps DEF Steps, FileName
  <2>2. dir = [h \in Harness |-> [f \in FileName |-> NoFile]]
    BY <2>1 DEF Init
  <2>3. \A h \in Harness, f \in FileName : dir[h][f] = NoFile
    BY <2>2
  <2>4. dir = [h \in Harness |-> [f \in FileName |-> dir[h][f]]]
    BY <2>2
  <2>5. call.inits = FALSE
    BY DEF Init, NoCall
  <2>6. QED BY <2>3, <2>4, <2>5 DEF Shape
<1>2. TypeOK
  <2>1. \A h \in Harness : \A i \in DOMAIN Steps : dir[h][Steps[i]].state = "none"
    BY <1>1, FourSteps DEF NoFile
  <2>2. call.missing = {} /\ call.had = {}
    BY DEF Init, NoCall
  <2>3. calls \in 0..MaxCalls /\ at \in 1..(Len(Steps) + 1)
    BY FourSteps, Bounds DEF Init
  <2>4. QED BY <2>1, <2>2, <2>3 DEF Init, TypeOK
<1>3. Configured = {}
  BY <1>1 DEF Configured, NoFile, FileName
<1>4. Rooted /\ Sound /\ Written /\ NotYet /\ DoneSoFar /\ OnlySetUp /\ Chosen
  BY <1>3 DEF Init, Rooted, Sound, Written, NotYet, DoneSoFar, OnlySetUp, Chosen, Active
<1>5. QED BY <1>1, <1>2, <1>4 DEF Inv
-----------------------------------------------------------------------------
(* What is left alone when no file changes.                                *)
LEMMA SameDir ==
  ASSUME UNCHANGED dir
  PROVE  /\ Configured' = Configured
         /\ \A h : Complete(h)' <=> Complete(h)
BY DEF Configured, Complete, Skipped

LEMMA SamePlace ==
  ASSUME UNCHANGED todo PROVE First' = First /\ InHand' = InHand
BY DEF First, InHand

LEMMA SameSetUp ==
  ASSUME UNCHANGED call PROVE SetUp' = SetUp
BY DEF SetUp, Selected, InitPattern

(* Without a pattern and with "all" everything is selected.                *)
LEMMA AllOrEmpty ==
  ASSUME NEW p \in DOMAIN Matches PROVE Selected(InitPattern(p)) = Selected(p)
BY SetupAssumption, Names DEF Selected, InitPattern

LEMMA SameShape ==
  ASSUME Shape, UNCHANGED <<dir, call>> PROVE Shape'
BY DEF Shape

LEMMA Called ==
  ASSUME Inv, NEW by, NEW r \in Requests, NEW share, NEW missing \in SUBSET Missing,
         NewCall(by, r, share, missing),
         by = "init_harness" \/ by = "pipeline",
         todo' = Selected(r.pattern) \/ todo' = {},
         \/ pc' = "makedirs" /\ todo' = Selected(r.pattern) /\ todo' # {}
         \/ pc' = "idle"
         \/ pc' = "initialised" /\ root /\ by = "pipeline"
  PROVE  Inv'
<1> USE DEF Inv, NewCall
<1>1. UNCHANGED dir /\ UNCHANGED root /\ UNCHANGED spoiled
  OBVIOUS
<1>2. Configured' = Configured /\ \A h : Complete(h)' <=> Complete(h)
  BY <1>1, SameDir
<1>3. /\ call'.by = by /\ call'.pattern = r.pattern /\ call'.missing = missing
      /\ call'.had = Configured /\ call'.inits = (by = "init_harness" \/ ~ root)
  OBVIOUS
<1>4. r.pattern \in DOMAIN Matches
  BY SetupAssumption
<1>5. SetUp' = {HARNESSES[i] : i \in Selected(r.pattern)}
  <2>1. SetUp' = {HARNESSES[i] : i \in Selected(InitPattern(r.pattern))}
    BY <1>3 DEF SetUp, Selected, InitPattern
  <2>2. QED BY <2>1, <1>4, AllOrEmpty
<1>6. TypeOK'
  <2>1. Configured \subseteq Harness
    BY DEF Configured
  <2>2. Selected(r.pattern) \subseteq DOMAIN HARNESSES
    BY DEF Selected
  <2>3. calls' \in 0..MaxCalls
    BY Bounds DEF TypeOK
  <2>4. open = FALSE
    BY DEF TypeOK
  <2>5. QED BY <2>1, <2>2, <2>3, <2>4, <1>3, FourSteps DEF TypeOK
<1>7. Shape'
  <2>1. dir' = [h \in Harness |-> [f \in FileName |-> dir'[h][f]]]
    BY <1>1 DEF Shape
  <2>2. call'.inits \in BOOLEAN
    BY <1>3
  <2>3. QED BY <2>1, <2>2 DEF Shape
<1>8. Rooted'
  BY <1>1, <1>2 DEF Rooted
<1>9. Sound'
  BY <1>1, <1>2 DEF Sound
<1>10. Written' /\ Chosen'
  BY DEF Written, Chosen
<1>11. NotYet'
  BY <1>2, <1>3 DEF NotYet
<1>12. DoneSoFar'
  BY <1>3, <1>5 DEF DoneSoFar
<1>13. OnlySetUp'
  <2>1. ASSUME ~ root PROVE Configured = {}
    BY <2>1 DEF Rooted
  <2>2. QED BY <2>1, <1>2, <1>3, <1>4 DEF OnlySetUp
<1>14. QED BY <1>6, <1>7, <1>8, <1>9, <1>10, <1>11, <1>12, <1>13

LEMMA Starts ==
  ASSUME Inv, NEW r \in Requests, NEW share \in Sharedirs, NEW missing \in SUBSET Missing,
         InitHarness(r, share, missing) \/ StartPipeline(r, share, missing)
  PROVE  Inv'
<1>1. CASE InitHarness(r, share, missing)
  BY <1>1, Called DEF InitHarness, Accepted
<1>2. CASE StartPipeline(r, share, missing)
  <2> DEFINE i == [r EXCEPT !.pattern = InitPattern(@)]
  <2>1. r \in [pattern : DOMAIN Matches, template : STRING, seeds : STRING]
    BY SetupAssumption, Zenon
  <2>2. Selected(i.pattern) = Selected(r.pattern)
    <3>1. i.pattern = InitPattern(r.pattern)
      BY <2>1
    <3>2. r.pattern \in DOMAIN Matches
      BY <2>1
    <3>3. QED BY <3>1, <3>2, AllOrEmpty
  <2>3. Accepted(i) => Selected(i.pattern) # {}
    BY DEF Accepted
  <2>4. /\ NewCall("pipeline", r, share, missing)
        /\ todo' = IF ~ root /\ Accepted(i) THEN Selected(i.pattern) ELSE {}
        /\ pc' = IF root THEN "initialised" ELSE IF Accepted(i) THEN "makedirs" ELSE "idle"
    BY <1>2 DEF StartPipeline
  <2> HIDE DEF i
  <2>5. QED BY <2>2, <2>3, <2>4, Called
<1>3. QED BY <1>1, <1>2
-----------------------------------------------------------------------------
LEMMA Made == ASSUME Inv, MakeDirs PROVE Inv'
<1> USE DEF Inv, MakeDirs
<1>1. UNCHANGED dir /\ UNCHANGED todo /\ UNCHANGED call /\ UNCHANGED <<dir, call>>
  OBVIOUS
<1>2. Configured' = Configured /\ \A h : Complete(h)' <=> Complete(h)
  BY <1>1, SameDir
<1>3. First' = First /\ InHand' = InHand /\ SetUp' = SetUp
  BY <1>1, SamePlace, SameSetUp
<1>4. open = FALSE
  BY DEF TypeOK
<1>5. TypeOK'
  BY <1>4, FourSteps DEF TypeOK
<1>6. Shape'
  BY <1>1, SameShape
<1>7. Rooted'
  BY DEF Rooted
<1>8. Sound'
  BY <1>2 DEF Sound
<1>9. Written'
  BY DEF Written
<1>10. NotYet'
  BY <1>2, <1>3 DEF NotYet, Active, Last
<1>11. DoneSoFar' /\ OnlySetUp'
  BY <1>2, <1>3 DEF DoneSoFar, OnlySetUp
<1>12. Chosen'
  BY DEF Chosen
<1>13. QED BY <1>5, <1>6, <1>7, <1>8, <1>9, <1>10, <1>11, <1>12

(* A call that stops answers for the harness in hand, if it has to.        *)
LEMMA Stopped ==
  ASSUME Inv, Active, Stop, UNCHANGED <<calls, call, at, root, dir, scheduled>>
  PROVE  Inv'
<1> USE DEF Inv, Stop
<1>1. UNCHANGED dir /\ UNCHANGED <<dir, call>>
  OBVIOUS
<1>2. Configured' = Configured /\ \A h : Complete(h)' <=> Complete(h)
  BY <1>1, SameDir
<1>3. InHand \in Harness
  BY Hand
<1>4. spoiled' = spoiled \cup
        {h \in {InHand} : pc = "writing" /\ (h \in call.had \/ (open /\ File = "kafl"))}
  BY DEF Spoil
<1>5. TypeOK'
  BY <1>3, <1>4 DEF TypeOK
<1>6. Shape'
  BY <1>1, SameShape
<1>7. Rooted'
  BY <1>2 DEF Rooted
<1>8. ASSUME NEW h \in Configured \ spoiled' PROVE Complete(h)
  <2>1. CASE Complete(h)
    BY <2>1
  <2>2. CASE pc = "writing" /\ h = InHand /\ h \in call.had
    BY <2>2, <1>4
  <2>3. CASE pc = "writing" /\ h = InHand /\ at = 5
    BY <2>3, Finished
  <2>4. CASE pc = "writing" /\ h = InHand /\ at = 4 /\ open
    BY <2>4, <1>4, FourSteps DEF File
  <2>5. QED BY <1>4, <2>1, <2>2, <2>3, <2>4 DEF Sound, Last
<1>9. Sound'
  BY <1>2, <1>8 DEF Sound
<1>10. Written' /\ NotYet' /\ DoneSoFar' /\ OnlySetUp' /\ Chosen'
  BY DEF Written, NotYet, DoneSoFar, OnlySetUp, Chosen, Active
<1>11. QED BY <1>5, <1>6, <1>7, <1>9, <1>10

LEMMA Stops == ASSUME Inv, Fail \/ Kill PROVE Inv'
<1>1. Active /\ Stop /\ UNCHANGED <<calls, call, at, root, dir, scheduled>>
  BY DEF Fail, Kill, Active
<1>2. QED BY <1>1, Stopped

(* A file that is not for this harness is passed over; kafl.yaml is for    *)
(* all of them.                                                            *)
LEMMA Skips ==
  ASSUME Inv, OpenFile, Skipped(InHand, File) PROVE Inv'
<1> USE DEF Inv
<1>1. /\ pc = "writing" /\ ~ open /\ at' = at + 1 /\ UNCHANGED <<open, dir>>
      /\ UNCHANGED <<calls, call, pc, todo, root, scheduled, spoiled>>
      /\ UNCHANGED dir /\ UNCHANGED todo /\ UNCHANGED call
  BY DEF OpenFile
<1>2. Configured' = Configured /\ \A h : Complete(h)' <=> Complete(h)
  BY <1>1, SameDir
<1>3. First' = First /\ InHand' = InHand /\ SetUp' = SetUp
  BY <1>1, SamePlace, SameSetUp
<1>4. at \in 1..3
  <2>1. at \in 1..4
    BY FourSteps DEF OpenFile, TypeOK
  <2>2. at # 4
    BY FourSteps DEF File
  <2>3. QED BY <2>1, <2>2
<1>5. ~ Last /\ ~ Last'
  BY <1>1, <1>4 DEF Last
<1>6. TypeOK'
  BY <1>1, <1>4, FourSteps DEF TypeOK
<1>7. Shape'
  BY <1>1, SameShape
<1>8. Rooted' /\ Sound'
  BY <1>1, <1>2, <1>3, <1>5 DEF Rooted, Sound
<1>9. Written'
  <2> SUFFICES ASSUME NEW i \in 1..at
               PROVE  \/ Skipped(InHand, Steps[i])
                      \/ dir[InHand][Steps[i]].state = "whole"
                         /\ dir[InHand][Steps[i]].call = calls
    BY <1>1, <1>3, <1>4 DEF Written, Skipped
  <2>1. CASE i = at
    BY <2>1 DEF File
  <2>2. CASE i # at
    <3>1. i \in 1..(at - 1)
      BY <2>2, <1>4
    <3>2. QED BY <3>1, <1>1 DEF Written
  <2>3. QED BY <2>1, <2>2
<1>10. NotYet'
  BY <1>1, <1>2, <1>3, <1>5 DEF NotYet, Active
<1>11. DoneSoFar' /\ OnlySetUp' /\ Chosen'
  BY <1>1, <1>2, <1>3 DEF DoneSoFar, OnlySetUp, Chosen
<1>12. QED BY <1>6, <1>7, <1>8, <1>9, <1>10, <1>11
-----------------------------------------------------------------------------
(* Opening a file of the harness in hand, or filling the one that is open. *)
Write(c) ==
  /\ pc = "writing" /\ at <= Len(Steps)
  /\ c.state \in {"torn", "whole"}
  /\ Put(c)
  /\ UNCHANGED <<calls, call, pc, todo, root, scheduled, spoiled>>
  /\ \/ ~ open /\ open' = TRUE /\ at' = at
     \/ open /\ open' = FALSE /\ at' = at + 1 /\ c.state = "whole" /\ c.call = calls

LEMMA Writes == ASSUME Inv, NEW c, Write(c) PROVE Inv'
<1> USE DEF Inv, Write
<1>1. First' = First /\ InHand' = InHand /\ SetUp' = SetUp
  BY SamePlace, SameSetUp
<1>2. First \in todo /\ InHand = HARNESSES[First] /\ InHand \in Harness
  BY Hand DEF Active
<1>3. at \in 1..4 /\ File \in FileName /\ (File = "kafl" <=> at = 4)
  BY FourSteps DEF TypeOK, File
<1>4. /\ dir' = [g \in Harness |-> [e \in FileName |-> dir'[g][e]]]
      /\ dir'[InHand][File] = c
      /\ \A g \in Harness, e \in FileName : g # InHand \/ e # File => dir'[g][e] = dir[g][e]
  BY <1>2, <1>3, Updated
<1>5. ASSUME NEW h \in Harness, h # InHand
      PROVE  /\ Complete(h)' <=> Complete(h)
             /\ dir'[h]["kafl"] = dir[h]["kafl"]
             /\ h \in Configured' <=> h \in Configured
  <2>1. \A f \in FileName : dir'[h][f] = dir[h][f]
    BY <1>4, <1>5
  <2>2. (Complete(h)' <=> Complete(h)) /\ dir'[h]["kafl"] = dir[h]["kafl"]
    BY <2>1, SameFiles
  <2>3. QED BY <2>2 DEF Configured
<1>6. at # 4 => dir'[InHand]["kafl"] = dir[InHand]["kafl"]
  BY <1>2, <1>3, <1>4 DEF FileName
<1>7. InHand \in Configured' => InHand \in call.had \/ Last'
  <2>1. CASE at = 4
    BY <2>1 DEF Last
  <2>2. CASE at # 4
    <3>1. InHand \in Configured' => InHand \in Configured
      BY <1>6, <2>2 DEF Configured
    <3>2. ~ Last
      BY <2>2, <1>3 DEF Last
    <3>3. QED BY <1>2, <3>1, <3>2 DEF NotYet, Active
  <2>3. QED BY <2>1, <2>2
<1>8. TypeOK'
  <2>1. \A h \in Harness : \A i \in DOMAIN Steps :
          dir'[h][Steps[i]].state \in {"none", "torn", "whole"}
    <3> SUFFICES ASSUME NEW h \in Harness, NEW i \in DOMAIN Steps
                 PROVE  dir'[h][Steps[i]].state \in {"none", "torn", "whole"}
      OBVIOUS
    <3>1. Steps[i] \in FileName
      BY FourSteps
    <3>2. CASE h = InHand /\ Steps[i] = File
      BY <3>2, <1>4
    <3>3. CASE h # InHand \/ Steps[i] # File
      BY <3>1, <3>3, <1>4 DEF TypeOK
    <3>4. QED BY <3>2, <3>3
  <2>2. /\ at' \in 1..(Len(Steps) + 1) /\ open' \in BOOLEAN
        /\ open' => pc' = "writing" /\ at' <= Len(Steps)
    <3>1. (open' = TRUE /\ at' = at) \/ (open' = FALSE /\ at' = at + 1)
      OBVIOUS
    <3>2. Len(Steps) = 4 /\ pc' = "writing"
      BY FourSteps
    <3>3. open' \in BOOLEAN
      BY <3>1
    <3>4. at' \in 1..5 /\ (open' => at' <= 4)
      BY <3>1, <1>3
    <3>5. QED BY <3>2, <3>3, <3>4
  <2>3. QED BY <2>1, <2>2 DEF TypeOK
<1>9. Shape'
  BY <1>4 DEF Shape
<1>10. Configured' \subseteq Configured \cup {InHand}
  BY <1>5 DEF Configured
<1>11. Rooted'
  BY DEF Rooted
<1>12. Sound'
  <2> SUFFICES ASSUME NEW h \in Configured', h \notin spoiled
               PROVE  Complete(h)' \/ (h = InHand /\ (h \in call.had \/ Last'))
    BY <1>1 DEF Sound
  <2>1. CASE h = InHand
    BY <2>1, <1>7
  <2>2. CASE h # InHand
    <3>1. h \in Harness /\ h \in Configured
      BY <2>2, <1>5 DEF Configured
    <3>2. Complete(h)
      BY <2>2, <3>1 DEF Sound
    <3>3. QED BY <2>2, <3>1, <3>2, <1>5
  <2>3. QED BY <2>1, <2>2
<1>13. Written'
  <2> SUFFICES ASSUME NEW i \in 1..(at' - 1)
               PROVE  \/ Skipped(InHand, Steps[i])
                      \/ dir'[InHand][Steps[i]].state = "whole"
                         /\ dir'[InHand][Steps[i]].call = calls
    BY <1>1 DEF Written, Skipped
  <2>1. CASE i = at
    BY <2>1, <1>3, <1>4 DEF File
  <2>2. CASE i # at
    <3>1. i \in 1..(at - 1) /\ i \in 1..4
      BY <2>2, <1>3
    <3>2. Steps[i] \in FileName /\ Steps[i] # File
      BY <2>2, <3>1, <1>3, FourSteps DEF File
    <3>3. dir'[InHand][Steps[i]] = dir[InHand][Steps[i]]
      BY <1>2, <1>4, <3>2
    <3>4. QED BY <3>1, <3>3 DEF Written
  <2>3. QED BY <2>1, <2>2
<1>14. NotYet'
  <2> SUFFICES ASSUME NEW i \in todo, HARNESSES[i] \in Configured'
               PROVE  HARNESSES[i] \in call.had \/ (i = First /\ Last')
    BY <1>1 DEF NotYet
  <2>1. CASE i = First
    BY <2>1, <1>2, <1>7
  <2>2. CASE i # First
    <3>1. HARNESSES[i] # InHand /\ HARNESSES[i] \in Harness
      BY <2>2, <1>2, Names DEF TypeOK
    <3>2. QED BY <2>2, <3>1, <1>5 DEF NotYet, Active
  <2>3. QED BY <2>1, <2>2
<1>15. DoneSoFar'
  <2> SUFFICES ASSUME call.inits
               PROVE  /\ \A h \in SetUp : (~ \E i \in todo : h = HARNESSES[i]) =>
                           Complete(h)' /\ dir'[h]["kafl"].call = calls
                      /\ \A i \in todo : HARNESSES[i] \in SetUp
    BY <1>1 DEF DoneSoFar
  <2>1. \A h \in SetUp : h \in Harness
    BY Names DEF SetUp, Selected
  <2>2. ASSUME NEW h \in SetUp, ~ \E i \in todo : h = HARNESSES[i]
        PROVE  Complete(h)' /\ dir'[h]["kafl"].call = calls
    <3>1. h # InHand /\ h \in Harness
      BY <2>1, <2>2, <1>2
    <3>2. Complete(h) /\ dir[h]["kafl"].call = calls
      BY <2>2 DEF DoneSoFar
    <3>3. QED BY <3>1, <3>2, <1>5
  <2>3. QED BY <2>2 DEF DoneSoFar
<1>16. OnlySetUp'
  <2>1. call.inits => InHand \in SetUp
    BY <1>2 DEF DoneSoFar
  <2>2. QED BY <2>1, <1>1, <1>10 DEF OnlySetUp
<1>17. Chosen'
  BY DEF Chosen
<1>18. QED BY <1>8, <1>9, <1>11, <1>12, <1>13, <1>14, <1>15, <1>16, <1>17

(* What is put in place of a file: by opening it, or by filling it.        *)
LEMMA Contents ==
  /\ Truncated.state = "torn" /\ Truncated.call = 0
  /\ Filled.state = "whole" /\ Filled.call = calls
  /\ Filled.holds = Over(Kept, Content(call, InHand, File))
BY DEF Truncated, Torn, Filled, Whole

LEMMA Opens == ASSUME Inv, OpenFile PROVE Inv'
<1>1. CASE Skipped(InHand, File)
  BY <1>1, Skips
<1>2. CASE ~ Skipped(InHand, File)
  <2>1. PICK c : c = Truncated
    OBVIOUS
  <2>2. c.state = "torn"
    BY <2>1, Contents
  <2>3. Put(c) /\ open' = TRUE /\ at' = at
    BY <1>2, <2>1 DEF OpenFile, Put
  <2>4. Write(c)
    BY <2>2, <2>3 DEF OpenFile, Write
  <2>5. QED BY <2>4, Writes
<1>3. QED BY <1>1, <1>2

LEMMA Fills == ASSUME Inv, FillFile PROVE Inv'
<1>1. PICK c : c = Filled
  OBVIOUS
<1>2. c.state = "whole" /\ c.call = calls /\ c.state \in {"torn", "whole"}
  BY <1>1, Contents
<1>3. /\ pc = "writing" /\ open /\ Put(c)
      /\ open' = FALSE /\ at' = at + 1
      /\ UNCHANGED <<calls, call, pc, todo, root, scheduled, spoiled>>
  BY <1>1 DEF FillFile, Put
<1>4. at <= Len(Steps)
  BY <1>3 DEF Inv, TypeOK
<1>5. Write(c)
  BY <1>2, <1>3, <1>4 DEF Write
<1>6. QED BY <1>5, Writes
-----------------------------------------------------------------------------
LEMMA Advances == ASSUME Inv, NextHarness PROVE Inv'
<1> USE DEF Inv
<1>1. /\ pc = "writing" /\ ~ open /\ todo' = todo \ {First}
      /\ pc' = IF todo' = {} THEN "initialised" ELSE "makedirs"
      /\ spoiled' = spoiled \ {InHand}
      /\ UNCHANGED <<calls, call, at, open, root, dir, scheduled>>
      /\ UNCHANGED dir /\ UNCHANGED call /\ UNCHANGED <<dir, call>>
  BY DEF NextHarness
<1>2. Configured' = Configured /\ \A h : Complete(h)' <=> Complete(h)
  BY <1>1, SameDir
<1>3. SetUp' = SetUp
  BY <1>1, SameSetUp
<1>4. First \in todo /\ InHand = HARNESSES[First] /\ InHand \in Harness
  BY <1>1, Hand DEF Active
<1>5. at = 5
  BY FourSteps DEF NextHarness, TypeOK
<1>6. Complete(InHand) /\ dir[InHand]["kafl"].call = calls
  BY <1>1, <1>5, Finished
<1>7. TypeOK'
  BY <1>1, <1>5, FourSteps DEF TypeOK
<1>8. Shape' /\ Rooted' /\ Written'
  BY <1>1, <1>2, SameShape DEF Rooted, Written
<1>9. Sound'
  BY <1>1, <1>2, <1>6 DEF Sound
<1>10. NotYet'
  BY <1>1, <1>2 DEF NotYet, Active
<1>11. DoneSoFar'
  BY <1>1, <1>2, <1>3, <1>4, <1>6 DEF DoneSoFar
<1>12. OnlySetUp' /\ Chosen'
  BY <1>1, <1>2, <1>3 DEF OnlySetUp, Chosen
<1>13. QED BY <1>7, <1>8, <1>9, <1>10, <1>11, <1>12

LEMMA Schedules == ASSUME Inv, Schedule PROVE Inv'
<1> USE DEF Inv
<1>1. /\ pc = "initialised" /\ call.by = "pipeline"
      /\ scheduled' = HarnessDirs(call.pattern)
      /\ pc' = IF scheduled' = {} THEN "unmatched" ELSE "scheduled"
      /\ UNCHANGED <<calls, call, todo, at, open, root, dir, spoiled>>
      /\ UNCHANGED dir /\ UNCHANGED call /\ UNCHANGED <<dir, call>>
  BY DEF Schedule
<1>2. Configured' = Configured /\ \A h : Complete(h)' <=> Complete(h)
  BY <1>1, SameDir
<1>3. SetUp' = SetUp
  BY <1>1, SameSetUp
<1>4. HarnessDirs(call.pattern) \subseteq Harness
  BY DEF HarnessDirs, Configured
<1>5. TypeOK'
  BY <1>1, <1>4 DEF TypeOK
<1>6. Shape' /\ Rooted' /\ Sound' /\ Written' /\ NotYet'
  BY <1>1, <1>2, SameShape DEF Rooted, Sound, Written, NotYet, Active
<1>7. DoneSoFar' /\ OnlySetUp'
  BY <1>1, <1>2, <1>3 DEF DoneSoFar, OnlySetUp
<1>8. Chosen'
  BY <1>1, <1>2 DEF Chosen, HarnessDirs
<1>9. QED BY <1>5, <1>6, <1>7, <1>8

LEMMA Waits == ASSUME Inv, UNCHANGED vars PROVE Inv'
<1> USE DEF Inv
<1>1. /\ UNCHANGED <<calls, call, pc, todo, at, open, root, dir, scheduled, spoiled>>
      /\ UNCHANGED dir /\ UNCHANGED call /\ UNCHANGED todo /\ UNCHANGED <<dir, call>>
  BY DEF vars
<1>2. Configured' = Configured /\ \A h : Complete(h)' <=> Complete(h)
  BY <1>1, SameDir
<1>3. First' = First /\ InHand' = InHand /\ SetUp' = SetUp
  BY <1>1, SamePlace, SameSetUp
<1>4. TypeOK' /\ Shape'
  BY <1>1, SameShape DEF TypeOK
<1>5. Rooted' /\ Sound'
  BY <1>1, <1>2, <1>3 DEF Rooted, Sound, Last
<1>6. Written' /\ NotYet'
  BY <1>1, <1>2, <1>3 DEF Written, Skipped, NotYet, Active, Last
<1>7. DoneSoFar' /\ OnlySetUp'
  BY <1>1, <1>2, <1>3 DEF DoneSoFar, OnlySetUp
<1>8. Chosen'
  BY <1>1, <1>2 DEF Chosen, HarnessDirs
<1>9. QED BY <1>4, <1>5, <1>6, <1>7, <1>8

LEMMA InvNext == Inv /\ [Next]_vars => Inv'
<1> SUFFICES ASSUME Inv, [Next]_vars PROVE Inv'
  OBVIOUS
<1>1. ASSUME NEW r \in Requests, NEW share \in Sharedirs, NEW missing \in SUBSET Missing,
             InitHarness(r, share, missing) \/ StartPipeline(r, share, missing)
      PROVE  Inv'
  BY <1>1, Starts
<1>2. CASE MakeDirs
  BY <1>2, Made
<1>3. CASE Fail \/ Kill
  BY <1>3, Stops
<1>4. CASE OpenFile
  BY <1>4, Opens
<1>5. CASE FillFile
  BY <1>5, Fills
<1>6. CASE NextHarness
  BY <1>6, Advances
<1>7. CASE Schedule
  BY <1>7, Schedules
<1>8. CASE UNCHANGED vars
  BY <1>8, Waits
<1>9. QED BY <1>1, <1>2, <1>3, <1>4, <1>5, <1>6, <1>7, <1>8 DEF Next

LEMMA Invariant == Spec => []Inv
<1>1. QED BY InvInit, InvNext, PTL DEF Spec

(* What is written over a file holds the new content, and of the old one   *)
(* at most what the sharedir has under other names.                        *)
LEMMA FilledHolds ==
  LET new == Content(call, InHand, File) IN
  /\ new \subseteq Filled.holds
  /\ \A s \in Filled.holds \ new : File = "sharedir" /\ \A t \in new : t[1] # s[1]
<1> DEFINE new == Content(call, InHand, File)
<1>1. Filled.holds = new \cup {s \in Kept : \A t \in new : t[1] # s[1]}
  BY Contents DEF Over
<1>2. Kept # {} => File = "sharedir"
  BY DEF Kept
<1> HIDE DEF new
<1>3. QED BY <1>1, <1>2 DEF new

LEMMA DatedInit == Init => Dated
<1> SUFFICES ASSUME Init PROVE Dated
  OBVIOUS
<1>1. {Steps[i] : i \in DOMAIN Steps} = FileName
  BY FourSteps DEF Steps, FileName
<1>2. dir = [h \in Harness |-> [f \in FileName |-> NoFile]]
  BY <1>1 DEF Init
<1>3. \A h \in Harness, f \in FileName : dir[h][f] = NoFile
  BY <1>2
<1>4. NoFile.call = 0 /\ NoFile.state = "none" /\ calls = 0
  BY DEF NoFile, Init
<1>5. QED BY <1>3, <1>4 DEF Dated

(* A step that leaves the files alone, or belongs to the next call.        *)
LEMMA DatedStays ==
  ASSUME Dated, calls \in Nat, UNCHANGED dir,
         (calls' = calls /\ call' = call) \/ calls' = calls + 1
  PROVE  Dated'
<1> SUFFICES ASSUME NEW h \in Harness, NEW f \in FileName
             PROVE  /\ dir[h][f].call \in 0..calls'
                    /\ dir[h][f].state = "whole" /\ dir[h][f].call = calls' => Holds(h, f)'
  BY DEF Dated
<1>1. dir[h][f].call \in 0..calls
  BY DEF Dated
<1>2. CASE calls' = calls /\ call' = call
  <2>1. Holds(h, f)' <=> Holds(h, f)
    BY <1>2 DEF Holds, Content
  <2>2. QED BY <1>1, <1>2, <2>1 DEF Dated
<1>3. CASE calls' = calls + 1
  BY <1>1, <1>3
<1>4. QED BY <1>2, <1>3

LEMMA DatedWrite ==
  ASSUME Inv, Dated, calls \in Nat, pc = "writing", at \in 1..4, NEW c, Put(c),
         calls' = calls, call' = call,
         (c.state = "torn" /\ c.call = 0) \/ c = Filled
  PROVE  Dated'
<1>1. InHand \in Harness /\ File \in FileName
  BY Hand, FourSteps DEF Inv, Active, File
<1>2. /\ dir'[InHand][File] = c
      /\ \A g \in Harness, e \in FileName : g # InHand \/ e # File => dir'[g][e] = dir[g][e]
  BY <1>1, Updated DEF Inv
<1> SUFFICES ASSUME NEW h \in Harness, NEW f \in FileName
             PROVE  /\ dir'[h][f].call \in 0..calls
                    /\ dir'[h][f].state = "whole" /\ dir'[h][f].call = calls => Holds(h, f)'
  BY DEF Dated
<1>3. CASE h # InHand \/ f # File
  <2>1. dir'[h][f] = dir[h][f]
    BY <1>2, <1>3
  <2>2. Holds(h, f)' <=> Holds(h, f)
    BY <2>1 DEF Holds, Content
  <2>3. QED BY <2>1, <2>2 DEF Dated
<1>4. CASE h = InHand /\ f = File /\ c.state = "torn" /\ c.call = 0
  BY <1>2, <1>4
<1>5. CASE h = InHand /\ f = File /\ c = Filled
  <2>1. dir'[h][f] = Filled /\ Filled.call = calls
    BY <1>2, <1>5, Contents
  <2>2. Content(call', h, f) = Content(call, InHand, File)
    BY <1>5 DEF Content
  <2>3. Holds(h, f)'
    BY <2>1, <2>2, <1>5, FilledHolds DEF Holds
  <2>4. QED BY <2>1, <2>3
<1>6. QED BY <1>3, <1>4, <1>5

LEMMA DatedNext == Inv /\ Dated /\ [Next]_vars => Dated'
<1> SUFFICES ASSUME Inv, Dated, [Next]_vars PROVE Dated'
  OBVIOUS
<1>1. calls \in Nat
  BY Bounds DEF Inv, TypeOK
<1>2. ASSUME NEW r \in Requests, NEW share \in Sharedirs, NEW missing \in SUBSET Missing,
             InitHarness(r, share, missing) \/ StartPipeline(r, share, missing)
      PROVE  Dated'
  <2>1. UNCHANGED dir /\ calls' = calls + 1
    BY <1>2 DEF InitHarness, StartPipeline, NewCall
  <2>2. QED BY <1>1, <2>1, DatedStays
<1>3. CASE MakeDirs \/ Fail \/ NextHarness \/ Schedule \/ Kill \/ UNCHANGED vars
  <2>1. UNCHANGED dir /\ calls' = calls /\ call' = call
    BY <1>3 DEF MakeDirs, Fail, NextHarness, Schedule, Kill, vars
  <2>2. QED BY <1>1, <2>1, DatedStays
<1>4. CASE OpenFile
  <2>1. CASE Skipped(InHand, File)
    <3>1. UNCHANGED dir /\ calls' = calls /\ call' = call
      BY <1>4, <2>1 DEF OpenFile
    <3>2. QED BY <1>1, <3>1, DatedStays
  <2>2. CASE ~ Skipped(InHand, File)
    <3>1. PICK c : c = Truncated
      OBVIOUS
    <3>2. pc = "writing" /\ at \in 1..4 /\ Put(c) /\ calls' = calls /\ call' = call
      BY <1>4, <2>2, <3>1, FourSteps DEF OpenFile, Put, Inv, TypeOK
    <3>3. c.state = "torn" /\ c.call = 0
      BY <3>1, Contents
    <3>4. QED BY <1>1, <3>2, <3>3, DatedWrite
  <2>3. QED BY <2>1, <2>2
<1>5. CASE FillFile
  <2>1. PICK c : c = Filled
    OBVIOUS
  <2>2. pc = "writing" /\ at \in 1..4 /\ Put(c) /\ calls' = calls /\ call' = call
    BY <1>5, <2>1, FourSteps DEF FillFile, Put, Inv, TypeOK
  <2>3. QED BY <1>1, <2>1, <2>2, DatedWrite
<1>6. QED BY <1>2, <1>3, <1>4, <1>5 DEF Next
-----------------------------------------------------------------------------
(* The state is of its types.                                              *)
THEOREM Typing == Spec => []TypeOK
<1>1. Inv => TypeOK
  BY DEF Inv
<1>2. QED BY <1>1, Invariant, PTL

(* Whatever calls of init_harness.py and pipeline.py came before, and      *)
(* wherever they stopped: a harness that pipeline.main schedules is        *)
(* complete, unless the call that stopped left an older or torn kafl.yaml. *)
THEOREM Vouched == Spec => []ScheduledComplete
<1>1. Inv => ScheduledComplete
  <2> SUFFICES ASSUME Inv, pc = "scheduled", NEW h \in scheduled \ spoiled PROVE Complete(h)
    BY DEF ScheduledComplete
  <2>1. h \in Configured
    BY DEF Inv, Chosen, HarnessDirs
  <2>2. QED BY <2>1 DEF Inv, Sound
<1>2. QED BY <1>1, Invariant, PTL

(* A call that gets to its end leaves in every harness it selected what it *)
(* is to write, in full; older files remain in the sharedir only, and only *)
(* under names that the call does not copy.                                *)
THEOREM Renewed == Spec => []AllSetUp
<1>1. Inv /\ Dated => AllSetUp
  <2> SUFFICES ASSUME Inv, Dated, pc = "initialised", call.inits, NEW h \in SetUp,
                      NEW i \in 1..4, ~ Skipped(h, Steps[i])
               PROVE  dir[h][Steps[i]].state = "whole" /\ Holds(h, Steps[i])
    BY FourSteps DEF AllSetUp, Holds
  <2>1. h \in Harness /\ Steps[i] \in FileName
    BY Names, FourSteps DEF SetUp, Selected
  <2>2. Complete(h) /\ dir[h]["kafl"].call = calls
    BY DEF Inv, DoneSoFar
  <2>3. dir[h][Steps[i]].state = "whole" /\ dir[h][Steps[i]].call = calls
    BY <2>2, FourSteps DEF Complete
  <2>4. QED BY <2>1, <2>3 DEF Dated
<1>2. Spec => []Dated
  BY DatedInit, DatedNext, Invariant, PTL DEF Spec
<1>3. QED BY <1>1, <1>2, Invariant, PTL

(* The pipeline.py that sets a campaign up schedules all that it has set   *)
(* up, except for "all", which sets everything up and schedules nothing.   *)
THEOREM AsSetUp == Spec => []FreshScheduled
<1>1. Inv => FreshScheduled
  <2> SUFFICES ASSUME Inv, pc \in {"scheduled", "unmatched"}, call.inits
               PROVE  scheduled = IF call.pattern = "all" THEN {} ELSE SetUp
    BY DEF FreshScheduled
  <2> DEFINE p == call.pattern
  <2>1. scheduled = HarnessDirs(p) /\ call.by = "pipeline"
    BY DEF Inv, Chosen
  <2>2. p \in DOMAIN Matches
    BY <2>1 DEF Inv, OnlySetUp
  <2>3. Configured = SetUp
    <3>1. Configured \subseteq SetUp
      BY <2>1 DEF Inv, OnlySetUp
    <3>2. ASSUME NEW h \in SetUp PROVE h \in Configured
      <4>1. h \in Harness
        BY Names DEF SetUp, Selected
      <4>2. Complete(h)
        BY DEF Inv, DoneSoFar
      <4>3. dir[h]["kafl"].state = "whole"
        BY <4>2, CompleteKaflWhole
      <4>4. QED BY <4>1, <4>3 DEF Configured
    <3>3. QED BY <3>1, <3>2
  <2>4. SetUp = {HARNESSES[i] : i \in Selected(p)}
    BY <2>2, AllOrEmpty DEF SetUp
  <2>5. CASE p = ""
    BY <2>1, <2>3, <2>5 DEF HarnessDirs
  <2>6. CASE p # ""
    <3>1. scheduled = SetUp \cap Matches[p]
      BY <2>1, <2>3, <2>6 DEF HarnessDirs
    <3>2. CASE p = "all"
      BY <2>2, <3>1, <3>2, SetupAssumption
    <3>3. CASE p # "all"
      <4>1. \A i \in Selected(p) : HARNESSES[i] \in Matches[p]
        BY <3>3 DEF Selected
      <4>2. SetUp \subseteq Matches[p]
        BY <2>4, <4>1
      <4>3. QED BY <3>1, <3>3, <4>2
    <3>4. QED BY <3>2, <3>3
  <2>7. QED BY <2>5, <2>6
<1>2. QED BY <1>1, Invariant, PTL
-----------------------------------------------------------------------------
(* Options: those of a harness choose it, the others choose nothing.       *)
OnlyPlain(f) == \A o \in DOMAIN f : o[1] # "HARNESS"
OneChoice(f) ==
  \E o \in DOMAIN f :
    /\ o[1] = "HARNESS" /\ f[o] = "y"
    /\ \A p \in DOMAIN f : p[1] = "HARNESS" => p = o

LEMMA Updates ==
  ASSUME NEW f, NEW g
  PROVE  /\ DOMAIN Update(f, g) = DOMAIN f \cup DOMAIN g
         /\ \A o \in DOMAIN g : Update(f, g)[o] = g[o]
         /\ \A o \in DOMAIN f \ DOMAIN g : Update(f, g)[o] = f[o]
         /\ OnlyPlain(f) /\ OnlyPlain(g) => OnlyPlain(Update(f, g))
         /\ OneChoice(f) /\ OnlyPlain(g) => OneChoice(Update(f, g))
         /\ OnlyPlain(f) /\ OneChoice(g) => OneChoice(Update(f, g))
<1> DEFINE u == Update(f, g)
<1>1. /\ DOMAIN u = DOMAIN f \cup DOMAIN g
      /\ \A o \in DOMAIN g : u[o] = g[o]
      /\ \A o \in DOMAIN f \ DOMAIN g : u[o] = f[o]
  BY DEF Update
<1> HIDE DEF u
<1>2. OnlyPlain(f) /\ OnlyPlain(g) => OnlyPlain(u)
  BY <1>1 DEF OnlyPlain
<1>3. OneChoice(f) /\ OnlyPlain(g) => OneChoice(u)
  BY <1>1 DEF OnlyPlain, OneChoice
<1>4. OnlyPlain(f) /\ OneChoice(g) => OneChoice(u)
  BY <1>1 DEF OnlyPlain, OneChoice
<1>5. QED BY <1>1, <1>2, <1>3, <1>4 DEF u

LEMMA Sets ==
  ASSUME NEW name, NEW value
  PROVE  OnlyPlain(Set(Plain(name), value)) /\ OneChoice(Set(Choice(name), "y"))
<1>1. Plain(name)[1] = "KAFL" /\ Choice(name)[1] = "HARNESS"
  BY DEF Plain, Choice
<1>2. /\ DOMAIN Set(Plain(name), value) = {Plain(name)}
      /\ DOMAIN Set(Choice(name), "y") = {Choice(name)}
      /\ Set(Choice(name), "y")[Choice(name)] = "y"
  BY DEF Set
<1>3. QED BY <1>1, <1>2 DEF OnlyPlain, OneChoice

(* The defaults and what depends on the harness leave the choice alone.    *)
LEMMA Chooses ==
  ASSUME NEW h \in Harness
  PROVE  /\ OneChoice(generate_setups(h))
         /\ \A o \in DOMAIN harness_options(h) :
              o \in DOMAIN generate_setups(h) /\ generate_setups(h)[o] = harness_options(h)[o]
         /\ \A o \in DOMAIN type_options(h) \ DOMAIN harness_options(h) :
              o \in DOMAIN generate_setups(h) /\ generate_setups(h)[o] = type_options(h)[o]
<1>1. OnlyPlain(default_kafl_options)
  BY Updates, Sets DEF default_kafl_options
<1>2. OneChoice(type_options(h))
  <2>1. Kind[h] \in {"BOOT", "DOINITCALLS", "BPH", "US"}
    BY SetupAssumption, Zenon
  <2>2. CASE Kind[h] = "BOOT"
    BY <2>2, Sets DEF type_options
  <2>3. CASE Kind[h] = "DOINITCALLS"
    BY <2>3, Updates, Sets DEF type_options
  <2>4. CASE Kind[h] = "BPH"
    BY <2>4, Sets DEF type_options
  <2>5. CASE Kind[h] = "US"
    BY <2>5, Updates, Sets DEF type_options
  <2>6. QED BY <2>1, <2>2, <2>3, <2>4, <2>5
<1>3. OnlyPlain(harness_options(h))
  <2>1. OnlyPlain(<<>>)
    BY DEF OnlyPlain
  <2>2. QED BY <2>1, Updates, Sets DEF harness_options
<1> DEFINE type == type_options(h)
           general == Update(default_kafl_options, type)
           own == harness_options(h)
<1>4. OneChoice(general)
  BY <1>1, <1>2, Updates
<1>5. generate_setups(h) = Update(general, own)
  BY DEF generate_setups
<1>6. /\ DOMAIN general = DOMAIN default_kafl_options \cup DOMAIN type
      /\ \A o \in DOMAIN type : general[o] = type[o]
  <2> HIDE DEF type
  <2>1. QED BY Updates, Zenon
<1> HIDE DEF type, general, own
<1>7. OneChoice(Update(general, own))
  BY <1>3, <1>4, Updates DEF own
<1>8. /\ DOMAIN Update(general, own) = DOMAIN general \cup DOMAIN own
      /\ \A o \in DOMAIN own : Update(general, own)[o] = own[o]
      /\ \A o \in DOMAIN general \ DOMAIN own : Update(general, own)[o] = general[o]
  BY Updates, Zenon
<1>9. \A o \in DOMAIN own : o \in DOMAIN Update(general, own) /\ Update(general, own)[o] = own[o]
  BY <1>8
<1>10. \A o \in DOMAIN type \ DOMAIN own :
         o \in DOMAIN Update(general, own) /\ Update(general, own)[o] = type[o]
  BY <1>6, <1>8
<1>11. QED BY <1>5, <1>7, <1>9, <1>10 DEF type, own

(* What the files of the kernel's configuration hold once they are whole.  *)
Filed ==
  /\ \A h \in Harness :
       /\ dir[h]["linux"].state = "whole" => dir[h]["linux"].holds = Settings(generate_setups(h))
       /\ dir[h]["template"].state = "whole" =>
            \E t \in DOMAIN Templates : dir[h]["template"].holds = Settings(Templates[t])
  /\ Active => call.template \in DOMAIN Templates

LEMMA FiledInit == Init => Filed
<1> SUFFICES ASSUME Init PROVE Filed
  OBVIOUS
<1>1. {Steps[i] : i \in DOMAIN Steps} = FileName
  BY FourSteps DEF Steps, FileName
<1>2. dir = [h \in Harness |-> [f \in FileName |-> NoFile]]
  BY <1>1 DEF Init
<1>3. \A h \in Harness : dir[h]["linux"] = NoFile /\ dir[h]["template"] = NoFile
  BY <1>2 DEF FileName
<1>4. QED BY <1>3 DEF Init, Filed, Active, NoFile

(* A step that writes c to the file in hand.                               *)
LEMMA FiledWrite ==
  ASSUME Inv, Filed, pc = "writing", at \in 1..4, NEW c, Put(c), pc' = pc, call' = call,
         c.state = "torn" \/ File = "sharedir" \/ c.holds = Content(call, InHand, File)
  PROVE  Filed'
<1>1. InHand \in Harness /\ File \in FileName /\ call.template \in DOMAIN Templates
  BY Hand, FourSteps DEF Inv, Active, File, Filed
<1>2. /\ dir'[InHand][File] = c
      /\ \A g \in Harness, e \in FileName : g # InHand \/ e # File => dir'[g][e] = dir[g][e]
  BY <1>1, Updated DEF Inv
<1>3. ASSUME NEW h \in Harness, dir'[h]["linux"].state = "whole"
      PROVE  dir'[h]["linux"].holds = Settings(generate_setups(h))
  <2>1. CASE h = InHand /\ File = "linux"
    <3>1. c.holds = Content(call, InHand, File)
      BY <1>2, <1>3, <2>1
    <3>2. QED BY <1>2, <2>1, <3>1 DEF Content
  <2>2. CASE h # InHand \/ File # "linux"
    BY <1>2, <1>3, <2>2 DEF Filed, FileName
  <2>3. QED BY <2>1, <2>2
<1>4. ASSUME NEW h \in Harness, dir'[h]["template"].state = "whole"
      PROVE  \E t \in DOMAIN Templates : dir'[h]["template"].holds = Settings(Templates[t])
  <2>1. CASE h = InHand /\ File = "template"
    <3>1. c.holds = Content(call, InHand, File)
      BY <1>2, <1>4, <2>1
    <3>2. c.holds = Settings(Templates[call.template])
      BY <2>1, <3>1 DEF Content
    <3>3. QED BY <1>1, <1>2, <2>1, <3>2
  <2>2. CASE h # InHand \/ File # "template"
    BY <1>2, <1>4, <2>2 DEF Filed, FileName
  <2>3. QED BY <2>1, <2>2
<1>5. Active' => call'.template \in DOMAIN Templates
  BY <1>1
<1>6. QED BY <1>3, <1>4, <1>5 DEF Filed

LEMMA FiledNext == Inv /\ Filed /\ [Next]_vars => Filed'
<1> SUFFICES ASSUME Inv, Filed, [Next]_vars PROVE Filed'
  OBVIOUS
<1>1. ASSUME UNCHANGED dir, Active' => call'.template \in DOMAIN Templates PROVE Filed'
  BY <1>1 DEF Filed
<1>2. ASSUME NEW r \in Requests, NEW share \in Sharedirs, NEW missing \in SUBSET Missing,
             InitHarness(r, share, missing) \/ StartPipeline(r, share, missing)
      PROVE  Filed'
  <2>1. call'.template = r.template /\ UNCHANGED dir
    BY <1>2 DEF InitHarness, StartPipeline, NewCall
  <2>2. CASE InitHarness(r, share, missing)
    BY <1>1, <2>1, <2>2 DEF InitHarness, Accepted, Active
  <2>3. CASE StartPipeline(r, share, missing)
    <3> DEFINE i == [r EXCEPT !.pattern = InitPattern(@)]
    <3>1. i.template = r.template
      <4>1. r \in [pattern : DOMAIN Matches, template : STRING, seeds : STRING]
        BY SetupAssumption, Zenon
      <4>2. QED BY <4>1
    <3>2. pc' = IF root THEN "initialised" ELSE IF Accepted(i) THEN "makedirs" ELSE "idle"
      BY <2>3 DEF StartPipeline
    <3> HIDE DEF i
    <3>3. QED BY <1>1, <2>1, <3>1, <3>2 DEF Accepted, Active
  <2>4. QED BY <1>2, <2>2, <2>3
<1>3. CASE MakeDirs \/ Fail \/ NextHarness \/ Schedule \/ Kill \/ UNCHANGED vars
  <2>1. UNCHANGED dir /\ UNCHANGED call /\ (Active' => Active)
    BY <1>3 DEF MakeDirs, Fail, NextHarness, Schedule, Kill, vars, Stop, Active
  <2>2. QED BY <1>1, <2>1 DEF Filed
<1>4. CASE OpenFile
  <2>1. CASE Skipped(InHand, File)
    BY <1>1, <1>4, <2>1 DEF OpenFile, Filed, Active
  <2>2. CASE ~ Skipped(InHand, File)
    <3>1. PICK c : c = Truncated
      OBVIOUS
    <3>2. pc = "writing" /\ at \in 1..4 /\ Put(c) /\ pc' = pc /\ call' = call
      BY <1>4, <2>2, <3>1, FourSteps DEF OpenFile, Put, Inv, TypeOK
    <3>3. c.state = "torn"
      BY <3>1, Contents
    <3>4. QED BY <3>2, <3>3, FiledWrite
  <2>3. QED BY <2>1, <2>2
<1>5. CASE FillFile
  <2>1. PICK c : c = Filled
    OBVIOUS
  <2>2. pc = "writing" /\ at \in 1..4 /\ Put(c) /\ pc' = pc /\ call' = call
    BY <1>5, <2>1, FourSteps DEF FillFile, Put, Inv, TypeOK
  <2>3. File # "sharedir" => c.holds = Content(call, InHand, File)
    BY <2>1, Contents DEF Kept, Over
  <2>4. QED BY <2>2, <2>3, FiledWrite
<1>6. QED BY <1>2, <1>3, <1>4, <1>5 DEF Next

(* The kernel of a complete harness is built with the options of its own   *)
(* and its type and for one harness only, whatever its template sets.      *)
THEOREM Configures == Spec => []BuiltFor
<1>1. Filed => BuiltFor
  <2> SUFFICES ASSUME Filed, NEW h \in Harness, Complete(h)
               PROVE  LET config == build_harness(h) IN
                      /\ Settings(harness_options(h)) \subseteq config
                      /\ \A o \in DOMAIN type_options(h) \ DOMAIN harness_options(h) :
                           <<o, type_options(h)[o]>> \in config
                      /\ Cardinality({s \in config : s[1][1] = "HARNESS" /\ s[2] = "y"}) = 1
                      /\ \A s, t \in config : s[1] = t[1] => s = t
    BY DEF BuiltFor
  <2> DEFINE own == generate_setups(h)
             linux == dir[h]["linux"].holds
             template == dir[h]["template"].holds
             config == build_harness(h)
             replaced(o) == (\E s \in linux : s[1] = o) \/ o[1] = "HARNESS"
  <2>1. dir[h]["linux"].state = "whole" /\ dir[h]["template"].state = "whole"
    BY FourSteps DEF Complete, Steps, Skipped
  <2>2. linux = Settings(own)
    BY <2>1 DEF Filed
  <2>3. PICK t \in DOMAIN Templates : template = Settings(Templates[t])
    BY <2>1 DEF Filed
  <2>4. PICK o \in DOMAIN own : /\ o[1] = "HARNESS" /\ own[o] = "y"
                                /\ \A p \in DOMAIN own : p[1] = "HARNESS" => p = o
    BY Chooses DEF OneChoice
  <2>5. /\ \A p \in DOMAIN harness_options(h) : p \in DOMAIN own /\ own[p] = harness_options(h)[p]
        /\ \A p \in DOMAIN type_options(h) \ DOMAIN harness_options(h) :
             p \in DOMAIN own /\ own[p] = type_options(h)[p]
    BY Chooses
  <2> HIDE DEF own, linux, template
  <2>6. <<o, "y">> \in linux
    BY <2>2, <2>4 DEF Settings
  <2>7. config = linux \cup {s \in template : ~ replaced(s[1])}
    BY <2>6, <2>4 DEF build_harness, linux, template
  <2> HIDE DEF config
  <2>8. \A s \in linux : s[1] \in DOMAIN own /\ s = <<s[1], own[s[1]]>>
    BY <2>2 DEF Settings
  <2>9. \A s \in template : s = <<s[1], Templates[t][s[1]]>>
    BY <2>3 DEF Settings
  <2>10. Settings(harness_options(h)) \subseteq config
    BY <2>2, <2>5, <2>7 DEF Settings
  <2>11. {s \in config : s[1][1] = "HARNESS" /\ s[2] = "y"} = {<<o, "y">>}
    BY <2>4, <2>6, <2>7, <2>8
  <2>12. \A s, u \in config : s[1] = u[1] => s = u
    BY <2>7, <2>8, <2>9
  <2>13. Cardinality({<<o, "y">>}) = 1
    BY FS_Singleton
  <2>14. \A p \in DOMAIN type_options(h) \ DOMAIN harness_options(h) :
           <<p, type_options(h)[p]>> \in config
    BY <2>2, <2>5, <2>7 DEF Settings
  <2>15. QED BY <2>10, <2>11, <2>12, <2>13, <2>14 DEF config
<1>2. Spec => []Filed
  BY FiledInit, FiledNext, Invariant, PTL DEF Spec
<1>3. QED BY <1>1, <1>2, PTL
=============================================================================
