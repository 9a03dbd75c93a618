------------------------- MODULE SmatchAuditProofs --------------------------
(***************************************************************************)
(* What holds of the lists of an audit for any reports, any earlier        *)
(* verdicts and any number of audits, killed ones included.                *)
(***************************************************************************)
EXTENDS SmatchAudit, FiniteSetTheorems, WellFoundedInduction, TLAPS

(* The places of a report, or of a list, in front of n that hold r.        *)
KeptBefore(report, n, r) == {i \in Kept(report) : i < n /\ report[i] = r}
Before(list, n, r) == {i \in DOMAIN list : i < n /\ list[i] = r}

(* How often a result is in what the filter and the transfer have made of  *)
(* the first places of their input.                                        *)
FilteredTo(list, report, n) ==
  \A r \in Result : Cardinality(Listed(list, r)) = Cardinality(KeptBefore(report, n, r))
CarriedTo(list, source, n) ==
  \A r \in Result : Cardinality(Listed(Results(list), r)) =
    IF r.id = "none" THEN 0 ELSE Cardinality(Before(source, n, r))

AsDecided(list) == \A i \in DOMAIN list : list[i].status = Verdict(list[i].result)

Transferred == {"copy", "copying"}

Progress ==
  /\ pc = "filter" => FilteredTo(filtered, warns, at)
  /\ pc \in {"transfer"} \cup Transferred => FilteredTo(filtered, warns, Len(warns) + 1)
  /\ pc = "transfer" => CarriedTo(annotated, filtered, at)
  /\ pc \in Transferred => CarriedTo(annotated, filtered, Len(filtered) + 1)

(* What is made of a whole report.                                         *)
AllFiltered(list, report) == FilteredTo(list, report, Len(report) + 1)
AllCarried(list, report) ==
  \E source \in Seq(Result) :
    AllFiltered(source, report) /\ CarriedTo(list, source, Len(source) + 1)

(* Each list in the output directory that is not torn is made of the whole *)
(* of its own report.                                                      *)
Delivered ==
  /\ "filtered" \notin torn => AllFiltered(output.filtered, origin["filtered"].report)
  /\ "annotated" \notin torn => AllCarried(output.annotated, origin["annotated"].report)

(* The file that is being copied, and those copied before it.              *)
Own == [audit |-> audits, report |-> warns]
Copied ==
  /\ pc \in Transferred => \A i \in 1..(at - 1) : Copies[i] \notin torn /\ origin[Copies[i]] = Own
  /\ pc = "copying" => Copies[at] \in torn /\ origin[Copies[at]] = Own

(* The list with the verdicts is the last to become of the latest audit.   *)
Latest ==
  pc \in {"filter", "transfer", "copy"} \/ (pc = "copying" /\ at < 3) =>
    origin["annotated"].audit # audits

AuditInv ==
  TypeOK /\ Progress /\ Delivered /\ Copied /\ Latest /\ VerdictsVouch /\ AsDecided(annotated)

(* The audits count upwards.                                               *)
Dated == \A l \in {"warns", "filtered", "annotated"} : origin[l].audit <= audits
-----------------------------------------------------------------------------
LEMMA Bounds == MaxAudits \in Nat
BY AuditAssumption, ZenonT(30) DEF AuditAssumption

LEMMA Given == Reports \subseteq Seq(Result)
BY AuditAssumption, ZenonT(30) DEF AuditAssumption

LEMMA Marked ==
  \A report \in Reports : \A i \in DOMAIN report : IsNoise(report[i]) => report[i].id = "none"
BY AuditAssumption, ZenonT(30) DEF AuditAssumption

LEMMA Earlier == Annotated \in Seq([result : Result, status : STRING])
BY AuditAssumption, ZenonT(30) DEF AuditAssumption

LEMMA Report ==
  ASSUME NEW report \in Reports \cup {<<>>}
  PROVE  report \in Seq(Result)
<1>1. CASE report \in Reports
  BY <1>1, Given
<1>2. CASE report = <<>>
  BY <1>2
<1>3. QED BY <1>1, <1>2

LEMMA FiniteParts ==
  ASSUME NEW report \in Seq(Result), NEW n, NEW r
  PROVE  /\ IsFiniteSet(KeptBefore(report, n, r))
         /\ IsFiniteSet(Before(report, n, r))
         /\ IsFiniteSet(Listed(report, r))
<1>1. IsFiniteSet(1..Len(report))
  BY FS_Interval
<1>2. KeptBefore(report, n, r) \subseteq 1..Len(report)
  BY DEF KeptBefore, Kept, result_list
<1>3. Before(report, n, r) \subseteq 1..Len(report)
  BY DEF Before
<1>4. Listed(report, r) \subseteq 1..Len(report)
  BY DEF Listed
<1>5. QED BY <1>1, <1>2, <1>3, <1>4, FS_Subset

(* Appending a result lists it once more, and no other.                    *)
LEMMA Appended ==
  ASSUME NEW list \in Seq(Result), NEW x \in Result, NEW r \in Result
  PROVE  /\ x = r => Cardinality(Listed(Append(list, x), r)) = Cardinality(Listed(list, r)) + 1
         /\ x # r => Cardinality(Listed(Append(list, x), r)) = Cardinality(Listed(list, r))
<1> DEFINE longer == Append(list, x)
<1>1. /\ DOMAIN longer = 1..(Len(list) + 1) /\ longer[Len(list) + 1] = x
      /\ \A i \in 1..Len(list) : longer[i] = list[i]
      /\ DOMAIN list = 1..Len(list) /\ Len(list) \in Nat
  OBVIOUS
<1> HIDE DEF longer
<1>2. IsFiniteSet(Listed(list, r)) /\ Len(list) + 1 \notin Listed(list, r)
  <2>1. IsFiniteSet(Listed(list, r))
    BY FiniteParts
  <2>2. Listed(list, r) \subseteq 1..Len(list)
    BY <1>1 DEF Listed
  <2>3. QED BY <1>1, <2>1, <2>2
<1>3. CASE x = r
  <2>1. Listed(longer, r) = Listed(list, r) \cup {Len(list) + 1}
    BY <1>1, <1>3 DEF Listed
  <2>2. QED BY <1>2, <1>3, <2>1, FS_AddElement DEF longer
<1>4. CASE x # r
  <2>1. Listed(longer, r) = Listed(list, r)
    BY <1>1, <1>4 DEF Listed
  <2>2. Cardinality(Listed(list, r)) \in Nat
    BY <1>2, FS_CardinalityType
  <2>3. QED BY <1>4, <2>1, <2>2 DEF longer
<1>5. QED BY <1>3, <1>4

(* Going one place further.                                                *)
LEMMA OneFurther ==
  ASSUME NEW list \in Seq(Result), NEW n \in DOMAIN list, NEW r \in Result
  PROVE  /\ list[n] = r =>
              Cardinality(Before(list, n + 1, r)) = Cardinality(Before(list, n, r)) + 1
         /\ list[n] # r =>
              Cardinality(Before(list, n + 1, r)) = Cardinality(Before(list, n, r))
         /\ n \in Kept(list) /\ list[n] = r =>
              Cardinality(KeptBefore(list, n + 1, r)) = Cardinality(KeptBefore(list, n, r)) + 1
         /\ ~ (n \in Kept(list) /\ list[n] = r) =>
              Cardinality(KeptBefore(list, n + 1, r)) = Cardinality(KeptBefore(list, n, r))
<1>1. n \in Nat /\ DOMAIN list \subseteq Nat /\ Kept(list) \subseteq DOMAIN list
  BY DEF Kept, result_list
<1>2. \A i \in DOMAIN list : i < n + 1 <=> i < n \/ i = n
  BY <1>1
<1>3. /\ IsFiniteSet(Before(list, n, r)) /\ n \notin Before(list, n, r)
      /\ IsFiniteSet(KeptBefore(list, n, r)) /\ n \notin KeptBefore(list, n, r)
  <2>1. IsFiniteSet(Before(list, n, r)) /\ IsFiniteSet(KeptBefore(list, n, r))
    BY FiniteParts
  <2>2. n \notin Before(list, n, r) /\ n \notin KeptBefore(list, n, r)
    BY <1>1 DEF Before, KeptBefore
  <2>3. QED BY <2>1, <2>2
<1>4. /\ Cardinality(Before(list, n, r)) \in Nat
      /\ Cardinality(KeptBefore(list, n, r)) \in Nat
  BY <1>3, FS_CardinalityType
<1>5. Before(list, n + 1, r) = IF list[n] = r THEN Before(list, n, r) \cup {n} ELSE Before(list, n, r)
  BY <1>1, <1>2 DEF Before
<1>6. KeptBefore(list, n + 1, r) = IF n \in Kept(list) /\ list[n] = r
        THEN KeptBefore(list, n, r) \cup {n} ELSE KeptBefore(list, n, r)
  BY <1>1, <1>2 DEF KeptBefore
<1>7. /\ Cardinality(Before(list, n, r) \cup {n}) = Cardinality(Before(list, n, r)) + 1
      /\ Cardinality(KeptBefore(list, n, r) \cup {n}) = Cardinality(KeptBefore(list, n, r)) + 1
  BY <1>3, FS_AddElement
<1>8. QED BY <1>4, <1>5, <1>6, <1>7

(* Nothing is in front of the first place.                                 *)
LEMMA NothingBefore ==
  ASSUME NEW list \in Seq(Result), NEW r
  PROVE  /\ Cardinality(Before(list, 1, r)) = 0
         /\ Cardinality(KeptBefore(list, 1, r)) = 0
         /\ Cardinality(Listed(<<>>, r)) = 0
         /\ Cardinality(Listed(Results(<<>>), r)) = 0
<1>1. Before(list, 1, r) = {} /\ KeptBefore(list, 1, r) = {}
  BY DEF Before, KeptBefore, Kept, result_list
<1>2. Listed(<<>>, r) = {} /\ Listed(Results(<<>>), r) = {}
  BY DEF Listed, Results
<1>3. QED BY <1>1, <1>2, FS_EmptySet

LEMMA Begun ==
  ASSUME NEW list \in Seq(Result)
  PROVE  FilteredTo(<<>>, list, 1) /\ CarriedTo(<<>>, list, 1)
BY NothingBefore DEF FilteredTo, CarriedTo

LEMMA FilterStep ==
  ASSUME NEW list \in Seq(Result), NEW report \in Seq(Result), NEW n \in DOMAIN report,
         FilteredTo(list, report, n)
  PROVE  FilteredTo(IF n \in Kept(report) THEN Append(list, report[n]) ELSE list, report, n + 1)
<1>1. report[n] \in Result
  OBVIOUS
<1>2. ASSUME NEW r \in Result
      PROVE  /\ Cardinality(Listed(list, r)) = Cardinality(KeptBefore(report, n, r))
             /\ Cardinality(Listed(list, r)) \in Nat
  BY FiniteParts, FS_CardinalityType DEF FilteredTo
<1>3. CASE n \in Kept(report)
  <2>1. ASSUME NEW r \in Result
        PROVE Cardinality(Listed(Append(list, report[n]), r)) = Cardinality(KeptBefore(report, n + 1, r))
    <3>1. CASE report[n] = r
      BY <1>1, <1>2, <1>3, <3>1, Appended, OneFurther
    <3>2. CASE report[n] # r
      BY <1>1, <1>2, <1>3, <3>2, Appended, OneFurther
    <3>3. QED BY <3>1, <3>2
  <2>2. QED BY <1>3, <2>1 DEF FilteredTo
<1>4. CASE n \notin Kept(report)
  BY <1>2, <1>4, OneFurther DEF FilteredTo
<1>5. QED BY <1>3, <1>4

(* The results of a list with verdicts.                                    *)
LEMMA ResultsOf ==
  ASSUME NEW list \in Seq(Entry), NEW e \in Entry
  PROVE  /\ Results(list) \in Seq(Result)
         /\ Results(Append(list, e)) = Append(Results(list), e.result)
<1> DEFINE longer == Append(list, e)
           both == Append(Results(list), e.result)
<1>1. \A i \in 1..Len(list) : list[i] \in Entry /\ list[i].result \in Result
  <2>1. \A i \in 1..Len(list) : list[i] \in Entry
    OBVIOUS
  <2>2. \A v \in Entry : v.result \in Result
    BY DEF Entry
  <2>3. QED BY <2>1, <2>2
<1>2. /\ Results(list) \in Seq(Result) /\ Len(Results(list)) = Len(list)
      /\ e.result \in Result
  BY <1>1 DEF Results, Entry
<1>3. /\ DOMAIN longer = 1..(Len(list) + 1) /\ longer[Len(list) + 1] = e
      /\ \A i \in 1..Len(list) : longer[i] = list[i]
  OBVIOUS
<1>4. /\ both \in Seq(Result) /\ Len(both) = Len(list) + 1 /\ both[Len(list) + 1] = e.result
      /\ \A i \in 1..Len(list) : both[i] = list[i].result
  BY <1>2 DEF Results
<1> HIDE DEF longer, both
<1>5. Results(longer) = [i \in 1..(Len(list) + 1) |-> longer[i].result]
  BY <1>3 DEF Results
<1>6. both = [i \in 1..(Len(list) + 1) |-> both[i]]
  BY <1>4
<1>7. \A i \in 1..(Len(list) + 1) : i \in 1..Len(list) \/ i = Len(list) + 1
  OBVIOUS
<1>8. \A i \in 1..(Len(list) + 1) : longer[i].result = both[i]
  BY <1>3, <1>4, <1>7
<1>9. Results(longer) = both
  BY <1>5, <1>6, <1>8
<1>10. QED BY <1>2, <1>9 DEF longer, both

LEMMA TransferStep ==
  ASSUME NEW list \in Seq(Entry), NEW source \in Seq(Result), NEW n \in DOMAIN source,
         NEW s \in Status, CarriedTo(list, source, n)
  PROVE  CarriedTo(IF source[n].id = "none" THEN list
                   ELSE Append(list, [result |-> source[n], status |-> s]), source, n + 1)
<1> DEFINE x == source[n]
           e == [result |-> x, status |-> s]
<1>1. x \in Result /\ e \in Entry /\ e.result = x
  BY DEF Entry
<1>2. /\ Results(list) \in Seq(Result)
      /\ Results(Append(list, e)) = Append(Results(list), x)
  BY <1>1, ResultsOf
<1> HIDE DEF e
<1>3. ASSUME NEW r \in Result
      PROVE  /\ Cardinality(Listed(Results(list), r)) \in Nat
             /\ Cardinality(Before(source, n, r)) \in Nat
             /\ Cardinality(Listed(Results(list), r)) =
                  IF r.id = "none" THEN 0 ELSE Cardinality(Before(source, n, r))
  BY <1>2, FiniteParts, FS_CardinalityType DEF CarriedTo
<1>4. ASSUME NEW r \in Result, x # r
      PROVE  /\ Cardinality(Listed(Append(Results(list), x), r)) = Cardinality(Listed(Results(list), r))
             /\ Cardinality(Before(source, n + 1, r)) = Cardinality(Before(source, n, r))
  BY <1>1, <1>2, <1>3, <1>4, Appended, OneFurther
<1>5. ASSUME NEW r \in Result, x = r
      PROVE  /\ Cardinality(Listed(Append(Results(list), x), r)) = Cardinality(Listed(Results(list), r)) + 1
             /\ Cardinality(Before(source, n + 1, r)) = Cardinality(Before(source, n, r)) + 1
  BY <1>1, <1>2, <1>3, <1>5, Appended, OneFurther
<1>6. ASSUME NEW r \in Result, x.id = "none"
      PROVE Cardinality(Listed(Results(list), r)) =
              IF r.id = "none" THEN 0 ELSE Cardinality(Before(source, n + 1, r))
  BY <1>3, <1>4, <1>6
<1>7. ASSUME NEW r \in Result, x.id # "none"
      PROVE Cardinality(Listed(Append(Results(list), x), r)) =
              IF r.id = "none" THEN 0 ELSE Cardinality(Before(source, n + 1, r))
  <2>1. CASE x = r
    BY <1>3, <1>5, <1>7, <2>1
  <2>2. CASE x # r
    BY <1>3, <1>4, <1>7, <2>2
  <2>3. QED BY <2>1, <2>2
<1>8. CASE x.id = "none"
  <2>1. CarriedTo(list, source, n + 1)
    BY <1>6, <1>8 DEF CarriedTo
  <2>2. QED BY <1>8, <2>1
<1>9. CASE x.id # "none"
  <2>1. CarriedTo(Append(list, e), source, n + 1)
    BY <1>2, <1>7, <1>9 DEF CarriedTo
  <2>2. QED BY <1>9, <2>1 DEF e
<1>10. QED BY <1>8, <1>9
-----------------------------------------------------------------------------
(* The least element of a set of numbers.                                  *)
LEMMA Least == ASSUME NEW T, T \subseteq Nat, T # {} PROVE \E i \in T : \A j \in T : i <= j
<1> DEFINE R == OpToRel(<, Nat)
<1>1. IsWellFoundedOn(R, Nat)
  BY NatLessThanWellFounded
<1>2. ASSUME NEW x \in Nat, NEW y \in Nat, x < y PROVE <<x, y>> \in R
  BY <1>2 DEF OpToRel
<1> HIDE DEF R
<1>3. PICK i \in T : \A j \in T : ~ (<<j, i>> \in R)
  BY <1>1, WFMin
<1>4. ASSUME NEW j \in T PROVE i <= j
  <2>1. i \in Nat /\ j \in Nat
    OBVIOUS
  <2>2. ~ (j < i)
    BY <2>1, <1>2, <1>3
  <2>3. QED BY <2>1, <2>2
<1>5. QED BY <1>4

(* The verdict is that of the first entry that decides.                    *)
LEMMA FirstVerdict ==
  ASSUME NEW r, Deciding(r) # {}
  PROVE  \E j \in Deciding(r) :
           /\ \A k \in Deciding(r) : j <= k
           /\ Verdict(r) = Annotated[j].status
<1>1. Deciding(r) \subseteq Nat
  BY Earlier DEF Deciding
<1>2. \E j \in Deciding(r) : \A k \in Deciding(r) : j <= k
  BY <1>1, Least
<1> DEFINE j == CHOOSE j \in Deciding(r) : \A k \in Deciding(r) : j <= k
<1>3. j \in Deciding(r) /\ \A k \in Deciding(r) : j <= k
  BY <1>2
<1>4. Verdict(r) = Annotated[j].status
  BY DEF Verdict
<1> HIDE DEF j
<1>5. QED BY <1>3, <1>4

LEMMA VerdictType == ASSUME NEW r PROVE Verdict(r) \in Status
<1>1. CASE Deciding(r) = {}
  BY <1>1, Zenon DEF Verdict, Status
<1>2. CASE Deciding(r) # {}
  <2>1. PICK j \in Deciding(r) : Verdict(r) = Annotated[j].status
    BY <1>2, FirstVerdict
  <2>2. j \in DOMAIN Annotated
    BY DEF Deciding
  <2>3. QED BY <2>1, <2>2 DEF Status
<1>3. QED BY <1>1, <1>2

LEMMA ThreeCopies ==
  /\ Len(Copies) = 3 /\ DOMAIN Copies = 1..3
  /\ Copies[1] = "warns" /\ Copies[2] = "filtered" /\ Copies[3] = "annotated"
BY DEF Copies

(* What a step that does not publish keeps.                                *)
LEMMA NothingPublished ==
  ASSUME UNCHANGED published, Delivered
  PROVE  Delivered' /\ output' = output /\ torn' = torn /\ origin' = origin
BY DEF published, Delivered

LEMMA Start == Init => AuditInv /\ Dated
<1> SUFFICES ASSUME Init PROVE AuditInv /\ Dated
  OBVIOUS
<1>1. /\ origin = [l \in {"warns", "filtered", "annotated"} |-> [audit |-> 0, report |-> <<>>]]
      /\ torn = {} /\ audits = 0
  <2>1. {Copies[i] : i \in DOMAIN Copies} = {"warns", "filtered", "annotated"}
    BY ThreeCopies
  <2>2. QED BY <2>1 DEF Init
<1>2. TypeOK
  <2>1. audits \in 0..MaxAudits /\ 0 \in 0..MaxAudits
    BY Bounds DEF Init
  <2>2. output \in [warns : Reports \cup {<<>>}, filtered : Seq(Result),
                   annotated : Seq(Entry)]
    <3>1. <<>> \in Seq(Result) /\ <<>> \in Seq(Entry)
      OBVIOUS
    <3>2. QED BY <3>1 DEF Init
  <2>3. filtered \in Seq(Result) /\ annotated \in Seq(Entry)
    BY DEF Init
  <2>4. origin \in [{"warns", "filtered", "annotated"} ->
                     [audit : 0..MaxAudits, report : Reports \cup {<<>>}]]
    BY <1>1, <2>1
  <2>5. 1 \in Nat \ {0}
    OBVIOUS
  <2>6. pc \notin {"filter", "transfer", "copy", "copying"} /\ pc \in {"idle"}
    BY DEF Init
  <2>7. torn \subseteq {"warns", "filtered", "annotated"}
    BY <1>1
  <2>8. QED BY <2>1, <2>2, <2>3, <2>4, <2>5, <2>6, <2>7, Zenon DEF Init, TypeOK
<1>3. Progress /\ Copied /\ Latest
  BY DEF Init, Progress, Copied, Latest, Transferred
<1>4. Delivered
  <2>1. /\ output.filtered = <<>> /\ output.annotated = <<>> /\ Len(<<>>) + 1 = 1
        /\ origin["filtered"].report = <<>> /\ origin["annotated"].report = <<>>
    <3>1. output.filtered = <<>> /\ output.annotated = <<>>
      BY DEF Init
    <3>2. Len(<<>>) + 1 = 1
      OBVIOUS
    <3>3. origin["filtered"] = [audit |-> 0, report |-> <<>>]
          /\ origin["annotated"] = [audit |-> 0, report |-> <<>>]
      BY <1>1
    <3>4. origin["filtered"].report = <<>> /\ origin["annotated"].report = <<>>
      BY <3>3
    <3>5. QED BY <3>1, <3>2, <3>4, Zenon
  <2>2. FilteredTo(<<>>, <<>>, 1) /\ CarriedTo(<<>>, <<>>, 1) /\ <<>> \in Seq(Result)
    <3>1. <<>> \in Seq(Result)
      OBVIOUS
    <3>2. QED BY <3>1, Begun, Zenon
  <2>3. QED BY <2>1, <2>2, Zenon DEF Delivered, AllFiltered, AllCarried
<1>5. VerdictsVouch /\ Dated
  BY <1>1 DEF VerdictsVouch, Dated
<1>6. AsDecided(annotated)
  BY DEF Init, AsDecided
<1>7. QED BY <1>2, <1>3, <1>4, <1>5, <1>6 DEF AuditInv

LEMMA AnalyzeStep == AuditInv /\ Dated /\ Analyze => AuditInv'
<1> SUFFICES ASSUME AuditInv, Dated, Analyze PROVE AuditInv'
  OBVIOUS
<1> USE DEF AuditInv, Analyze
<1>1. warns' \in Seq(Result) /\ warns' \in Reports
  <2>1. warns' \in Reports
    OBVIOUS
  <2>2. QED BY <2>1, Report
<1>2. Delivered' /\ output' = output /\ torn' = torn /\ origin' = origin
  BY NothingPublished
<1>3. TypeOK'
  <2>1. audits' \in 0..MaxAudits
    BY Bounds DEF TypeOK
  <2>2. filtered' \in Seq(Result) /\ 1 <= Len(warns') + 1
    BY <1>1
  <2>3. QED BY <1>1, <1>2, <2>1, <2>2 DEF TypeOK
<1>4. Progress'
  BY <1>1, Begun DEF Progress, Transferred
<1>5. origin["annotated"].audit # audits'
  <2>1. origin["annotated"].audit \in 0..MaxAudits /\ origin["annotated"].audit <= audits
    BY DEF TypeOK, Dated
  <2>2. audits \in Nat /\ audits' = audits + 1
    BY Bounds DEF TypeOK
  <2>3. QED BY <2>1, <2>2, Bounds
<1>6. Copied' /\ Latest' /\ VerdictsVouch'
  BY <1>2, <1>5 DEF Copied, Latest, VerdictsVouch, Transferred
<1>7. QED BY <1>2, <1>3, <1>4, <1>6 DEF AsDecided

(* What the steps between the first result and the last copy keep.         *)
LEMMA Onward ==
  ASSUME AuditInv, UNCHANGED <<audits, warns, published>>, pc' = pc \/ pc' \in {"transfer", "copy"},
         pc \in {"filter", "transfer"}, pc' = "copy" => at' = 1
  PROVE  Delivered' /\ Copied' /\ Latest' /\ VerdictsVouch'
<1> USE DEF AuditInv
<1>1. Delivered' /\ output' = output /\ torn' = torn /\ origin' = origin
  BY NothingPublished
<1>2. Copied' /\ Latest'
  BY <1>1 DEF Copied, Latest, Transferred
<1>3. VerdictsVouch'
  BY <1>1 DEF VerdictsVouch
<1>4. QED BY <1>1, <1>2, <1>3

LEMMA FilterKeeps == AuditInv /\ Filter => AuditInv'
<1> SUFFICES ASSUME AuditInv, Filter PROVE AuditInv'
  OBVIOUS
<1> USE DEF AuditInv, Filter
<1>1. /\ warns \in Seq(Result) /\ at \in DOMAIN warns /\ warns[at] \in Result
      /\ filtered \in Seq(Result) /\ filtered' \in Seq(Result)
  <2>1. warns \in Seq(Result) /\ at \in DOMAIN warns
    BY Report DEF TypeOK
  <2>2. warns[at] \in Result
    BY <2>1
  <2>3. QED BY <2>1, <2>2 DEF TypeOK
<1>2. Delivered' /\ Copied' /\ Latest' /\ VerdictsVouch'
  BY Onward
<1>3. TypeOK'
  BY <1>1 DEF TypeOK, published
<1>4. FilteredTo(filtered', warns, at + 1)
  BY <1>1, FilterStep DEF Progress
<1>5. Progress'
  BY <1>4 DEF Progress, Transferred
<1>6. QED BY <1>2, <1>3, <1>5 DEF AsDecided

LEMMA EndFilterKeeps == AuditInv /\ EndFilter => AuditInv'
<1> SUFFICES ASSUME AuditInv, EndFilter PROVE AuditInv'
  OBVIOUS
<1> USE DEF AuditInv, EndFilter
<1>1. /\ warns \in Seq(Result) /\ at = Len(warns) + 1 /\ filtered \in Seq(Result)
  BY Report DEF TypeOK
<1>2. Delivered' /\ Copied' /\ Latest' /\ VerdictsVouch'
  BY Onward
<1>3. TypeOK'
  BY <1>1 DEF TypeOK, published
<1>4. FilteredTo(filtered, warns, Len(warns) + 1) /\ CarriedTo(<<>>, filtered, 1)
  BY <1>1, Begun DEF Progress
<1>5. Progress'
  BY <1>4 DEF Progress, Transferred
<1>6. AsDecided(annotated)'
  BY DEF AsDecided
<1>7. QED BY <1>2, <1>3, <1>5, <1>6

LEMMA TransferKeeps == AuditInv /\ Transfer => AuditInv'
<1> SUFFICES ASSUME AuditInv, Transfer PROVE AuditInv'
  OBVIOUS
<1> DEFINE r == filtered[at]
           e == [result |-> r, status |-> Verdict(r)]
<1>1. /\ pc = "transfer" /\ at <= Len(filtered) /\ at' = at + 1
      /\ annotated' = IF r.id = "none" THEN annotated ELSE Append(annotated, e)
      /\ UNCHANGED <<audits, pc, warns, filtered, published>>
  BY DEF Transfer
<1>2. TypeOK /\ Progress /\ AsDecided(annotated)
  BY DEF AuditInv
<1>3. /\ filtered \in Seq(Result) /\ annotated \in Seq(Entry)
      /\ at \in 1..Len(filtered) /\ at \in DOMAIN filtered
  BY <1>1, <1>2 DEF TypeOK, Entry
<1>4. r \in Result
  BY <1>3
<1>5. Verdict(r) \in Status /\ e \in Entry
  BY <1>4, VerdictType DEF Entry
<1>6. CarriedTo(annotated', filtered, at + 1)
  BY <1>1, <1>2, <1>3, <1>5, TransferStep DEF Progress
<1>7. e.status = Verdict(e.result)
  OBVIOUS
<1> HIDE DEF r, e
<1>8. AsDecided(annotated')
  <2>1. \A i \in DOMAIN annotated : annotated[i].status = Verdict(annotated[i].result)
    BY <1>2 DEF AsDecided
  <2>2. \A i \in DOMAIN Append(annotated, e) :
          \/ i \in DOMAIN annotated /\ Append(annotated, e)[i] = annotated[i]
          \/ Append(annotated, e)[i] = e
    BY <1>3, <1>5
  <2>3. QED BY <1>1, <1>7, <2>1, <2>2 DEF AsDecided
<1>9. annotated' \in Seq(Entry)
  <2>1. Append(annotated, e) \in Seq(Entry)
    BY <1>3, <1>5
  <2>2. annotated' = annotated \/ annotated' = Append(annotated, e)
    BY <1>1
  <2>3. QED BY <1>3, <2>1, <2>2
<1>10. TypeOK'
  <2>1. at' \in Nat \ {0} /\ at' <= Len(filtered) + 1
    BY <1>1, <1>3
  <2>2. annotated' \in Seq(Entry)
    BY <1>9 DEF Entry
  <2>3. QED BY <1>1, <1>2, <2>1, <2>2 DEF TypeOK, published
<1>11. Progress'
  BY <1>1, <1>2, <1>6 DEF Progress, Transferred
<1>12. Delivered' /\ Copied' /\ Latest' /\ VerdictsVouch'
  BY <1>1, Onward
<1>13. QED BY <1>8, <1>10, <1>11, <1>12 DEF AuditInv

LEMMA EndTransferKeeps == AuditInv /\ EndTransfer => AuditInv'
<1> SUFFICES ASSUME AuditInv, EndTransfer PROVE AuditInv'
  OBVIOUS
<1>1. TypeOK /\ Progress /\ AsDecided(annotated)
  BY DEF AuditInv
<1>2. /\ pc = "transfer" /\ at > Len(filtered) /\ pc' = "copy" /\ at' = 1
      /\ UNCHANGED <<audits, warns, filtered, annotated, published>>
  BY DEF EndTransfer
<1>3. at = Len(filtered) + 1
  <2>1. filtered \in Seq(Result) /\ at \in Nat /\ at <= Len(filtered) + 1
    BY <1>1, <1>2 DEF TypeOK
  <2>2. Len(filtered) \in Nat
    BY <2>1
  <2>3. QED BY <1>2, <2>1, <2>2
<1>4. Delivered' /\ Copied' /\ Latest' /\ VerdictsVouch'
  BY <1>2, Onward
<1>5. TypeOK' /\ AsDecided(annotated)'
  BY <1>1, <1>2, ThreeCopies DEF TypeOK, AsDecided, published
<1>6. Progress'
  BY <1>1, <1>2, <1>3 DEF Progress, Transferred
<1>7. QED BY <1>4, <1>5, <1>6 DEF AuditInv

LEMMA OpenKeeps == AuditInv /\ OpenCopy => AuditInv'
<1> SUFFICES ASSUME AuditInv, OpenCopy PROVE AuditInv'
  OBVIOUS
<1> DEFINE l == Copies[at]
<1>1. TypeOK /\ Progress /\ Delivered /\ Copied /\ Latest /\ VerdictsVouch /\ AsDecided(annotated)
  BY DEF AuditInv
<1>2. /\ pc = "copy" /\ pc' = "copying"
      /\ output' = [output EXCEPT ![l] = <<>>]
      /\ torn' = torn \cup {l}
      /\ origin' = [origin EXCEPT ![l] = Own]
      /\ UNCHANGED <<audits, at, warns, filtered, annotated>>
  BY DEF OpenCopy, Own
<1>3. at \in 1..3 /\ (at = 1 => l = "warns") /\ (at = 2 => l = "filtered") /\ (at = 3 => l = "annotated")
  BY <1>1, <1>2, ThreeCopies DEF TypeOK
<1>4. l \in {"warns", "filtered", "annotated"}
  BY <1>3
<1>5. Own' = Own /\ Own \in [audit : 0..MaxAudits, report : Reports \cup {<<>>}]
  BY <1>1, <1>2 DEF Own, TypeOK
<1> HIDE DEF l
<1>6. /\ origin' \in [{"warns", "filtered", "annotated"} ->
                       [audit : 0..MaxAudits, report : Reports \cup {<<>>}]]
      /\ origin'[l] = Own
      /\ \A k \in {"warns", "filtered", "annotated"} : k # l => origin'[k] = origin[k]
  BY <1>1, <1>2, <1>4, <1>5 DEF TypeOK
<1>7. /\ output' \in [warns : Reports \cup {<<>>}, filtered : Seq(Result), annotated : Seq(Entry)]
      /\ l # "filtered" => output'.filtered = output.filtered
      /\ l # "annotated" => output'.annotated = output.annotated
  <2>1. output \in [warns : Reports \cup {<<>>}, filtered : Seq(Result), annotated : Seq(Entry)]
    BY <1>1 DEF TypeOK
  <2>2. <<>> \in Reports \cup {<<>>} /\ <<>> \in Seq(Result) /\ <<>> \in Seq(Entry)
    OBVIOUS
  <2>3. QED BY <1>2, <1>4, <2>1, <2>2
<1>8. TypeOK'
  BY <1>1, <1>2, <1>4, <1>6, <1>7 DEF TypeOK
<1>9. Progress' /\ AsDecided(annotated)'
  BY <1>1, <1>2 DEF Progress, Transferred, AsDecided
<1>10. Delivered'
  BY <1>1, <1>2, <1>6, <1>7 DEF Delivered
<1>11. Copied'
  <2>1. \A i \in 1..(at - 1) : Copies[i] \in {"warns", "filtered", "annotated"} /\ Copies[i] # l
    BY <1>3, ThreeCopies DEF l
  <2>2. \A i \in 1..(at - 1) : Copies[i] \notin torn /\ origin[Copies[i]] = Own
    BY <1>1, <1>2 DEF Copied, Transferred
  <2>3. \A i \in 1..(at - 1) : Copies[i] \notin torn' /\ origin'[Copies[i]] = Own
    BY <1>2, <1>6, <2>1, <2>2
  <2>4. l \in torn' /\ origin'[l] = Own
    BY <1>2, <1>6
  <2>5. QED BY <1>2, <1>5, <2>3, <2>4 DEF Copied, l
<1>12. Latest' /\ VerdictsVouch'
  <2>1. CASE at = 3
    BY <1>2, <1>3, <2>1 DEF Latest, VerdictsVouch
  <2>2. CASE at # 3
    <3>1. origin'["annotated"] = origin["annotated"] /\ origin["annotated"].audit # audits
      BY <1>1, <1>2, <1>3, <1>6, <2>2 DEF Latest
    <3>2. QED BY <1>2, <3>1 DEF Latest, VerdictsVouch
  <2>3. QED BY <2>1, <2>2
<1>13. QED BY <1>8, <1>9, <1>10, <1>11, <1>12 DEF AuditInv

LEMMA FillKeeps == AuditInv /\ FillCopy => AuditInv'
<1> SUFFICES ASSUME AuditInv, FillCopy PROVE AuditInv'
  OBVIOUS
<1> DEFINE l == Copies[at]
<1>1. TypeOK /\ Progress /\ Delivered /\ Copied /\ Latest /\ VerdictsVouch /\ AsDecided(annotated)
  BY DEF AuditInv
<1>2. /\ pc = "copying" /\ at' = at + 1 /\ pc' = IF at = 3 THEN "done" ELSE "copy"
      /\ output' = [output EXCEPT ![l] = Copy[l]]
      /\ torn' = torn \ {l}
      /\ UNCHANGED <<audits, warns, filtered, annotated, origin>>
  BY ThreeCopies DEF FillCopy
<1>3. at \in 1..3 /\ (at = 1 => l = "warns") /\ (at = 2 => l = "filtered") /\ (at = 3 => l = "annotated")
  BY <1>1, <1>2, ThreeCopies DEF TypeOK
<1>4. l \in {"warns", "filtered", "annotated"}
  BY <1>3
<1>5. origin[l].report = warns /\ origin[l] = Own /\ Own' = Own
  BY <1>1, <1>2 DEF Copied, Own
<1>6. /\ Copy["warns"] = warns /\ Copy["filtered"] = filtered /\ Copy["annotated"] = annotated
      /\ warns \in Reports \cup {<<>>} /\ filtered \in Seq(Result) /\ annotated \in Seq(Entry)
  BY <1>1 DEF Copy, TypeOK
<1> HIDE DEF l
<1>7. /\ output' \in [warns : Reports \cup {<<>>}, filtered : Seq(Result), annotated : Seq(Entry)]
      /\ output'.filtered = IF l = "filtered" THEN filtered ELSE output.filtered
      /\ output'.annotated = IF l = "annotated" THEN annotated ELSE output.annotated
  <2>1. output \in [warns : Reports \cup {<<>>}, filtered : Seq(Result), annotated : Seq(Entry)]
    BY <1>1 DEF TypeOK
  <2>2. PICK c : c = Copy[l]
    OBVIOUS
  <2>3. output' = [output EXCEPT ![l] = c]
    BY <1>2, <2>2
  <2>4. /\ l = "warns" => c = warns
        /\ l = "filtered" => c = filtered
        /\ l = "annotated" => c = annotated
    BY <1>6, <2>2
  <2>5. QED BY <1>4, <1>6, <2>1, <2>3, <2>4
<1>8. TypeOK'
  <2>1. at' \in Nat \ {0} /\ (pc' = "copy" => at' <= 3) /\ pc' \in {"copy", "done"}
    BY <1>2, <1>3
  <2>2. pc' \in {"copy", "copying"} => at' <= Len(Copies)'
    BY <2>1, ThreeCopies
  <2>3. pc' \notin {"filter", "transfer"} /\ pc' \in {"idle", "filter", "transfer", "copy", "copying", "done"}
    BY <2>1
  <2>4. torn' \subseteq {"warns", "filtered", "annotated"}
    BY <1>1, <1>2 DEF TypeOK
  <2>5. at' \in Nat \ {0}
    BY <2>1
  <2> HIDE DEF l
  <2>6. /\ audits' \in 0..MaxAudits
        /\ warns' \in Reports \cup {<<>>}
        /\ filtered' \in Seq(Result)
        /\ annotated' \in Seq(Entry)
        /\ origin' \in [{"warns", "filtered", "annotated"} ->
                        [audit : 0..MaxAudits, report : Reports \cup {<<>>}]]
    BY <1>1, <1>2, Zenon DEF TypeOK
  <2>7. QED BY <1>7, <2>2, <2>3, <2>4, <2>5, <2>6, Zenon DEF TypeOK
<1>9. Progress' /\ AsDecided(annotated)'
  BY <1>1, <1>2 DEF Progress, Transferred, AsDecided
<1>10. AllFiltered(filtered, warns) /\ AllCarried(annotated, warns)
  <2>1. FilteredTo(filtered, warns, Len(warns) + 1) /\ CarriedTo(annotated, filtered, Len(filtered) + 1)
    BY <1>1, <1>2 DEF Progress, Transferred
  <2>2. QED BY <1>6, <2>1 DEF AllFiltered, AllCarried
<1>11. Delivered'
  <2>1. "filtered" \notin torn' => AllFiltered(output'.filtered, origin["filtered"].report)
    BY <1>1, <1>2, <1>5, <1>7, <1>10 DEF Delivered
  <2>2. "annotated" \notin torn' => AllCarried(output'.annotated, origin["annotated"].report)
    BY <1>1, <1>2, <1>5, <1>7, <1>10 DEF Delivered
  <2>3. QED BY <1>2, <2>1, <2>2 DEF Delivered
<1>12. \A i \in 1..at : Copies[i] \notin torn' /\ origin'[Copies[i]] = Own
  <2>1. \A i \in 1..at : i = at \/ i \in 1..(at - 1)
    BY <1>3
  <2>2. \A i \in 1..(at - 1) : Copies[i] \notin torn /\ origin[Copies[i]] = Own
    BY <1>1, <1>2 DEF Copied, Transferred
  <2>3. Copies[at] \notin torn' /\ origin'[Copies[at]] = Own
    BY <1>2, <1>5 DEF l
  <2>4. QED BY <1>2, <2>1, <2>2, <2>3
<1>13. Copied'
  BY <1>2, <1>3, <1>5, <1>12 DEF Copied, Transferred
<1>14. Latest' /\ VerdictsVouch'
  <2>1. CASE at = 3
    <3>1. \A k \in {"warns", "filtered", "annotated"} : k \notin torn' /\ origin'[k] = Own
      BY <1>12, <2>1, ThreeCopies
    <3>2. torn' = {} /\ DOMAIN origin' = {"warns", "filtered", "annotated"}
      BY <1>8, <3>1 DEF TypeOK
    <3>3. VerdictsVouch'
      BY <3>1, <3>2 DEF VerdictsVouch
    <3>4. Latest'
      BY <1>2, <2>1 DEF Latest
    <3>5. QED BY <3>3, <3>4
  <2>2. CASE at # 3
    <3>1. origin["annotated"].audit # audits
      BY <1>1, <1>2, <1>3, <2>2 DEF Latest
    <3>2. QED BY <1>2, <3>1 DEF Latest, VerdictsVouch
  <2>3. QED BY <2>1, <2>2
<1>15. QED BY <1>8, <1>9, <1>11, <1>13, <1>14 DEF AuditInv

(* A step that only changes what is done next.                             *)
LEMMA Idles ==
  ASSUME AuditInv, UNCHANGED <<audits, at, warns, filtered, annotated, published>>,
         pc' = pc \/ pc' = "idle"
  PROVE  AuditInv'
<1> USE DEF AuditInv
<1>1. Delivered' /\ output' = output /\ torn' = torn /\ origin' = origin
  BY NothingPublished
<1>2. TypeOK' /\ Progress' /\ AsDecided(annotated)'
  BY <1>1 DEF TypeOK, Progress, Transferred, AsDecided
<1>3. Copied' /\ Latest' /\ VerdictsVouch'
  BY <1>1 DEF Copied, Latest, VerdictsVouch, Transferred, Own
<1>4. QED BY <1>1, <1>2, <1>3

LEMMA DatedNext == AuditInv /\ Dated /\ [Next]_vars => Dated'
<1> SUFFICES ASSUME AuditInv, Dated, [Next]_vars PROVE Dated'
  OBVIOUS
<1>1. audits \in Nat /\ (\A l \in {"warns", "filtered", "annotated"} : origin[l].audit \in Nat)
  BY Bounds DEF AuditInv, TypeOK
<1>2. CASE UNCHANGED origin /\ (audits' = audits \/ audits' = audits + 1)
  BY <1>1, <1>2 DEF Dated
<1>3. CASE OpenCopy
  <2>1. PICK l : l = Copies[at]
    OBVIOUS
  <2>2. origin' = [origin EXCEPT ![l] = [audit |-> audits, report |-> warns]] /\ audits' = audits
    BY <1>3, <2>1 DEF OpenCopy
  <2>3. origin \in [{"warns", "filtered", "annotated"} ->
                     [audit : 0..MaxAudits, report : Reports \cup {<<>>}]]
    BY DEF AuditInv, TypeOK
  <2>4. QED BY <1>1, <2>2, <2>3 DEF Dated
<1>4. QED BY <1>2, <1>3 DEF Next, Analyze, Filter, EndFilter, Transfer, EndTransfer, FillCopy, Kill,
                            vars, published

LEMMA AuditInvariant == Spec => []AuditInv
<1>1. AuditInv /\ Dated /\ [Next]_vars => AuditInv'
  <2> SUFFICES ASSUME AuditInv, Dated, [Next]_vars PROVE AuditInv'
    OBVIOUS
  <2>1. CASE Kill
    BY <2>1, Idles DEF Kill
  <2>2. CASE UNCHANGED vars
    BY <2>2, Idles DEF vars
  <2>3. QED BY <2>1, <2>2, AnalyzeStep, FilterKeeps, EndFilterKeeps, TransferKeeps,
               EndTransferKeeps, OpenKeeps, FillKeeps DEF Next
<1>2. QED BY <1>1, Start, DatedNext, PTL DEF Spec

(* Types of the state.                                                     *)
THEOREM Typing == Spec => []TypeOK
<1>1. AuditInv => TypeOK
  BY DEF AuditInv
<1>2. QED BY <1>1, AuditInvariant, PTL

(* How often a result that is in scope, and not the first, is kept.        *)
LEMMA KeptOnce ==
  ASSUME NEW report \in Seq(Result), NEW p \in result_list(report),
         ~ Excluded(report[p]), report[p].path # "relative"
  PROVE  LET n == Cardinality(KeptBefore(report, Len(report) + 1, report[p])) IN
         n = 1 \/ (n = 2 /\ report[p] \in First(report))
<1> DEFINE r == report[p]
           places == {i \in result_list(report) : report[i] = r}
           later == {i \in places : ~ IsFirst(report, i)}
           kept == KeptBefore(report, Len(report) + 1, r)
<1>1. /\ result_list(report) \subseteq Nat /\ p \in places
      /\ \A i \in result_list(report) : i < Len(report) + 1
  BY DEF result_list
<1>2. \A i, j \in places : IsFirst(report, i) /\ IsFirst(report, j) => i = j
  BY <1>1 DEF IsFirst
<1>3. \A i \in places : i \in kept <=> \A j \in later : ~ (j < i)
  BY <1>1 DEF KeptBefore, Kept, Dropped, Excluded
<1>4. kept \subseteq places
  BY DEF KeptBefore, Kept
<1>5. \A i \in places : IsFirst(report, i) => i \in kept /\ r \in First(report)
  BY <1>1, <1>3 DEF IsFirst, First
<1>6. CASE later = {}
  <2>1. p \in kept
    BY <1>1, <1>3, <1>6
  <2>2. kept = {p}
    BY <1>1, <1>2, <1>4, <1>6, <2>1
  <2>3. QED BY <2>2, FS_Singleton
<1>7. CASE later # {}
  <2>1. PICK m \in later : \A j \in later : m <= j
    BY <1>1, <1>7, Least
  <2>2. m \in kept
    BY <1>1, <1>3, <2>1
  <2>3. \A i \in kept : i = m \/ IsFirst(report, i)
    BY <1>1, <1>3, <1>4, <2>1
  <2>4. CASE \E f \in places : IsFirst(report, f)
    <3>1. PICK f \in places : IsFirst(report, f)
      BY <2>4
    <3>2. kept = {f, m} /\ f # m /\ r \in First(report)
      BY <1>2, <1>4, <1>5, <2>1, <2>2, <2>3, <3>1
    <3>3. Cardinality({f, m}) = 2
      <4> DEFINE one == {f}
      <4>1. IsFiniteSet(one) /\ Cardinality(one) = 1 /\ m \notin one
        BY <3>2, FS_Singleton
      <4>2. {f, m} = one \cup {m}
        OBVIOUS
      <4> HIDE DEF one
      <4>3. Cardinality(one \cup {m}) = Cardinality(one) + 1
        BY <4>1, FS_AddElement
      <4>4. Cardinality(one) + 1 = 2
        BY <4>1
      <4>5. QED BY <4>2, <4>3, <4>4, Zenon
    <3>4. QED BY <3>2, <3>3
  <2>5. CASE ~ \E f \in places : IsFirst(report, f)
    <3>1. kept = {m}
      BY <1>4, <2>2, <2>3, <2>5
    <3>2. QED BY <3>1, FS_Singleton
  <2>6. QED BY <2>4, <2>5
<1>8. QED BY <1>6, <1>7

(* The lists in the output directory are lists of results.                 *)
LEMMA PublishedType ==
  ASSUME AuditInv, NEW l \in {"filtered", "annotated"}
  PROVE  origin[l].report \in Seq(Result) /\ Published(l) \in Seq(Result)
<1> DEFINE report == origin[l].report
<1>1. /\ report \in Reports \cup {<<>>} /\ report \in Seq(Result)
      /\ output.filtered \in Seq(Result) /\ output.annotated \in Seq(Entry)
      /\ Results(output.annotated) \in Seq(Result)
  <2>1. l \in {"warns", "filtered", "annotated"}
    OBVIOUS
  <2>2. report \in Reports \cup {<<>>} /\ output.filtered \in Seq(Result) /\ output.annotated \in Seq(Entry)
    BY <2>1 DEF AuditInv, TypeOK
  <2>3. \A i \in 1..Len(output.annotated) : output.annotated[i].result \in Result
    <3>1. \A i \in 1..Len(output.annotated) : output.annotated[i] \in Entry
      BY <2>2
    <3>2. \A e \in Entry : e.result \in Result
      BY DEF Entry
    <3>3. QED BY <3>1, <3>2
  <2> HIDE DEF report
  <2>4. Results(output.annotated) \in Seq(Result)
    BY <2>2, <2>3 DEF Results
  <2>5. QED BY <2>2, <2>4, Report
<1>2. QED BY <1>1 DEF Published

(* How often a result is in a published list, if that list is whole.       *)
LEMMA Occurrences ==
  ASSUME AuditInv, NEW l \in {"filtered", "annotated"} \ torn, NEW r \in Result
  PROVE  LET report == origin[l].report IN
         Cardinality(Listed(Published(l), r)) =
           IF l = "annotated" /\ r.id = "none" THEN 0
           ELSE Cardinality(KeptBefore(report, Len(report) + 1, r))
<1> DEFINE report == origin[l].report
<1>2. CASE l = "filtered"
  <2>1. AllFiltered(output.filtered, report)
    BY <1>2 DEF AuditInv, Delivered
  <2> HIDE DEF report
  <2>2. Cardinality(Listed(output.filtered, r)) = Cardinality(KeptBefore(report, Len(report) + 1, r))
    BY <2>1 DEF AllFiltered, FilteredTo
  <2>3. QED BY <1>2, <2>2 DEF Published, report
<1>3. CASE l = "annotated"
  <2>1. AllCarried(output.annotated, report)
    BY <1>3 DEF AuditInv, Delivered
  <2> HIDE DEF report
  <2>2. PICK source \in Seq(Result) :
          AllFiltered(source, report) /\ CarriedTo(output.annotated, source, Len(source) + 1)
    BY <2>1 DEF AllCarried
  <2>3. Cardinality(Listed(Results(output.annotated), r)) =
          IF r.id = "none" THEN 0 ELSE Cardinality(Before(source, Len(source) + 1, r))
    BY <2>2 DEF CarriedTo
  <2>4. Before(source, Len(source) + 1, r) = Listed(source, r)
    BY DEF Before, Listed
  <2>5. Cardinality(Listed(source, r)) = Cardinality(KeptBefore(report, Len(report) + 1, r))
    BY <2>2 DEF AllFiltered, FilteredTo
  <2>6. QED BY <1>3, <2>3, <2>4, <2>5 DEF Published, report
<1>4. QED BY <1>2, <1>3

(* What an auditor is given is complete, wherever audits were killed: a    *)
(* list that was not cut off has every result in scope of the report it    *)
(* was made from, the list with the verdicts every one that has an id:     *)
(* once, or twice if it is the first, whose duplicate is not recognised.   *)
THEOREM Complete == Spec => []NothingMissed
<1>1. AuditInv => NothingMissed
  <2> SUFFICES ASSUME AuditInv, NEW l \in {"filtered", "annotated"} \ torn,
                      NEW r \in InScope(origin[l].report), l = "annotated" => r.id # "none"
               PROVE  LET n == Cardinality(Listed(Published(l), r))
                      IN  n = 1 \/ (n = 2 /\ r \in First(origin[l].report))
    BY DEF NothingMissed
  <2> DEFINE report == origin[l].report
  <2>1. PICK p \in result_list(report) :
          report[p] = r /\ report[p].path \notin OutOfScope \cup {"relative"}
    BY DEF InScope
  <2>2. report \in Seq(Result)
    BY PublishedType
  <2> HIDE DEF report
  <2>3. r \in Result
    BY <2>1, <2>2 DEF result_list
  <2>4. Cardinality(Listed(Published(l), r)) = Cardinality(KeptBefore(report, Len(report) + 1, r))
    BY <2>3, Occurrences DEF report
  <2>5. LET n == Cardinality(KeptBefore(report, Len(report) + 1, r))
        IN  n = 1 \/ (n = 2 /\ r \in First(report))
    BY <2>1, <2>2, KeptOnce DEF Excluded, OutOfScope
  <2>6. QED BY <2>4, <2>5 DEF report
<1>2. QED BY <1>1, AuditInvariant, PTL

(* Nothing else is there: no other subsystem, except in the first result,  *)
(* and nothing of another kernel.                                          *)
THEOREM Scoped == Spec => []OnlyInScope
<1>1. AuditInv => OnlyInScope
  <2> SUFFICES ASSUME AuditInv, NEW l \in {"filtered", "annotated"} \ torn,
                      NEW i \in DOMAIN Published(l)
               PROVE  LET report == origin[l].report
                          r == Published(l)[i]
                      IN  Listed(report, r) # {} /\ (r.path \in OutOfScope => r \in First(report))
    BY DEF OnlyInScope
  <2> DEFINE report == origin[l].report
             results == Published(l)
             r == results[i]
  <2>1. report \in Seq(Result) /\ results \in Seq(Result)
    BY PublishedType
  <2>2. i \in DOMAIN results /\ r \in Result
    BY <2>1
  <2>3. Cardinality(Listed(results, r)) # 0
    <3> HIDE DEF results
    <3>1. IsFiniteSet(Listed(results, r))
      BY <2>1, FiniteParts
    <3>2. Listed(results, r) # {}
      BY <2>2 DEF Listed
    <3>3. QED BY <3>1, <3>2, FS_EmptySet
  <2>4. Cardinality(KeptBefore(report, Len(report) + 1, r)) # 0
    <3>1. Cardinality(Listed(results, r)) =
            IF l = "annotated" /\ r.id = "none" THEN 0
            ELSE Cardinality(KeptBefore(report, Len(report) + 1, r))
      BY <2>2, Occurrences
    <3> HIDE DEF results, report, r
    <3>2. QED BY <2>3, <3>1
  <2> HIDE DEF results, report, r
  <2>5. KeptBefore(report, Len(report) + 1, r) # {}
    BY <2>4, FS_EmptySet
  <2>6. PICK p \in Kept(report) : report[p] = r
    BY <2>5 DEF KeptBefore
  <2>7. Listed(report, r) # {}
    BY <2>6 DEF Listed, Kept, result_list
  <2>8. r.path \in OutOfScope => r \in First(report)
    BY <2>6 DEF Kept, Dropped, Excluded, OutOfScope, First
  <2>9. QED BY <2>7, <2>8 DEF report, r, results
<1>2. QED BY <1>1, AuditInvariant, PTL

(* A whole list with verdicts from the latest audit vouches for the other  *)
(* lists: they are whole and from that audit, wherever it or earlier ones  *)
(* were killed.                                                            *)
THEOREM Vouching == Spec => []VerdictsVouch
<1>1. AuditInv => VerdictsVouch
  BY DEF AuditInv
<1>2. QED BY <1>1, AuditInvariant, PTL

(* A verdict is only carried over to the finding it was given to, the same *)
(* id or the same renamed msr read in the same function; "excluded" goes   *)
(* to other findings as well, but not out of the function.                 *)
THEOREM Founded == Spec => []VerdictFounded
<1>1. AuditInv => VerdictFounded
  <2> SUFFICES ASSUME AuditInv, NEW i \in DOMAIN annotated, annotated[i].status # "none"
               PROVE  \E j \in DOMAIN Annotated :
                        LET e == Annotated[j]
                            r == annotated[i].result
                        IN  /\ e.status = annotated[i].status
                            /\ e.result.path = r.path /\ e.result.func = r.func
                            /\ \/ e.status = "excluded"
                               \/ e.result.id = r.id
                               \/ e.result.var = r.var /\ e.result.line = r.line
    BY DEF VerdictFounded
  <2> DEFINE r == annotated[i].result
  <2>1. annotated[i].status = Verdict(r)
    BY DEF AuditInv, AsDecided
  <2>2. Deciding(r) # {}
    BY <2>1 DEF Verdict
  <2>3. PICK j \in Deciding(r) : Verdict(r) = Annotated[j].status
    BY <2>2, FirstVerdict
  <2>4. j \in DOMAIN Annotated /\ Decides(Annotated[j], r)
    BY DEF Deciding
  <2> HIDE DEF r
  <2>5. /\ Annotated[j].result.path = r.path /\ Annotated[j].result.func = r.func
        /\ \/ Annotated[j].status = "excluded"
           \/ Annotated[j].result.id = r.id
           \/ Annotated[j].result.var = r.var /\ Annotated[j].result.line = r.line
    BY <2>4 DEF Decides
  <2>6. QED BY <2>1, <2>3, <2>4, <2>5 DEF r
<1>2. QED BY <1>1, AuditInvariant, PTL

(* A finding that has not changed at all keeps its verdict, or has that of *)
(* an entry in front of it: one of its function that is excluded, shares   *)
(* its id, or is about the same variable in the same line.                 *)
THEOREM Unchanged == Spec => []VerdictKept
<1>1. AuditInv => VerdictKept
  <2> SUFFICES ASSUME AuditInv, NEW i \in DOMAIN annotated, NEW j \in DOMAIN Annotated,
                      Annotated[j].result = annotated[i].result
               PROVE  \E k \in 1..j :
                        LET e == Annotated[k]
                            r == annotated[i].result
                        IN  /\ annotated[i].status = e.status
                            /\ e.result.path = r.path /\ e.result.func = r.func
                            /\ \/ e.status = "excluded"
                               \/ e.result.id = r.id
                               \/ e.result.var = r.var /\ e.result.line = r.line
    BY DEF VerdictKept
  <2> DEFINE r == annotated[i].result
  <2>1. annotated[i].status = Verdict(r)
    BY DEF AuditInv, AsDecided
  <2>2. j \in Deciding(r)
    BY DEF Deciding, Decides
  <2>3. PICK m \in Deciding(r) :
          /\ \A k \in Deciding(r) : m <= k
          /\ Verdict(r) = Annotated[m].status
    BY <2>2, FirstVerdict
  <2>4. m \in 1..j
    <3>1. m \in DOMAIN Annotated /\ m <= j
      BY <2>2, <2>3 DEF Deciding
    <3>2. m \in Nat \ {0} /\ j \in Nat
      BY <3>1, Earlier
    <3>3. QED BY <3>1, <3>2
  <2>5. Decides(Annotated[m], r)
    BY <2>3 DEF Deciding
  <2> HIDE DEF r
  <2>6. /\ Annotated[m].result.path = r.path /\ Annotated[m].result.func = r.func
        /\ \/ Annotated[m].status = "excluded"
           \/ Annotated[m].result.id = r.id
           \/ Annotated[m].result.var = r.var /\ Annotated[m].result.line = r.line
    BY <2>5 DEF Decides
  <2>7. QED BY <2>1, <2>3, <2>4, <2>6 DEF r
<1>2. QED BY <1>1, AuditInvariant, PTL
=============================================================================
