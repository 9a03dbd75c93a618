--------------------------- MODULE MCFastMatcher ----------------------------
(* Small traces for FastMatcher: addresses 0..5, where 1..2 and 3..5 belong *)
(* to two functions of the report and 0 to no function at all.              *)
EXTENDS FastMatcher

MCFuncsAt ==
  [a \in Node |-> IF a \in 1..2 THEN {"f"} ELSE IF a \in 3..5 THEN {"g"} ELSE {}]
MCSmatchFuncs == {"f", "g"}

PT == PT_TOKEN

(* A run through both functions that leaves the kernel once, one that      *)
(* leaves it twice in a row, and a backward jump.                          *)
Leaving  == <<<<1, 3>>, <<4, PT>>, <<PT, 1>>, <<2, 5>>>>
Twice    == <<<<5, PT>>, <<PT, PT>>, <<PT, 3>>, <<5, 1>>>>
Backward == <<<<2, 5>>, <<4, 1>>, <<2, 3>>>>

Cut(lines, n, tail) == [lines |-> SubSeq(lines, 1, n), tail |-> tail]

(* Complete traces, one that never returns to the traced code, and traces  *)
(* cut at a place of each kind: at the end of a line, in an address, in    *)
(* front of a comma and behind it, after leaving the traced code and not.  *)
Complete == {Cut(l, Len(l), "eof") : l \in {Leaving, Twice, Backward}}
NoReturn == Cut(<<<<4, PT>>, <<1, 2>>>>, 2, "eof")
Timeout  == {Cut(Leaving, 2, tail) : tail \in {"eof", "short", "empty"}}
              \cup {Cut(Leaving, 1, "empty"), Cut(<<<<1, 3>>, <<4, 0>>>>, 2, "eof")}

MCInput == Complete \cup Timeout \cup {NoReturn}
FewInputs == {Cut(Leaving, 4, "eof"), Cut(Leaving, 1, "empty")}
=============================================================================
