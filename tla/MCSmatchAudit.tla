---------------------------- MODULE MCSmatchAudit ----------------------------
(* For SmatchAudit, a finding that moved to another line, two that did not *)
(* change in functions with excluded code, a new one, msr reads one of     *)
(* which was renamed, findings outside the scope, and lines that are none. *)
EXTENDS SmatchAudit

R(path, func, line, id, reads, var) ==
  [path |-> path, func |-> func, line |-> line, id |-> id, reads |-> reads, var |-> var]
E(result, status) == [result |-> result, status |-> status]

Moved   == R("core", "setup", 12, "1", "other", "v")
Same    == R("allowed driver", "probe", 4, "2", "other", "v")
Other   == R("allowed driver", "open", 5, "3", "other", "w")
New     == R("core", "start", 2, "10", "other", "v")
Native  == R("core", "msr", 7, "4", "native_read_msr", "m")
Native8 == [Native EXCEPT !.line = 8, !.id = "11"]
Sound   == R("sound", "play", 1, "5", "other", "v")
Pci     == R("controller", "read", 1, "6", "other", "v")
Up      == R("relative", "setup", 12, "1", "other", "v")
Spectre == R("core", "index", 3, "none", "other", "v")
Noise   == R("core", "setup", 1, "none", "nothing", "none")
Found   == {Moved, Same, Other, New, Native, Native8, Sound, Pci, Up, Spectre, Noise}

(* The first result stands out in the filter only.                         *)
MCReports == {<<a, b, Same>> : a \in {Moved, Same, Sound, Up, Noise}, b \in Found}

MCAnnotated ==
  <<E([Moved EXCEPT !.line = 10], "concern"),
    E(Same, "safe"), E([Same EXCEPT !.line = 3, !.id = "7"], "excluded"),
    E([Other EXCEPT !.line = 3, !.id = "7"], "excluded"), E(Other, "safe"),
    E([Native EXCEPT !.id = "8", !.reads = "paravirt_read_msr"], "safe"),
    E([Native EXCEPT !.id = "9", !.line = 9, !.reads = "paravirt_read_msr"], "concern"),
    E(Native, "concern"), E(Native8, "wrapper")>>
=============================================================================
