----------------------------- MODULE MCSmatcher -----------------------------
(* A workdir that is traced and matched in every mode, and one that is     *)
(* built and audited but never traced, whose report disagrees: "l1" is of  *)
(* another class there.  Only the first workdir's report names "l2", which *)
(* is inside a basic block that has its endpoints in "l1".                 *)
EXTENDS Smatcher, TLC

MCWorkdir == {"w1", "w2"}
MCAddr == {"a1", "a2"}
MCEndpoint == {"a1"}
MCLine == {"l1", "l2"}
MCLinesAt == "a1" :> {"l1"} @@ "a2" :> {"l2"}
MCReach == "w1" :> {"a1", "a2"} @@ "w2" :> {}
MCModes == "w1" :> {"fast", "slow", "ghidra"} @@ "w2" :> {}

MCWarnsOf == "w1" :> {<<"unclassified", "l1", "f">>, <<"unclassified", "l2", "g">>}
MCDefaultWarns == {<<"unclassified", "l1", "f">>}
MCAnnotatedOf == "w2" :> {<<"concern", "l1", "f">>}
MCGivenReport == {<<"safe", "l1", "f">>, <<"safe", "l2", "g">>}

Both == [items |-> <<<<"w2", "dir">>, <<"w1", "dir">>>>, smatch |-> FALSE, combine_cov_files |-> TRUE,
         ignore_errors |-> TRUE, load |-> FALSE, save |-> TRUE]
Load == [items |-> <<<<"w1", "dir">>, <<"w1", "addr2line">>>>, smatch |-> TRUE,
         combine_cov_files |-> FALSE, ignore_errors |-> FALSE, load |-> TRUE, save |-> FALSE]

(* Calls are interchangeable. *)
MCSymmetry == Permutations(Call)
MCOptions == {Both, Load}
=============================================================================
