--------------------------- MODULE MCHarnessSetup ---------------------------
(* A harness of every kind for HarnessSetup; patterns that match one       *)
(* harness, two of them, all of them and none.                             *)
EXTENDS HarnessSetup, TLC

MCHarnesses ==
  <<"BOOT_DOINITCALLS_PCI", "DOINITCALLS_LEVEL_4", "BPH_ACPI_INIT", "US_DHCP">>
MCKind ==
  "BOOT_DOINITCALLS_PCI" :> "BOOT"
    @@ "DOINITCALLS_LEVEL_4" :> "DOINITCALLS" @@ "BPH_ACPI_INIT" :> "BPH" @@ "US_DHCP" :> "US"
MCOwn ==
  "BOOT_DOINITCALLS_PCI" :> "DOINITCALLS_PCI"
    @@ "DOINITCALLS_LEVEL_4" :> "4" @@ "BPH_ACPI_INIT" :> "ACPI_INIT" @@ "US_DHCP" :> "DHCP"
MCMatches ==
  "" :> Harness @@ "all" :> {} @@ "list" :> {}
    @@ "DOINITCALLS" :> {"BOOT_DOINITCALLS_PCI", "DOINITCALLS_LEVEL_4"}
    @@ "CP" :> {"BPH_ACPI_INIT", "US_DHCP"}

(* linux_kernel_tdx_guest.config and one without the harnesses.            *)
MCTemplates ==
  "guest" :> (Choice("POST_TRAP") :> "y" @@ Plain("DEBUGFS") :> "y" @@ Plain("SKIP_ACPI_PIO") :> "y")
    @@ "sprbkc" :> (Plain("DEBUGFS") :> "n")
MCSeedDirs == "seeds" :> {"US_DHCP", "generic"}

(* Two versions, of which one has a file that the other lacks.             *)
MCSharedirs ==
  {{<<"init.sh", "template">>, <<"loader.sh", "old">>, <<"fuzz.sh", "old">>},
   {<<"init.sh", "template">>, <<"loader.sh", "new">>}}

Request(pattern, template, seeds) ==
  [pattern |-> pattern, template |-> template, seeds |-> seeds]

MCRequests ==
  {Request("", "guest", "none"), Request("all", "guest", "none"), Request("CP", "sprbkc", "seeds"),
   Request("DOINITCALLS", "guest", "none"), Request("list", "guest", "none")}
=============================================================================
