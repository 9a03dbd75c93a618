\* All machines of up to 9 CPUs, with fewer, as many and more workers than CPUs,
\* with fewer and more harnesses than pipes, and with zero and negative options.
CONSTANTS
  MaxCpu = 9
  MaxHarnesses = 5
  Threads = {3, 32}
SPECIFICATION Spec
INVARIANTS TypeOK PlanUsable CpusDisjoint CpusExist ThreadsBounded
