\* A small machine: what becomes of an option the user gives.
CONSTANTS
  MaxCpu = 4
  MaxHarnesses = 2
  Threads = {3, 32}
SPECIFICATION Spec
INVARIANTS ThreadsAsGiven
