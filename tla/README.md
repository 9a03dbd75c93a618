# TDVFuzz: a TLA+ model of the fuzzing pipeline

TDVFuzz drives kAFL fuzzing campaigns against Linux guests and the TDVF
firmware. A campaign builds a kernel per harness, fuzzes it in one or more
workdirs, replays the corpus to collect traces, matches the traces against a
smatch report and combines the result. All of this is Python, shell and Rust
glue around programs that are not in the repository (kAFL, QEMU, smatch,
addr2line, the kernel's Makefiles). The repository has no unit tests. Paths
below are relative to `src/`.

## Inventory

**Campaign scheduler** (`bkc/kafl/pipeline.py`). State: the main thread's
position in `run_campaign()`, `fuzz_queue`, the set `pipes`, the futures in
`build_tasks`, `fuzz_tasks` and `trace_tasks`, the queue of parsl's thread pool,
and what every workdir holds on disk. Operations: submit and await the jobs of
the stages build, fuzz, trace/smatch/triage and smatcher; hand out CPU sets
("pipes"); skip work that an earlier run has left. Interaction: the main thread
and the jobs share futures; jobs and later runs share the file system. Hard:
jobs that fail while the main thread polls or waits, jobs that hide failures
(`fatal()` exits with 0), jobs that wait for jobs inside a bounded pool, crashes
and restarts at any point. Correct: stages are separated, two fuzzers never
share CPUs, everything ends, a good end means that every workdir has fuzz
output, traces and coverage files, output is never lost.

**Options and planning** (`parse_args()`, `main()` of `pipeline.py`). State: the
argument namespace. Hard: options of zero and below, which `type=int` takes,
integer division, a plan that is adjusted twice. Correct: it is known which
command lines fail and which plans have workers, the CPU ranges exist and are
disjoint, builds do not overcommit the machine, options mean what their help
says.

**Build stage** (`task_build()`; `fuzz.sh build`). State: `target/` of a
harness, shared by the jobs of all its workdirs. Hard: check-then-act and
copying without a lock, jobs that copy over each other, interrupted copies.
Correct: fuzzing starts from files without gaps, and of one run.

**fuzz.sh launcher** (`bkc/kafl/fuzz.sh`). State: a workdir (`target/`,
`corpus/`, `stats`, `traces/`). Operations run, cov, smatch, build and some for
manual use. Hard: deletes and refills workdirs, exit codes. Correct: only what
can be deleted is, a later call works on whatever an earlier one has left.

**fast_matcher** (`bkc/coverage/fast_matcher/src/main.rs`). State: a work queue,
a range set behind a lock, threads. Hard: panicking threads, malformed and cut
traces, edges that leave the traced code. Correct: no file is lost or read
twice, a bad file costs no more than itself, the report is one that a single
reader could have come to.

**Coverage cache** (`gen_addr2line.sh`, `strip_addr2line_absolute_path.sh`,
`fuzz.sh smatch`). State: the files derived from a workdir's traces, two of
which are reused whenever they exist. Hard: files exist before they are filled,
killed and failing decoders, traces that grow afterwards. Correct: a file may be
stale or partial, but never holds what was not executed.

**smatch_match** (`smatch_match.py`): picks the lines of the report that are in
`addr2line.lst`. Its trace parser and splice state machine are called by
nothing.

**smatcher** (`bkc/coverage/smatcher`). State: a call's position and sets, and a
database (`--save`, `--load`) that all calls share. Hard: concurrent and killed
calls without a lock, coverage files that are written meanwhile, reports that
differ between workdirs. Correct: nothing is counted that was not executed,
nothing is lost without a cause, whole files are counted.

**Harness setup** (`init_harness.py`, `init_campaign()` and the selection in
`pipeline.main()`, `fuzz.sh build`). State: a campaign directory with four files
per harness. Hard: calls that stop between two files, directories that are set
up twice, one of whose files is a directory that is merged, options that are set
on several levels. Correct: what is scheduled is complete, a stopped call spoils
no more than the harness it was at, a kernel is built with the options of its
harness.

**smatch audit** (`bkc/audit`). State: the report, the filtered and the
annotated list, and their published copies. Hard: audits that are killed and
repeated, also while they copy, verdicts carried over by the first entry that
matches, results without an id. Correct: nothing in scope is missed, the list
with the verdicts vouches for the others, a verdict is founded.

**Stimulus minimizer** (`bkc/coverage/stimulus_minimizer`), **crash summary**
(`summarize.sh`), **guest loader** (`init.sh`, `loader.sh`), **TDVF agent**
(`scripts/build-n-fuzz.sh`, `scripts/agent_config.py`), **statistics**
(`stats.py`), **helpers** (`scripts/*`, `debug/*`), **image generators**,
**CodeQL**, **syzkaller**, **deployment**: see "Not modelled".

How they interact: the scheduler runs the build, the fuzzer, `fuzz.sh cov` and
`smatch`, and `smatcher` as jobs; harness setup makes the directories it
schedules; an audit makes the report that `fuzz.sh build` puts into a workdir's
`target/` and that `smatch_match` and `smatcher` read; the coverage cache turns
traces into the lines that `smatcher` counts. `Pipeline` models these jobs by
what they leave in a workdir, the other modules their inside.

The hazards are listed there as well, each at its line and with the properties
that would catch it.

## Modules

| module | models | proofs in |
|---|---|---|
| `Pipeline` | `run_campaign()`, the pool, the jobs, the workdirs | `PipelineProofs` |
| `Campaign` | the abstract campaign: four stages with barriers | |
| `CampaignRefinement` | the mapping from `Pipeline` to `Campaign` | `CampaignProofs` |
| `CampaignArgs` | `parse_args()`, planning in `main()`, CPU ranges | `CampaignArgsProofs` |
| `BuildTarget` | the inside of `task_build()` | `BuildTargetProofs` |
| `FastMatcher` | queue, threads, trace iterator, range set | `FastMatcherProofs` |
| `SequentialMatcher` | the abstract matcher: one reader, `nproc` attempts | |
| `LineCoverage` | the files `fuzz.sh smatch` derives from the traces of a workdir | |
| `Smatcher` | `smatcher`, on top of `LineCoverage` | `SmatcherProofs` |
| `HarnessSetup` | `init_harness.py`, the selection in `pipeline.py`, kernel options | `HarnessSetupProofs` |
| `SmatchAudit` | `smatch_audit.sh` with the filter and the transfer | `SmatchAuditProofs` |
| `MCPipeline`, `MCFastMatcher`, `MCSmatcher`, `MCHarnessSetup`, `MCSmatchAudit` | instances for TLC | |

**Pipeline.** `pc` is the statement of `run_campaign` the main thread is at and
`idx` its loop variable; `left` is `len(fuzz_queue)`: `fuzz_queue.pop()` takes
the last entry, so the queue always is a prefix of the pipeline. The polling
loop is one step per element of `fuzz_tasks` (`PollFuzz`), because futures
complete while it sweeps. `t.result()` is `Await`: it blocks, and aborts the
campaign if the job has failed. A job is a state of its future plus its effect
on the workdir; the pool starts jobs in submission order on at most `Pipes`
threads. Whether parsl holds back the smatch job until the future among its
arguments is complete, or the job waits for it on a pool thread, depends on the
version of parsl, so `ParslWaits` covers both. A fuzz job has two parts,
`fuzz.sh run` preparing the workdir (`LaunchFuzz`, `RefuseFuzz`) and kAFL
filling it (`KaflWrites`, `FinishFuzz`); a crash can fall between them.
`worker_stats_0` and `stats` are one artefact: a state with only one of them
behaves like a state with neither. `Restart` kills the process with its jobs, or
starts a new one after the end, and keeps only the workdirs. `--refuzz`, which
adds workdirs, changes nothing but `N`.

**CampaignArgs.** `given` is what was typed, `args` the namespace; planning is
two steps, as in `main()`. The options are integers from `-MaxCpu` to `MaxCpu`:
nothing refuses zero or a negative number. `-p 0` divides by zero
(`DivideByZero`) unless `--ncpu` is negative; `-j 0` gives a plan of one pipe
without workers and threads; negative options give plans that no fuzzer can use.
`PlanUsable` says exactly which. `FloorDiv` is Python's `//`, which rounds down
whatever the signs. The number of harnesses is bounded by `MaxHarnesses`.

**BuildTarget.** One process per build job; checking and copying go file by file
in the order of `target_files`, a copy is a truncation (`Truncate`) and a write
(`Write`), each job at an offset of its own. `overlap` says how the copy a job
is writing was disturbed: one that truncated a file others were writing is
"over" them, those it cut are "cut". What is in the file when a job has finished
(`Outcome`) is its copy if it was alone, possibly a mix with another job's if
they overlapped, and possibly a file with a gap if it was cut and the other has
not filled it yet. The mixing is not an error of the model: nothing in
`task_build()` prevents it. So `FilledAtBarrier` promises files without gaps,
and whole copies only if a single job has built.

**FastMatcher.** One process per thread. Reading a file touches no shared state
and is one step, merging holds the lock and is one step. The trace iterator is a
recursive function over the lines of a file, with the panics of the code. The
contents of a file are complete lines plus the way its last line is cut: a file
is malformed at its end only, as a timeout of the program that writes it leaves
it. The debug information is the constant `FuncsAt`. `M` maps the threads to
`SequentialMatcher`: the files in the queue or in the hands of a living thread
are still to be counted, and every living thread is an attempt that is left.

**LineCoverage.** `step` is the statement of `fuzz.sh smatch` a workdir is at,
`file` its four derived files. A file that the shell creates for a redirection
is empty (`Truncate`, `StartMatch`, `StartFast`, `RunGhidra`) until the program
has filled it; a kill in between leaves any part of what was to come, of the
list of addresses too. If there is nothing to list, `ListAddrs` ends the script
and leaves the empty list. `addr_uniq.lst` and `addr2line.lst` are never made
again once they exist. A file with absolute paths matches nothing (`Known`), so
`StripFast` and `Strip` are steps of their own. `spoiled` is a history variable:
the coverage files that are out of date or that a kill or a failure got in the
way of. Making a file again mends it, except for `addr2line.lst`, which is never
made again.

**Smatcher.** One process per call of `smatcher`, which reads the files of
`LineCoverage` while they change. One step reads one input item: its coverage
files and its report. The database is truncated (`Open`) before it is written
(`Dump`); two calls that have it open write over each other from the start of
the file, which may leave either content or none that can be loaded. `due`,
`saved` and `disturbed` are history variables of the properties. `due` collects
what each item has to count: of a workdir the first coverage file that exists,
or with `--combine-cov-files` all of them, and of a single file that file; each
has to hold what was executed unless it is spoiled or being made. The report
that is printed at the end is derived from `covered` and `smatch_set`, changes
nothing, and is not modelled.

**HarnessSetup.** `todo` holds the harnesses left, as places in `HARNESSES`,
`at` the file in hand; `OpenFile` truncates it, `FillFile` writes it. The
sharedir is a directory, and `copytree(dirs_exist_ok=True)` merges into the one
that is there: files of the same name are replaced one by one, the others stay
(`Over`, `Kept`); what `$BKC_ROOT/sharedir` holds may change between two calls
(`Sharedirs`). What a harness needs is checked when its turn comes (`Needs`), so
`Fail` can come after two of its files are written; `Kill` can come anywhere.
`pipeline.py` runs the setup only if there is no campaign directory and then
schedules each directory with a `kafl.yaml` that matches its pattern. Options
are the data: a kernel configuration is a set of settings, and `build_harness`
is what Kconfig makes of the template with the harness options appended.
`spoiled` is a history variable: the harnesses in which a call stopped while an
older or a torn `kafl.yaml` was there. Setting up again is not atomic, so a call
that stops leaves files of two calls, or torn ones, under a `kafl.yaml` that
says otherwise; `OneSpoiledPerCall` bounds the harm by one harness per call.
`--harness all`, which `init_campaign` itself uses for the empty pattern, sets
every harness up, then matches no directory, and the pipeline ends (`pc =
"unmatched"`); `FreshScheduled` says so.

**SmatchAudit.** `Filter` and `Transfer` handle one result per step. The lists
are published file by file, each truncated (`OpenCopy`) and then filled
(`FillCopy`): two `cp` commands, of which the second copies two lists. `torn`
are the files in the output directory that were begun and not finished, `origin`
remembers which audit, and which report, each was made of. A result is a record
of the parts the two scripts look at. The filter recognises paths and duplicates
by the line break in front of a result, which the first one does not have. A
result without an id is in the filtered list but never in the one with the
verdicts (`transfer_results.py:61-62`), and such results are real findings as
well: in the sample output for 6.0-rc2 `mm/util.c:155` is in the filtered list
and missing from the analyzed one. `Verdict` is that of the first analysed entry
that decides. An excluded entry decides on every result of its function, renamed
msr reads aside; that is why an unchanged finding can lose its verdict to an
excluded one above it. It can also lose it to an earlier entry that has its id,
or the same variable in the same line. Carrying the repository's own 5.15 list
over to the very same results turns five verdicts into "excluded"
(`drivers/virtio/virtio_ring.c:476` and `:390`,
`drivers/firmware/qemu_fw_cfg.c:152`, `drivers/pci/pci.c:211` and `:3095`).

## Runs

| run | question | instance |
|---|---|---|
| `faults` | does a good end have its output, traces and coverage files, is output kept across a crash, is the staged campaign implemented? | 2 workdirs, 2 pipes, faults, 2 runs |
| `three` | stages, pipes, deadlock and termination when pipes are scarce | 3 workdirs, 2 pipes, faults, waiting inside the pool |
| `pipes` | **violated**: are pipes exclusive with four workdirs? | 4 workdirs, 2 pipes, no faults |
| `resume` | **violated**: can every aborted campaign be resumed? | 1 workdir, no faults, 2 runs |
| `args` | which plans are usable, and are they sound? | from -9 to 9 CPUs and workers, 5 harnesses |
| `args_threads` | **violated**: does `--threads` do what its help says? | 4 CPUs |
| `matcher` | queue, iterator, panics, the end of the tool, and does it do what one reader would do? | 3 files, 2 threads, 9 contents |
| `matcher_cut` | **violated**: is the readable part of a cut file counted? | 2 files |
| `build` | what do concurrent and interrupted jobs leave in `target/`? | 3 jobs, 4 files, 3 runs |
| `coverage` | what do stale, partial and torn files do to the accumulated coverage and to what a call counts? | 2 workdirs, one of them traced, 2 calls of 2 command lines |
| `setup` | is what gets scheduled complete, new where it should be, and built with its options, and what does a stopped call spoil? | 4 harnesses, 5 command lines, 3 calls |
| `audit` | what does an auditor get, and which verdicts are carried over? | 55 reports of 3 results, 9 analysed entries, 2 audits |

The bounds. Two workdirs are enough for one job to fail while another is queued,
running or done, and two runs for every state of a workdir that a run can leave.
A pipe has to be freed for the first time with three workdirs on two pipes; the
stale entry of `fuzz_tasks` needs a fourth, which is why `three` passes and
`pipes` does not. Options from -9 to 9 contain every relation of `ncpu - 2`,
`workers` and the number of harnesses, and every remainder of the divisions. The
traces of `matcher` leave the traced code once, twice in a row and not at all,
jump backwards, and are cut at a place of each kind in a line. None to three of
three files make one of two threads panic: fewer than, as many as and more than
the threads. Three build jobs are one that writes, one that checks and one that
does either, the third run starts from what a second one could add to the
remains of the first, and four files are one more than there are jobs to leave
gaps in them. In `coverage` one address is not an endpoint and shares no line
with the other, so that decoding the block list and decoding all addresses
differ. One workdir goes through every mode, by `addr2line`, with Ghidra and by
the fast matcher, in any order; the other is built and audited but never traced,
so that its report, which puts the same line into another class, meets coverage
that is not its own. One command line combines the files of workdirs and saves;
the other loads, matches against a given report, and takes a workdir and a
single file without combining; two calls are what it takes to overlap, and a
call that has ended leaves the database to the next one. The four harnesses of
`setup` are one of each kind, their patterns match one kind, two and all, or
none; the shared directory has two versions, one with a file that the other
lacks; a third call meets what a second one could leave in a directory that a
first had set up. The reports of `audit` combine one of five first results with
any of eleven, one for each rule of the two scripts, and a third that is always
the same, so that duplicates occur in the first and in a later place. `MaxRuns`,
`MaxCalls` and `MaxAudits` bound how often programs are started, `Reach` what is
executed; nothing else is capped.

Fairness. The OS schedules the main thread and every pool thread (`WF` on
`Main`, `Start` and the steps of every job), and programs end: kAFL because its
configuration limits the time it fuzzes. `Restart` is not fair. `Report` and
`Join` of the matcher need only that its threads are scheduled; a panicking
thread has ended too. `Settled`, `Terminated`, `Report` and `Campaign` are the
ends of the programs: they stutter, so that TLC reports every other state
without a successor as a deadlock. The runs `coverage`, `setup` and `audit`
check safety only and assume no fairness: their programs may be killed at any
point and nobody has to start them again, so they may stop anywhere
(`CHECK_DEADLOCK FALSE`).

## What the violated runs show

1. `pipes`: `fuzz_tasks` is never pruned, so a task that was done long ago frees
   "its" pipe in every sweep, also while a newer fuzzer runs on it. The pool
   still limits the number of fuzzers to `Pipes`, but two of them are pinned to
   the same CPUs while others idle.
2. `resume`: `fuzz.sh run` deletes only workdirs with a `corpus/`. A run killed
   between the creation of `target/TDVF` and that of the corpus leaves a workdir
   on which `mkdir target/TDVF` fails; every later run aborts there. The header
   of `pipeline.py` admits that aborted runs cannot reasonably be resumed; the
   documentation says they are.
3. `args_threads`: `--threads` is overwritten on both paths.
4. `matcher_cut`: a file cut right behind a comma makes its thread panic instead
   of being read up to the cut.

## Proofs

All theorems are for every value of the constants, under the assumptions next to
their declarations (`ConstantsAssumption`, `ArgsAssumption`,
`MatcherAssumption`, `BuildAssumption`, `LinesAssumption`, `SmatcherAssumption`,
`SetupAssumption`, `AuditAssumption`), which TLC evaluates in every run that
uses them.

- `PipelineProofs`. `StageBarrier` is not inductive: it says nothing of where
  the main thread is. `Control` adds the range of the loop variables (`Cursor`),
  that the pool's queue holds each accepted job once (`Queued`), which jobs are
  still to be submitted at each location (`Unsubmitted`) and which have been
  waited for (`Awaited`). Every pool step has the same effect on them
  (`PoolEffect`), so the proof has one lemma for the pool and one per statement
  of the main thread. `Typing` and `Barriers` follow. `Coverage` needs the
  history of the artefacts besides (`Provenance`): an artefact is found only
  with those it was made from, and the smatcher's success stays justified
  because nothing is removed after it. `FuzzOutputSafe` is an action property
  from the same invariant. `PipesExclusive` fails in general (the run `pipes`),
  so the theorems say where it holds. `FewEntries`: with `N <= Pipes + 1` the
  first sweep frees a pipe only for the last entry. `Dealt` says that until then
  every pipe goes to one entry, that a pipe which is free again belonged to an
  ended fuzzer, and that the sweep is not entered before at most one entry is
  left; the last needs a count (fewer entries than pipes leave a pipe over,
  `SomePipeLeft`). `OnePipe`: the pool then has one thread (`OneRunning`),
  whatever the main thread believes to be free. `NobodyStuck` is about jobs that
  wait inside the pool. A job waits only for a trace job. By `InLine` a smatch
  job is behind its trace job in the queue, and it has a thread only if its
  trace job has had one; so if every running job waited, one of the jobs they
  wait for would be running and not waiting. By `Accepted` the main thread waits
  only for jobs that it has submitted. With both, an unsettled job always leaves
  the pool something to do.
- `CampaignProofs`. Every step of the main thread maps to `Advance`, `Report`,
  `Abort` or a stutter, every pool step to `Complete` of one entry or a stutter,
  `Restart` to `Resume`.
- `CampaignArgsProofs`. `Fits` is what both planning steps establish and
  preserve: `pipes * workers` within the CPUs if there are workers, `pipes *
  threads` within twice the CPUs, workers exactly where both options are
  positive. It has to hold for negative numbers too, where several pipes go with
  no CPU at all (`Sound`).
- `FastMatcherProofs`. `Outcomes` says why a thread is where it is; with it
  `EachFileOnce` is inductive. `Survivors` counts: dead threads hold different
  panicking files, so if all threads are dead there are at least `nproc` such
  files; otherwise a thread has seen the empty queue. `Sequential` is the
  refinement: `Pull` and `Leave` stutter, `Read` is `Lose` or a stutter, `Merge`
  is `Count`, and `Join` finds the queue empty or no thread alive.
  `TokenForgotten` is about recursive functions over the lines of a trace. They
  are first shown to exist, on the places from k on for ever smaller k
  (`Recursion`, with `Downwards` for inductions from the last line to the
  first); then the iterator, the list of edges and the list of kept addresses
  are each given their equations, and `OneEdge` relates them one edge at a time.

- `BuildTargetProofs`. `FilledFiles` needs that in a first run every file with a
  gap has a job that fills it, one that writes it and has not been cut
  (`Attended`), and that a single job never mixes anything (`OneCopy`).
  `OneRunsOnly` needs why no two runs mix: files are copied in order, so the
  last one comes only after the others (`LastComesLast`), and once it is there
  no job starts to copy any more (`OneRun`); until then what a copying job has
  come to is of this run (`Fresh`). For the number of files with gaps, each of
  them has a job that answers for it and for no other (`Answered`).
- `SmatcherProofs`. `Derived` bounds every file of a workdir from above by what
  was executed, `Decided` bounds the coverage files from below when nothing got
  in their way; with them `DbJustified` and `DueCounted` are inductive, together
  with the sets of the running calls (`Founded`). `Turns` is what `NothingLost`
  rests on: undisturbed savers exclude each other, and each has read what was
  saved before.
- `HarnessSetupProofs`. `Sound` says that a `kafl.yaml` vouches for its
  directory except where the call in progress is at it. It needs what the call
  has written of the harness in hand (`Written`), that nobody else configures
  the harnesses it has still to do (`NotYet`), and, for `AllSetUp` and
  `FreshScheduled`, what is done so far (`DoneSoFar`), that files of this call
  hold what it writes (`Dated`) and that a new campaign holds nothing else
  (`OnlySetUp`). The proof has a lemma for each action; opening and filling a
  file share one (`Writes`). `Configures` is about the options. What a complete
  directory holds is what this module's tables give for its harness, and the
  template is one of the templates (`Filed`); the options of a harness make
  exactly one choice and keep all that is its own (`Chooses`).
- `SmatchAuditProofs`. The lists grow by one entry per step, so the invariant
  counts: `FilteredTo` and `CarriedTo` say how often each result occurs in a
  list made from the first n places, and `Delivered` that each published list
  that is not torn is made of the whole of its own report, whichever audit that
  was. `Copied` and `Latest` say what the audit in progress has copied so far
  and that the list with the verdicts is the last; `Vouching` follows.
  `KeptOnce` takes the least of the places of a result, `FirstVerdict` the least
  of the entries that decide on it. The attempt to prove `VerdictKept` showed
  that it has a third exception besides excluded entries and shared ids: an
  earlier entry of the function about the same variable in the same line decides
  too.

Only model-checked: `Terminates` and `Reports`, because liveness under fairness
is out of the prover's reach, and `OneSpoiledPerCall`, which counts. What could
keep a campaign from terminating without anybody failing is a deadlock, and its
absence is proved (`NobodyStuck`).

Two parts of the model changed because they could not be reasoned about. The
addresses of a trace (`Remaining`) and the audit's lists were filtered sequences
and are now built line by line, as the code does; and the cases of the trace
iterator overlapped in front of a panic, where TLC took the first and TLA+
leaves the choice open.

## Abstractions

Names, paths, messages and log files are left out. What kAFL finds is not
modelled, only which files it has created. A build either succeeds or fails;
what concurrent builds of different harnesses do to the one kernel source tree
they share is up to the kernel's Makefiles. In `Pipeline` a coverage file is
there or not; what may be in it is the subject of `LineCoverage` and `Smatcher`.
The lookup of source lines in the report, after the join in `fast_matcher`, is a
pure function of the set. Options that do not enter the plan (among them two
flags of `type=bool`, which any text turns on) are not in `CampaignArgs`.

In `LineCoverage` an address is decoded to all its lines or, by a decoder that
fails, to some of all lines; the numbers of a trace's edges are left out, what
is read of it is which addresses were executed. A coverage file is read in one
step while another process writes it: what is missing then is the same as after
a kill. In `Smatcher` the printed report (the classes of functions, percentages,
colours) and the query of the smdb database (`--reachability` prints its result)
are left out. In `HarnessSetup` those options are modelled that are set in more
than one place.

## Not modelled

- The rest of `smatch_match.py`: its trace parser, the splice state machine and
  the walk of callers are not called (`smatch_match.py:503`). The variant of
  `gen_addr2line.sh` for a single trace works like the one for a workdir, on one
  file.
- The subcommands of `fuzz.sh` for manual use (debug, single, triage, noise) and
  its target detection choose the arguments of one external program. What
  `triage` leaves is modelled as a job of `Pipeline`.
- The stimulus minimizer: a script for manual use that unpacks traces, tells
  stacks apart by checksums of their text and calls gcovr. Two places where a
  rerun can miss what an interrupted run had begun are among the hazards.
- The crash summary: patterns over logs and an HTML page. Its parallel jobs
  share nothing.
- The guest loader keeps no state: the guest is restored to a snapshot after
  each execution.
- The TDVF agent: the build loop has two rounds and turns on where a linker puts
  a buffer, the configuration comments lines of a header in or out.
- Statistics, image generators, log and corpus helpers: formatting and file
  copies without state. CodeQL, syzkaller, deployment: declarative input of
  external engines. kAFL, QEMU and libxdc are not in the repository.
