---------------------------- MODULE FastMatcher -----------------------------
(***************************************************************************)
(* bkc/coverage/fast_matcher/src/main.rs: threads take trace files from a  *)
(* work queue, derive from each the addresses the kernel executed, and add *)
(* them to a range set behind a lock; the main thread joins them and       *)
(* reports what the set holds.  A thread that panics is gone, with the     *)
(* file it was reading; the main thread does not look at that.             *)
(*                                                                         *)
(* Addresses are small numbers.  A range set is the set of the addresses   *)
(* in its ranges.  The mapping of addresses to functions is a constant.    *)
(***************************************************************************)
EXTENDS Naturals, Sequences, FiniteSets

CONSTANTS
  Files,       (* number of trace files in traces/                         *)
  nproc,       (* number of threads (-p)                                   *)
  MaxAddr,     (* addresses are 0..MaxAddr; PT_TOKEN is above them         *)
  SmatchFuncs, (* the functions that the smatch report names               *)
  FuncsAt,     (* those of them at an address, inlined ones included       *)
  Input        (* the contents a trace file may have: a trace is written   *)
               (* line by line, so that only its end can be malformed      *)

File   == 1..Files
Thread == 1..nproc

PT_TOKEN == MaxAddr + 1
Node == 0..PT_TOKEN

(* A trace file: its complete lines "src,dst", and how it ends.  "short":  *)
(* in a line cut before its comma; "empty": right behind the comma.  A     *)
(* line cut further on reads as an edge with another address.              *)
TraceFile == [lines : Seq(Node \X Node), tail : {"eof", "short", "empty"}]

ASSUME MatcherAssumption ==
  /\ Files \in Nat
  /\ nproc \in Nat \ {0}
  /\ MaxAddr \in Nat
  /\ FuncsAt \in [Node -> SUBSET SmatchFuncs]
  /\ Input \subseteq TraceFile

VARIABLES
  trace,  (* the contents of every file                                    *)
  queue,  (* the work queue                                                *)
  state,  (* what a thread does                                            *)
  file,   (* the file it took last, 0 before the first                     *)
  db,     (* the shared range set                                          *)
  merged, (* history: the files whose ranges are in db                     *)
  main    (* what the main thread does                                     *)

vars == <<trace, queue, state, file, db, merged, main>>
-----------------------------------------------------------------------------
(* Reading a trace.                                                        *)

Nothing == [kind |-> "none"]
Panic   == [kind |-> "panic"]
Some(src, dst, rest) == [kind |-> "some", src |-> src, dst |-> dst, rest |-> rest]

(* Mutant: the line that was joined is read again.                         *)
JoinedAgain(src, following) == Some(src, following.dst, following.rest - 1)

Joined(src, following) == Some(src, following.dst, following.rest)

(* TraceFileIter::next with the reader in front of line i: an edge that    *)
(* leaves the traced code, (src, PT_TOKEN), is joined with the edge that   *)
(* comes back to it, (PT_TOKEN, dst).                                      *)
next(t) ==
  LET n[i \in 1..(Len(t.lines) + 1)] ==
        IF i = Len(t.lines) + 1
        THEN IF t.tail = "empty" THEN Panic ELSE Nothing
        ELSE LET src == t.lines[i][1]
                 dst == t.lines[i][2]
                 following == n[i + 1]
             IN  IF dst # PT_TOKEN \/ following.kind = "none" THEN Some(src, dst, i + 1)
                 ELSE IF following.kind = "panic" \/ following.src # PT_TOKEN THEN Panic
                 ELSE Joined(src, following)
  IN  n

(* The edges a "for edge in ti" sees, and whether it ends in a panic.      *)
Edges(t) ==
  LET read[i \in 1..(Len(t.lines) + 1)] ==
        LET item == next(t)[i] IN
        CASE item.kind = "none"  -> [edges |-> <<>>, panics |-> FALSE]
          [] item.kind = "panic" -> [edges |-> <<>>, panics |-> TRUE]
          [] OTHER -> [read[item.rest] EXCEPT !.edges = <<<<item.src, item.dst>>>> \o @]
  IN  read[1]

Panics(t) == Edges(t).panics

(* Everything between the target of an edge and the source of the next is  *)
(* executed if both are in one function of the smatch report.              *)
Ranges(edges) ==
  (UNION {{edges[k][1], edges[k][2]} : k \in 1..Len(edges)}) \cup
  (UNION {edges[k][2] .. edges[k + 1][1] :
            k \in {j \in 1..(Len(edges) - 1) :
                     FuncsAt[edges[j][2]] \cap FuncsAt[edges[j + 1][1]] # {}}})

(* read_trace_file_get_ranges                                              *)
Covered(t) == Ranges(Edges(t).edges)
-----------------------------------------------------------------------------
(* populate_wq pushes all files before the first thread is spawned.        *)
Init ==
  /\ trace \in [File -> Input]
  /\ queue = [i \in File |-> i]
  /\ state = [t \in Thread |-> "pulling"]
  /\ file = [t \in Thread |-> 0]
  /\ db = {}
  /\ merged = {}
  /\ main = "joining"

(* Mutant: a thread looks at the head of the queue and leaves it there.    *)
PullWithoutPop(t) ==
  /\ state[t] = "pulling" /\ queue # <<>>
  /\ file' = [file EXCEPT ![t] = Head(queue)]
  /\ state' = [state EXCEPT ![t] = "reading"]
  /\ UNCHANGED <<trace, queue, db, merged, main>>

(* Mutant: files are numbered by a counter that runs past the last one.    *)
PullByCounter(t) ==
  /\ state[t] = "pulling"
  /\ file' = [file EXCEPT ![t] = Files + 1 - Len(queue)]
  /\ queue' = IF queue = <<>> THEN queue ELSE Tail(queue)
  /\ state' = [state EXCEPT ![t] = "reading"]
  /\ UNCHANGED <<trace, db, merged, main>>

Pull(t) ==
  /\ state[t] = "pulling"
  /\ queue # <<>>
  /\ file' = [file EXCEPT ![t] = Head(queue)]
  /\ queue' = Tail(queue)
  /\ state' = [state EXCEPT ![t] = "reading"]
  /\ UNCHANGED <<trace, db, merged, main>>

(* pull_work() returns None: the thread's closure returns.                 *)
Leave(t) ==
  /\ state[t] = "pulling"
  /\ queue = <<>>
  /\ state' = [state EXCEPT ![t] = "ended"]
  /\ UNCHANGED <<trace, queue, file, db, merged, main>>

(* The file is read without touching shared state.                         *)
Read(t) ==
  /\ state[t] = "reading"
  /\ state' = [state EXCEPT ![t] = IF Panics(trace[file[t]]) THEN "dead" ELSE "merging"]
  /\ UNCHANGED <<trace, queue, file, db, merged, main>>

(* Mutant: the ranges replace what other threads have inserted.            *)
MergeOver(t) ==
  /\ state[t] = "merging"
  /\ db' = Covered(trace[file[t]])
  /\ merged' = merged \cup {file[t]}
  /\ state' = [state EXCEPT ![t] = "pulling"]
  /\ UNCHANGED <<trace, queue, file, main>>

(* All ranges of the file are inserted under one write lock.               *)
Merge(t) ==
  /\ state[t] = "merging"
  /\ db' = db \cup Covered(trace[file[t]])
  /\ merged' = merged \cup {file[t]}
  /\ state' = [state EXCEPT ![t] = "pulling"]
  /\ UNCHANGED <<trace, queue, file, main>>

(* Mutant: the main thread goes on when the first thread is done.          *)
JoinFirst ==
  /\ main = "joining"
  /\ \E t \in Thread : state[t] \in {"ended", "dead"}
  /\ main' = "reporting"
  /\ UNCHANGED <<trace, queue, state, file, db, merged>>

(* Mutant: t.join().unwrap(), which a panicked thread never gets past.     *)
JoinUnwrap ==
  /\ main = "joining"
  /\ \A t \in Thread : state[t] = "ended"
  /\ main' = "reporting"
  /\ UNCHANGED <<trace, queue, state, file, db, merged>>

(* for t in threads { t.join().ok(); }: a dead thread is joined as well.   *)
Join ==
  /\ main = "joining"
  /\ \A t \in Thread : state[t] \in {"ended", "dead"}
  /\ main' = "reporting"
  /\ UNCHANGED <<trace, queue, state, file, db, merged>>

Report == main = "reporting" /\ UNCHANGED vars

Step(t) == Pull(t) \/ Leave(t) \/ Read(t) \/ Merge(t)

Next == (\E t \in Thread : Step(t)) \/ Join \/ Report

(* The OS runs every thread.                                               *)
Fairness == WF_vars(Join) /\ \A t \in Thread : WF_vars(Step(t))

Spec == Init /\ [][Next]_vars /\ Fairness
-----------------------------------------------------------------------------
(* Types of the state.                                                     *)
TypeOK ==
  /\ trace \in [File -> Input]
  /\ queue \in Seq(File)
  /\ state \in [Thread -> {"pulling", "reading", "merging", "ended", "dead"}]
  /\ file \in [Thread -> File \cup {0}]
  /\ merged \subseteq File
  /\ main \in {"joining", "reporting"}

Queued == {queue[i] : i \in DOMAIN queue}
Holding(t) == state[t] \in {"reading", "merging", "dead"}

(* No file is read twice and none disappears: every file is in exactly one *)
(* place, in the queue, with one thread (perhaps a dead one), or in db.    *)
EachFileOnce ==
  /\ \A i, j \in DOMAIN queue : i # j => queue[i] # queue[j]
  /\ Queued \cap merged = {}
  /\ \A t \in Thread : Holding(t) => file[t] \notin Queued \cup merged
  /\ \A t, u \in Thread : t # u /\ Holding(t) /\ Holding(u) => file[t] # file[u]
  /\ File = Queued \cup merged \cup {file[t] : t \in {u \in Thread : Holding(u)}}

(* Files that make their thread panic cost only themselves, as long as     *)
(* they are fewer than the threads: all others are in the report.          *)
Survivors ==
  main = "reporting" /\ Cardinality({f \in File : Panics(trace[f])}) < nproc
    => merged = {f \in File : ~ Panics(trace[f])}

(* Joining the edges at PT_TOKEN means to forget PT_TOKEN: for a trace     *)
(* that was written to its end and returns from everywhere it leaves to,   *)
(* the edges are the remaining addresses taken in pairs.                   *)
Known(a) == a # PT_TOKEN
Kept(a) == IF Known(a) THEN <<a>> ELSE <<>>
Remaining(t) ==
  LET r[i \in 1..(Len(t.lines) + 1)] ==
        IF i = Len(t.lines) + 1 THEN <<>>
        ELSE Kept(t.lines[i][1]) \o Kept(t.lines[i][2]) \o r[i + 1]
  IN  r
Paired(a) == [k \in 1..(Len(a) \div 2) |-> <<a[2*k - 1], a[2*k]>>]
Returns(t) ==
  LET last == Len(t.lines)
  IN  /\ t.tail = "eof"
      /\ last > 0 => Known(t.lines[1][1]) /\ Known(t.lines[last][2])
      /\ \A i \in 1..(last - 1) : Known(t.lines[i][2]) <=> Known(t.lines[i + 1][1])
JoinedAtToken ==
  \A f \in File : Returns(trace[f]) =>
    Edges(trace[f]) = [edges |-> Paired(Remaining(trace[f])[1]), panics |-> FALSE]

(* The threads together do what one reader would do: each file is counted  *)
(* at once, in some order, a panic costs one thread, and the report waits  *)
(* for all files unless all threads are gone.                              *)
Rest == Queued \cup {file[t] : t \in {u \in Thread : state[u] \in {"reading", "merging"}}}
Alive == {t \in Thread : state[t] # "dead"}
M == INSTANCE SequentialMatcher WITH rest <- Rest, attempts <- Cardinality(Alive),
       total <- db, reported <- main = "reporting"
ImplementsSequential == M!Spec

(* The tool always comes to its report, whichever threads panic.           *)
Reports == <>(main = "reporting")

(* "ptdump timeout may lead to partly written files..": what was written   *)
(* completely is counted all the same.                                     *)
PartlyWrittenCounted ==
  main = "reporting" =>
    \A f \in File : Covered([trace[f] EXCEPT !.tail = "eof"]) \subseteq db
=============================================================================
