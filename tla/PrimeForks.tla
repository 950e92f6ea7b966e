------------------------------ MODULE PrimeForks ------------------------------
(***************************************************************************)
(* The prime test with a process or a thread for each number (primer1.c    *)
(* and primer2.c of chapter 29, primer_1.c of chapter 31), and with N      *)
(* processes each of which takes every N-th number (primer3.c).            *)
(*                                                                         *)
(* stdout is buffered when it is not a terminal: what is in the buffer of  *)
(* main when it forks is in that of the child as well, and written by both *)
(* when they exit.                                                         *)
(***************************************************************************)
EXTENDS Integers, FiniteSets

CONSTANTS MIN, MAX, N

Numbers == MIN .. MAX

VARIABLES
  version,  \* the program that runs
  tty,      \* stdout is a terminal
  forkPC,   \* main
  started,  \* processes or threads that main has tried to start
  waits,    \* calls of wait or pthread_join that have returned
  worker,   \* [k -> ...]: the k-th of them
  i,        \* [k -> the number it tests next]
  heading,  \* whose buffer holds "Begin!"
  found,    \* [k -> numbers in its buffer]
  begins,   \* times "Begin!" was written
  times     \* [n -> times it was written that n is prime]

forkVars == <<version, tty, forkPC, started, waits, worker, i, heading, found,
              begins, times>>

Threaded == version = "primer_1"

\* How many are started, and the distance of the numbers that one tests.
Count == IF version = "primer3" THEN N ELSE MAX - MIN + 1
Step == IF version = "primer3" THEN N ELSE MAX - MIN + 1

Jobs == 0 .. MAX - MIN + N
Parent == -1

Init ==
  /\ version \in {"primer1", "primer2", "primer3", "primer_1"}
  /\ tty \in BOOLEAN
  /\ forkPC = IF version = "primer1" THEN "begin" ELSE "fork"
  /\ started = 0 /\ waits = 0
  /\ worker = [k \in Jobs |-> "none"]
  /\ i = [k \in Jobs |-> MIN + k]
  /\ heading = {} /\ found = [k \in Jobs |-> {}]
  /\ begins = 0 /\ times = [n \in Numbers |-> 0]

Written(S) == times' = [n \in Numbers |-> IF n \in S THEN times[n] + 1 ELSE times[n]]
Heads(S) == begins' = begins + Cardinality(S)

-----------------------------------------------------------------------------
(* main *)

Begin ==
  /\ forkPC = "begin"
  /\ IF tty THEN Heads({Parent}) /\ UNCHANGED heading
            ELSE heading' = {Parent} /\ UNCHANGED begins
  /\ forkPC' = "flush"
  /\ UNCHANGED <<version, tty, started, waits, worker, i, found, times>>

\* Mutant: fflush(NULL) is forgotten.
FlushNot ==
  /\ forkPC = "flush"
  /\ forkPC' = "fork"
  /\ UNCHANGED <<version, tty, started, waits, worker, i, heading, found, begins, times>>

Flush ==
  /\ forkPC = "flush"
  /\ Heads(heading \cap {Parent})
  /\ heading' = heading \ {Parent}
  /\ forkPC' = "fork"
  /\ UNCHANGED <<version, tty, started, waits, worker, i, found, times>>

\* The child gets a copy of the buffer.
Fork ==
  /\ forkPC = "fork" /\ started < Count
  /\ worker' = [worker EXCEPT ![started] = "testing"]
  /\ heading' = IF Parent \in heading THEN heading \cup {started} ELSE heading
  /\ started' = started + 1
  /\ UNCHANGED <<version, tty, forkPC, waits, i, found, begins, times>>

\* No program handles a fork that fails: primer3 compares the address of the
\* function with 0, which is never less.
ForkFails ==
  /\ ~Threaded
  /\ forkPC = "fork" /\ started < Count
  /\ started' = started + 1
  /\ UNCHANGED <<version, tty, forkPC, waits, worker, i, heading, found, begins, times>>

ForkDone ==
  /\ forkPC = "fork" /\ started = Count
  /\ forkPC' = "wait"
  /\ UNCHANGED <<version, tty, started, waits, worker, i, heading, found, begins, times>>

\* wait takes any child that has exited, pthread_join the next thread.
Wait ==
  /\ forkPC = "wait" /\ waits < Count
  /\ \E k \in Jobs :
       /\ worker[k] = "zombie"
       /\ Threaded => k = waits
       /\ worker' = [worker EXCEPT ![k] = "reaped"]
  /\ waits' = waits + 1
  /\ UNCHANGED <<version, tty, forkPC, started, i, heading, found, begins, times>>

\* wait returns -1 at once when there is no child.
WaitNone ==
  /\ forkPC = "wait" /\ waits < Count
  /\ \A k \in Jobs : worker[k] \notin {"testing", "zombie"}
  /\ waits' = waits + 1
  /\ UNCHANGED <<version, tty, forkPC, started, worker, i, heading, found, begins, times>>

\* The sleep and "End!" of primer1, and exit, which flushes.
MainExit ==
  /\ forkPC = "wait" /\ waits = Count
  /\ Heads(heading \cap {Parent})
  /\ heading' = heading \ {Parent}
  /\ forkPC' = "ended"
  /\ UNCHANGED <<version, tty, started, waits, worker, i, found, times>>

MainSteps ==
  \/ Begin \/ Flush \/ Fork \/ ForkFails \/ ForkDone
  \/ Wait \/ WaitNone \/ MainExit

-----------------------------------------------------------------------------
(* A child, or a thread, which shares the buffer of main. *)

\* primer2 and primer3 test j < i/2.
primer_flag(n) ==
  LET last == IF version \in {"primer2", "primer3"} THEN n \div 2 - 1 ELSE n \div 2
  IN  \A j \in 2 .. last : n % j # 0

Test(k) ==
  /\ worker[k] = "testing" /\ i[k] <= MAX
  /\ i' = [i EXCEPT ![k] = @ + Step]
  /\ LET new == IF primer_flag(i[k]) THEN {i[k]} ELSE {}
     IN  IF tty \/ Threaded
           THEN Written(new) /\ UNCHANGED found
           ELSE found' = [found EXCEPT ![k] = @ \cup new] /\ UNCHANGED times
  /\ UNCHANGED <<version, tty, forkPC, started, waits, worker, heading, begins>>

Exit(k) ==
  /\ worker[k] = "testing" /\ i[k] > MAX
  /\ worker' = [worker EXCEPT ![k] = "zombie"]
  /\ Heads(heading \cap {k}) /\ Written(found[k])
  /\ heading' = heading \ {k}
  /\ found' = [found EXCEPT ![k] = {}]
  /\ UNCHANGED <<version, tty, forkPC, started, waits, i>>

WorkerSteps(k) == Test(k) \/ Exit(k)

Next == MainSteps \/ \E k \in Jobs : WorkerSteps(k)

\* Every process and thread runs.
Spec ==
  /\ Init /\ [][Next]_forkVars
  /\ WF_forkVars(MainSteps)
  /\ \A k \in Jobs : WF_forkVars(WorkerSteps(k))

-----------------------------------------------------------------------------
TypeOK ==
  /\ version \in {"primer1", "primer2", "primer3", "primer_1"}
  /\ tty \in BOOLEAN
  /\ forkPC \in {"begin", "flush", "fork", "wait", "ended"}
  /\ started \in 0 .. Count /\ waits \in 0 .. Count
  /\ worker \in [Jobs -> {"none", "testing", "zombie", "reaped"}]
  /\ i \in [Jobs -> Nat]
  /\ heading \subseteq Jobs \cup {Parent}
  /\ found \in [Jobs -> SUBSET Numbers]
  /\ begins \in Nat /\ times \in [Numbers -> Nat]

Prime(n) == n > 1 /\ \A j \in 2 .. n - 1 : n % j # 0

\* The numbers whose worker could be started.
Tested ==
  {n \in Numbers : \E k \in 0 .. Count - 1 :
     worker[k] # "none" /\ n >= MIN + k /\ (n - MIN - k) % Step = 0}

\* When main ends, no child runs on or is left unwaited for, whichever forks
\* have failed; each prime of those that were started is written once, nothing
\* else is, and "Begin!" once, not by every child again.
ForkedPrimes ==
  forkPC = "ended" =>
    /\ \A k \in Jobs : worker[k] \in {"none", "reaped"}
    /\ \A n \in Numbers : times[n] = IF Prime(n) /\ n \in Tested THEN 1 ELSE 0
    /\ begins = IF version = "primer1" THEN 1 ELSE 0

\* main does not wait for a child that was never started.
ForksEnd == <>(forkPC = "ended")
=============================================================================
