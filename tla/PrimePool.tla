------------------------------ MODULE PrimePool ------------------------------
(***************************************************************************)
(* What primer_1_pool.c and primer_1_pool_cond.c share: main hands the     *)
(* numbers MIN..MAX one by one to worker threads through the variable `num`*)
(* (0: empty, -1: no more work), and each worker tests what it takes.  The *)
(* two programs differ in how a thread waits for the slot.                 *)
(***************************************************************************)
EXTENDS Integers, FiniteSets

CONSTANTS
  MIN, MAX,      \* the numbers to test
  Workers,       \* the THRNUM worker threads
  Main           \* the main thread

ASSUME PrimeAssumption ==
  /\ MIN \in Nat /\ MIN > 1      \* 0 and -1 are reserved
  /\ MAX \in Nat /\ MIN <= MAX
  /\ Workers # {}
  /\ IsFiniteSet(Workers)
  /\ Main \notin Workers

Numbers == MIN .. MAX
Empty == 0
NoMore == -1
Threads == Workers \cup {Main}

VARIABLES
  num,        \* the shared slot
  mainPC,     \* "put": the for loop; "end": after it; "join"; "destroyed"
  next,       \* main's i
  workerPC,   \* "take": before the test; "test": owns a number; "exited"
  job,        \* the worker's i
  printed     \* numbers printed as prime

poolVars == <<num, mainPC, next, workerPC, job, printed>>

PoolInit ==
  /\ num = Empty
  /\ mainPC = "put"
  /\ next = MIN
  /\ workerPC = [w \in Workers |-> "take"]
  /\ job = [w \in Workers |-> Empty]
  /\ printed = {}

\* primer_flag after the trial divisions.
primer_flag(n) == \A j \in 2 .. n \div 2 : n % j # 0

\* The test runs outside the lock, on the worker's own copy.
TestNumber(w) ==
  /\ workerPC[w] = "test"
  /\ printed' = IF primer_flag(job[w]) THEN printed \cup {job[w]} ELSE printed
  /\ job' = [job EXCEPT ![w] = Empty]
  /\ workerPC' = [workerPC EXCEPT ![w] = "take"]
  /\ UNCHANGED <<num, mainPC, next>>

\* The joins, then the destruction of the mutex.
JoinWorkers ==
  /\ mainPC = "join"
  /\ \A w \in Workers : workerPC[w] = "exited"
  /\ mainPC' = "destroyed"
  /\ UNCHANGED <<num, next, workerPC, job, printed>>

-----------------------------------------------------------------------------
\* Numbers no worker has taken, and numbers whose test is complete.
Todo == {n \in Numbers : n >= next \/ n = num}
Done == {n \in Numbers : n < next /\ n # num /\ \A w \in Workers : job[w] # n}

Work == INSTANCE WorkDistribution WITH
          Items <- Numbers, NoItem <- Empty,
          todo <- Todo, doing <- job, done <- Done

\* No number is lost in the slot, overwritten there, or taken by two workers,
\* whatever wake-ups come and go, and however threads that spin interleave.
Distribution == Work!Spec

\* What "prime" means.
Prime(n) == n > 1 /\ \A j \in 2 .. n - 1 : n % j # 0

\* When main has joined the workers, exactly the primes have been printed: the
\* numbers still in flight when num becomes -1 are not lost.
AllPrimesPrinted ==
  mainPC = "destroyed" => printed = {n \in Numbers : Prime(n)}

\* The program ends, also under spurious wake-ups, and spinning ends.
Termination == <>(mainPC = "destroyed")
=============================================================================
