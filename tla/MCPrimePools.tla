---------------------------- MODULE MCPrimePools ----------------------------
(***************************************************************************)
(* The two pools on one instance, and the programs with a process or a     *)
(* thread for each number: the user runs the program that waits on the     *)
(* condition variable ("cond"), the one that spins ("busy") or one of the  *)
(* others ("forks").  The pools share the variables of PrimePool, and with *)
(* them its properties.                                                    *)
(***************************************************************************)
EXTENDS PrimePoolCond

CONSTANTS
  NoOne,
  First, Last,   \* the numbers of the programs that fork
  N              \* the processes of primer3

ASSUME PoolsAssumption == NoOne \notin Threads

\* j < i/2 misses the divisor of 4 only.
ASSUME ForksAssumption ==
  First \in Nat /\ First > 4 /\ Last \in Nat /\ First <= Last /\ N \in Nat \ {0}

VARIABLES
  program, owner,
  version, tty, forkPC, started, waits, worker, i,   \* PrimeForks
  heading, found, begins, times

Busy == INSTANCE PrimePoolBusy

Forks == INSTANCE PrimeForks WITH MIN <- First, MAX <- Last

forkVars == <<version, tty, forkPC, started, waits, worker, i, heading, found,
              begins, times>>
all == <<vars, program, owner, forkVars>>

PoolsInit ==
  /\ program \in {"cond", "busy", "forks"}
  /\ Init /\ Busy!Init /\ Forks!Init
  /\ program # "forks" => version = "primer1" /\ tty

\* A step of the program that runs.
Cond(A) == program = "cond" /\ A /\ UNCHANGED <<program, owner, forkVars>>
Spin(A) == program = "busy" /\ A /\ UNCHANGED <<program, waitSet, forkVars>>
Fork(A) == program = "forks" /\ A /\ UNCHANGED <<program, vars, owner>>

PoolsNext == Cond(Next) \/ Spin(Busy!Next) \/ Fork(Forks!Next)

\* The fairness of all programs.
PoolsSpec ==
  /\ PoolsInit /\ [][PoolsNext]_all
  /\ WF_all(Cond(MainStep)) /\ WF_all(Spin(Busy!MainRuns))
  /\ \A w \in Workers : WF_all(Cond(Worker(w))) /\ WF_all(Spin(Busy!WorkerRuns(w)))
  /\ \A t \in Threads : SF_all(Spin(Busy!Lock(t)))
  /\ WF_all(Fork(Forks!MainSteps))
  /\ \A k \in Forks!Jobs : WF_all(Fork(Forks!WorkerSteps(k)))

-----------------------------------------------------------------------------
\* The types of all programs.
PoolsTypeOK == TypeOK /\ Forks!TypeOK

\* In neither pool all threads wait for each other: in their wait set, or for the
\* mutex and the slot.
PoolsNeverStall ==
  IF program = "busy" THEN Busy!NeverStalled ELSE NeverStalled

\* PrimeForks: each prime is written once, whichever forks fail, and main leaves
\* no child behind.
ForkedPrimes == Forks!ForkedPrimes

\* Every program ends: the pools also under spurious wake-ups and spinning, the
\* others also when main waits for children that were never started.
AllEnd ==
  /\ program # "forks" => Termination
  /\ program = "forks" => Forks!ForksEnd
=============================================================================
