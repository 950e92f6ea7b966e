------------------------------- MODULE PrimeSem -------------------------------
(***************************************************************************)
(* mysem/main.c: one thread per number, N of them at a time.  main takes a *)
(* unit of the semaphore before it creates a thread, the thread gives it   *)
(* back when it has tested its number, and main joins them all before it   *)
(* destroys the semaphore.  The semaphore is MySem, used by main alone for *)
(* mysem_sub.                                                              *)
(***************************************************************************)
EXTENDS Integers, FiniteSets

CONSTANTS
  MIN, MAX,      \* the numbers to test, one thread each; MIN is over 1
  N,             \* the semaphore's initial value
  Main           \* the main thread

Numbers == MIN .. MAX

VARIABLES
  value, asleep,  \* the semaphore
  mainPC,         \* "sub", "create", "join", "destroyed"
  next,           \* main's i
  threadPC,       \* "none", "test", "add", "exited"
  printed         \* numbers printed as prime

Sem == INSTANCE MySem WITH
         Threads <- {Main}, MaxUnits <- 1,
         need <- [t \in {Main} |-> IF mainPC = "sub" THEN 1 ELSE 0],
         held <- [t \in {Main} |-> 0]

semVars == <<value, asleep>>
mainVars == <<mainPC, next>>
vars == <<semVars, mainVars, threadPC, printed>>

Init ==
  /\ value = N /\ asleep = {}
  /\ mainPC = "sub" /\ next = MIN
  /\ threadPC = [i \in Numbers |-> "none"]
  /\ printed = {}

-----------------------------------------------------------------------------
SubWaits ==
  /\ mainPC = "sub"
  /\ Sem!SubWaits(Main, 1)
  /\ UNCHANGED <<mainVars, threadPC, printed>>

SubTakes ==
  /\ mainPC = "sub"
  /\ Sem!SubTakes(Main, 1)
  /\ mainPC' = "create"
  /\ UNCHANGED <<next, threadPC, printed>>

SpuriousWakeup ==
  /\ Sem!SpuriousWakeup
  /\ UNCHANGED <<mainVars, threadPC, printed>>

Create ==
  /\ mainPC = "create"
  /\ threadPC' = [threadPC EXCEPT ![next] = "test"]
  /\ next' = IF next = MAX THEN MIN ELSE next + 1
  /\ mainPC' = IF next = MAX THEN "join" ELSE "sub"
  /\ UNCHANGED <<semVars, printed>>

\* Mutant: main goes on when a thread's test is done.
JoinTested ==
  /\ mainPC = "join"
  /\ threadPC[next] \in {"add", "exited"}
  /\ next' = next + 1
  /\ mainPC' = IF next = MAX THEN "destroyed" ELSE "join"
  /\ UNCHANGED <<semVars, threadPC, printed>>

\* The join loop; mysem_destroy after the last one.
Join ==
  /\ mainPC = "join"
  /\ threadPC[next] = "exited"
  /\ next' = next + 1
  /\ mainPC' = IF next = MAX THEN "destroyed" ELSE "join"
  /\ UNCHANGED <<semVars, threadPC, printed>>

\* primer_flag after the trial divisions.
primer_flag(n) == \A j \in 2 .. n \div 2 : n % j # 0

Test(i) ==
  /\ threadPC[i] = "test"
  /\ printed' = IF primer_flag(i) THEN printed \cup {i} ELSE printed
  /\ threadPC' = [threadPC EXCEPT ![i] = "add"]
  /\ UNCHANGED <<semVars, mainVars>>

\* Mutant: a composite number's thread leaves without giving its unit back.
AddForgotten(i) ==
  /\ threadPC[i] = "add"
  /\ IF primer_flag(i) THEN Sem!mysem_add(1) ELSE UNCHANGED semVars
  /\ threadPC' = [threadPC EXCEPT ![i] = "exited"]
  /\ UNCHANGED <<mainVars, printed>>

AddUnit(i) ==
  /\ threadPC[i] = "add"
  /\ Sem!mysem_add(1)
  /\ threadPC' = [threadPC EXCEPT ![i] = "exited"]
  /\ UNCHANGED <<mainVars, printed>>

MainSteps == SubWaits \/ SubTakes \/ Create \/ Join
ThreadSteps(i) == Test(i) \/ AddUnit(i)

Next == MainSteps \/ SpuriousWakeup \/ \E i \in Numbers : ThreadSteps(i)

Spec == Init /\ [][Next]_vars

\* Threads run.
FairSpec ==
  Spec /\ WF_vars(MainSteps) /\ \A i \in Numbers : WF_vars(ThreadSteps(i))

-----------------------------------------------------------------------------
TypeOK ==
  /\ value \in 0 .. N
  /\ asleep \subseteq {Main}
  /\ mainPC \in {"sub", "create", "join", "destroyed"}
  /\ next \in MIN .. MAX + 1
  /\ threadPC \in [Numbers -> {"none", "test", "add", "exited"}]
  /\ printed \subseteq Numbers

\* At most N threads work at a time, and no unit is lost: the units left and
\* those in use are N again at the end.
Working == {i \in Numbers : threadPC[i] \in {"test", "add"}}
Units ==
  value + Cardinality(Working) + (IF mainPC = "create" THEN 1 ELSE 0) = N

\* When main destroys the semaphore no thread can still use it, and exactly the
\* primes have been printed.
Prime(n) == n > 1 /\ \A j \in 2 .. n - 1 : n % j # 0
CleanEnd ==
  mainPC = "destroyed" => /\ Working = {}
                          /\ printed = {n \in Numbers : Prime(n)}

\* main never sleeps through a unit that a thread gives back: the program
\* finishes.
Termination == <>(mainPC = "destroyed")
=============================================================================
