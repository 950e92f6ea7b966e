-------------------------- MODULE PrimePoolsProofs --------------------------
(***************************************************************************)
(* Proofs about the programs of MCPrimePools, for every range of numbers   *)
(* and every number of workers: the pool with a condition variable, then   *)
(* the pool that spins, whose steps are steps of the first one, and the    *)
(* programs with a process or a thread for each number.                    *)
(***************************************************************************)
EXTENDS MCPrimePools, FiniteSetTheorems, TLAPS

\* The two reserved values are no numbers.
LEMMA Reserved == Empty \notin Numbers /\ NoMore \notin Numbers /\ Empty # NoMore
BY PrimeAssumption DEF Numbers, Empty, NoMore

-----------------------------------------------------------------------------
(* The inductive invariant. *)

\* A worker's copy: present exactly while it tests, never shared, and never
\* still in the slot.
Copies ==
  /\ \A w \in Workers : workerPC[w] = "test" <=> job[w] # Empty
  /\ \A v, w \in Workers : job[v] = job[w] /\ job[v] # Empty => v = w
  /\ \A w \in Workers : job[w] # Empty => job[w] < next /\ job[w] # num
  /\ num \in Numbers => num < next

\* main's progress, and what it allows the workers.
Phases ==
  /\ mainPC = "put" <=> next \in Numbers
  /\ num = NoMore <=> mainPC \in {"join", "destroyed"}
  /\ \A w \in Workers : workerPC[w] = "exited" => num = NoMore
  /\ mainPC = "destroyed" => \A w \in Workers : workerPC[w] = "exited"

\* Who may sleep: main only while the slot is full, not all workers then, and
\* nobody after the end.
Sleepers ==
  /\ num = Empty => Main \notin waitSet
  /\ num \in Numbers => \E w \in Workers : w \notin waitSet
  /\ num = NoMore => waitSet = {}

\* What has been printed is the outcome of the tests that are complete.
Results == \A n \in Numbers : n \in printed <=> n \in Done /\ primer_flag(n)

PrimeInv == TypeOK /\ Copies /\ Phases /\ Sleepers /\ Results

-----------------------------------------------------------------------------
(* How each step moves the numbers. *)

\* Filling the slot, and closing it, moves no number.
LEMMA MainMovesNothing ==
  ASSUME TypeOK, Copies, Phases, Put \/ End
  PROVE  UNCHANGED <<Todo, job, Done>>
<1>. USE Reserved
<1>1. next \in Int /\ \A n \in Numbers : n \in Int
  BY PrimeAssumption DEF TypeOK, Numbers
<1>2. CASE Put
  <2>1. UNCHANGED job /\ num = Empty /\ num' = next /\ next' = next + 1
    BY <1>2 DEF Put
  <2>2. \A n \in Numbers : n < next + 1 <=> n < next \/ n = next
    BY <1>1
  <2>3. \A n \in Numbers : n >= next + 1 \/ n = next <=> n >= next
    BY <1>1
  <2>4. \A w \in Workers : job[w] \in Numbers => job[w] # next
    BY <1>1 DEF Copies
  <2>5. Todo' = Todo
    BY <2>1, <2>3 DEF Todo
  <2>6. Done' = Done
    BY <2>1, <2>2, <1>1 DEF Done
  <2>. QED
    BY <2>1, <2>5, <2>6
<1>3. CASE End
  BY <1>3 DEF End, Todo, Done
<1>. QED
  BY <1>2, <1>3

\* A worker takes what is in the slot.
LEMMA TakeMoves ==
  ASSUME TypeOK, Copies, NEW w \in Workers, Take(w)
  PROVE  /\ job[w] = Empty
         /\ num \in Todo
         /\ Todo' = Todo \ {num}
         /\ job' = [job EXCEPT ![w] = num]
         /\ Done' = Done
<1>. USE Reserved
<1>1. /\ num \in Numbers /\ num < next /\ job[w] = Empty
      /\ num' = Empty /\ next' = next /\ job' = [job EXCEPT ![w] = num]
  BY DEF Take, TypeOK, Copies
<1>2. next \in Int /\ \A n \in Numbers : n \in Int
  BY PrimeAssumption DEF TypeOK, Numbers
<1>3. Todo' = Todo \ {num}
  BY <1>1, <1>2 DEF Todo
<1>4. Done' = Done
  <2>1. \A n \in Numbers :
          (n # num /\ \A v \in Workers : job[v] # n)
            <=> (n # Empty /\ \A v \in Workers : job'[v] # n)
    BY <1>1 DEF TypeOK
  <2>. QED
    BY <1>1, <2>1 DEF Done
<1>. QED
  BY <1>1, <1>3, <1>4 DEF Todo

\* A worker is finished with its number.
LEMMA TestMoves ==
  ASSUME TypeOK, Copies, NEW w \in Workers, Test(w)
  PROVE  /\ job[w] \in Numbers
         /\ Todo' = Todo
         /\ job' = [job EXCEPT ![w] = Empty]
         /\ Done' = Done \cup {job[w]}
<1>. USE Reserved
<1>1. /\ job[w] \in Numbers /\ job[w] < next /\ job[w] # num
      /\ num' = num /\ next' = next /\ job' = [job EXCEPT ![w] = Empty]
  BY DEF Test, TestNumber, TypeOK, Copies
<1>2. \A n \in Numbers :
        (\A v \in Workers : job'[v] # n)
          <=> (n = job[w] \/ \A v \in Workers : job[v] # n)
  BY <1>1 DEF TypeOK, Copies
<1>3. Done' = Done \cup {job[w]}
  BY <1>1, <1>2 DEF Done
<1>. QED
  BY <1>1, <1>3 DEF Todo

\* The other steps leave num, next and job alone.
OtherStep ==
  \/ MainWait \/ Join \/ SpuriousWakeup
  \/ \E w \in Workers : TakeWait(w) \/ Leave(w)

LEMMA OthersMoveNothing ==
  ASSUME OtherStep
  PROVE  UNCHANGED <<num, next, job, printed>>
BY DEF OtherStep, MainWait, Join, JoinWorkers, SpuriousWakeup, TakeWait, Leave

-----------------------------------------------------------------------------
LEMMA PrimeInit == Init => PrimeInv
<1>. SUFFICES ASSUME Init PROVE PrimeInv
  OBVIOUS
<1>. USE Reserved, PrimeAssumption DEF Init, PoolInit
<1>1. TypeOK /\ next \in Numbers
  BY DEF TypeOK, Numbers
<1>2. Copies /\ Phases /\ Sleepers
  BY <1>1 DEF Copies, Phases, Sleepers
<1>3. Results
  BY DEF Results, Done, Numbers
<1>. QED
  BY <1>1, <1>2, <1>3 DEF PrimeInv

LEMMA PrimeTypes == PrimeInv /\ [Next]_vars => TypeOK'
<1>. SUFFICES ASSUME PrimeInv, [Next]_vars PROVE TypeOK'
  OBVIOUS
<1>. USE Reserved DEF PrimeInv, TypeOK
<1>1. CASE Put
  BY <1>1, PrimeAssumption DEF Put, Signal, Phases, Numbers
<1>2. CASE MainWait \/ End \/ Join
  BY <1>2 DEF MainWait, End, Join, JoinWorkers, Broadcast, Wait, Threads
<1>3. CASE SpuriousWakeup
  BY <1>3 DEF SpuriousWakeup
<1>4. ASSUME NEW w \in Workers, TakeWait(w) \/ Leave(w)
      PROVE  TypeOK'
  BY <1>4 DEF TakeWait, Leave, Wait, Threads
<1>5. ASSUME NEW w \in Workers, Take(w)
      PROVE  TypeOK'
  BY <1>5 DEF Take, Broadcast
<1>6. ASSUME NEW w \in Workers, Test(w)
      PROVE  TypeOK'
  BY <1>6, TestMoves DEF Test, TestNumber
<1>7. CASE UNCHANGED vars
  BY <1>7 DEF vars
<1>. QED
  BY <1>1, <1>2, <1>3, <1>4, <1>5, <1>6, <1>7 DEF Next, MainStep, Worker

LEMMA PrimeCopies == PrimeInv /\ [Next]_vars => Copies'
<1>. SUFFICES ASSUME PrimeInv, [Next]_vars PROVE Copies'
  OBVIOUS
<1>. USE Reserved DEF PrimeInv, Copies
<1>1. next \in Int /\ \A n \in Numbers : n \in Int
  BY PrimeAssumption DEF TypeOK, Numbers
<1>2. CASE Put
  <2>1. /\ num' = next /\ next' = next + 1
        /\ UNCHANGED <<job, workerPC>>
    BY <1>2 DEF Put
  <2>2. \A w \in Workers : job[w] \in Numbers \cup {Empty}
    BY DEF TypeOK
  <2>. QED
    BY <2>1, <2>2, <1>1
<1>3. CASE End
  <2>1. num' = NoMore /\ UNCHANGED <<next, job, workerPC>>
    BY <1>3 DEF End
  <2>2. \A w \in Workers : job[w] # NoMore
    BY DEF TypeOK
  <2>. QED
    BY <2>1, <2>2
<1>4. CASE MainWait \/ Join \/ SpuriousWakeup
  BY <1>4 DEF MainWait, Join, JoinWorkers, SpuriousWakeup
<1>5. ASSUME NEW w \in Workers, TakeWait(w) \/ Leave(w)
      PROVE  Copies'
  BY <1>5 DEF TakeWait, Leave, TypeOK
<1>6. ASSUME NEW w \in Workers, Take(w)
      PROVE  Copies'
  BY <1>6 DEF Take, TypeOK
<1>7. ASSUME NEW w \in Workers, Test(w)
      PROVE  Copies'
  BY <1>7 DEF Test, TestNumber, TypeOK
<1>8. CASE UNCHANGED vars
  BY <1>8 DEF vars
<1>. QED
  BY <1>2, <1>3, <1>4, <1>5, <1>6, <1>7, <1>8 DEF Next, MainStep, Worker

LEMMA PrimePhases == PrimeInv /\ [Next]_vars => Phases'
<1>. SUFFICES ASSUME PrimeInv, [Next]_vars PROVE Phases'
  OBVIOUS
<1>. USE Reserved DEF PrimeInv, Phases, TypeOK
<1>1. CASE Put
  BY <1>1, PrimeAssumption DEF Put, Numbers
<1>2. CASE MainWait \/ End \/ Join
  BY <1>2 DEF MainWait, End, Join, JoinWorkers
<1>3. CASE SpuriousWakeup
  BY <1>3 DEF SpuriousWakeup
<1>4. ASSUME NEW w \in Workers, Worker(w)
      PROVE  Phases'
  BY <1>4 DEF Worker, TakeWait, Leave, Take, Test, TestNumber
<1>5. CASE UNCHANGED vars
  BY <1>5 DEF vars
<1>. QED
  BY <1>1, <1>2, <1>3, <1>4, <1>5 DEF Next, MainStep

LEMMA PrimeSleepers == PrimeInv /\ [Next]_vars => Sleepers'
<1>. SUFFICES ASSUME PrimeInv, [Next]_vars PROVE Sleepers'
  OBVIOUS
<1>. USE Reserved, PrimeAssumption DEF PrimeInv, Sleepers, TypeOK
<1>1. CASE Put
  <2>1. waitSet \subseteq Workers /\ num' \in Numbers
    BY <1>1 DEF Put, Threads, Phases
  <2>2. \E w \in Workers : w \notin waitSet'
    BY <2>1, <1>1 DEF Put, Signal
  <2>. QED
    BY <2>1, <2>2
<1>2. CASE MainWait \/ End \/ Join
  BY <1>2 DEF MainWait, End, Join, JoinWorkers, Wait, Broadcast, Phases
<1>3. CASE SpuriousWakeup
  BY <1>3 DEF SpuriousWakeup
<1>4. ASSUME NEW w \in Workers, Worker(w)
      PROVE  Sleepers'
  BY <1>4 DEF Worker, TakeWait, Leave, Take, Test, TestNumber, Wait, Broadcast
<1>5. CASE UNCHANGED vars
  BY <1>5 DEF vars
<1>. QED
  BY <1>1, <1>2, <1>3, <1>4, <1>5 DEF Next, MainStep

LEMMA PrimeResults == PrimeInv /\ [Next]_vars => Results'
<1>. SUFFICES ASSUME PrimeInv, [Next]_vars PROVE Results'
  OBVIOUS
<1>. USE DEF PrimeInv, Results
<1>1. CASE Put \/ End
  <2>1. Done' = Done
    BY <1>1, MainMovesNothing
  <2>. QED
    BY <1>1, <2>1 DEF Put, End
<1>2. CASE OtherStep
  <2>1. Done' = Done
    BY <1>2, OthersMoveNothing DEF Done
  <2>. QED
    BY <1>2, <2>1, OthersMoveNothing
<1>3. ASSUME NEW w \in Workers, Take(w)
      PROVE  Results'
  <2>1. Done' = Done
    BY <1>3, TakeMoves
  <2>. QED
    BY <1>3, <2>1 DEF Take
<1>4. ASSUME NEW w \in Workers, Test(w)
      PROVE  Results'
  <2>1. Done' = Done \cup {job[w]} /\ job[w] \in Numbers
    BY <1>4, TestMoves
  <2>2. printed' =
          IF primer_flag(job[w]) THEN printed \cup {job[w]} ELSE printed
    BY <1>4 DEF Test, TestNumber
  <2>3. \A n \in Numbers : n \in printed' <=> n \in Done' /\ primer_flag(n)
    BY <2>1, <2>2, Zenon
  <2>. QED
    BY <2>3
<1>5. CASE UNCHANGED vars
  BY <1>5 DEF vars, Done
<1>. QED
  BY <1>1, <1>2, <1>3, <1>4, <1>5 DEF Next, MainStep, Worker, OtherStep

THEOREM PrimeInvariant == Spec => []PrimeInv
<1>1. PrimeInv /\ [Next]_vars => PrimeInv'
  BY PrimeTypes, PrimeCopies, PrimePhases, PrimeSleepers, PrimeResults
     DEF PrimeInv
<1>. QED
  BY <1>1, PrimeInit, PTL DEF Spec

\* The type invariant of the shared slot, the wait set and the workers' copies.
THEOREM PrimeTypeCorrect == Spec => []TypeOK
<1>1. PrimeInv => TypeOK
  BY DEF PrimeInv
<1>. QED
  BY <1>1, PrimeInvariant, PTL

\* For any number of workers, main's single signal and the workers' broadcasts
\* leave some thread awake until the program is over.
THEOREM PrimeNeverStalled == Spec => []NeverStalled
<1>1. PrimeInv => NeverStalled
  <2>. SUFFICES ASSUME PrimeInv, mainPC # "destroyed"
                PROVE  \E t \in Threads : Runnable(t)
    BY DEF NeverStalled
  <2>. USE DEF PrimeInv, Runnable, Threads, TypeOK, Phases, Sleepers
  <2>1. CASE num = Empty
    BY <2>1, Reserved
  <2>2. CASE num \in Numbers
    BY <2>2, Reserved, PrimeAssumption
  <2>3. CASE num = NoMore
    <3>1. waitSet = {} /\ mainPC = "join"
      BY <2>3
    <3>2. CASE \A w \in Workers : workerPC[w] = "exited"
      BY <3>1, <3>2
    <3>3. CASE \E w \in Workers : workerPC[w] # "exited"
      BY <3>1, <3>3, PrimeAssumption
    <3>. QED
      BY <3>2, <3>3
  <2>. QED
    BY <2>1, <2>2, <2>3
<1>. QED
  BY <1>1, PrimeInvariant, PTL

-----------------------------------------------------------------------------
\* Trial division up to i/2 decides primality.
LEMMA TrialDivision ==
  ASSUME NEW n \in Nat, n > 1
  PROVE  primer_flag(n) <=> Prime(n)
<1>1. ASSUME NEW j \in (n \div 2) + 1 .. n - 1
      PROVE  n % j # 0
  <2>1. j \in Nat /\ j < n /\ n < 2 * j
    BY <1>1
  <2>2. n % j = n - j
    BY <2>1
  <2>. QED
    BY <2>1, <2>2
<1>2. (2 .. n - 1) \subseteq (2 .. n \div 2) \cup ((n \div 2) + 1 .. n - 1)
  OBVIOUS
<1>3. 2 .. n \div 2 \subseteq 2 .. n - 1
  OBVIOUS
<1>. QED
  BY <1>1, <1>2, <1>3 DEF primer_flag, Prime

\* When the workers have been joined, exactly the primes have been printed.
THEOREM PrimeAllPrinted == Spec => []AllPrimesPrinted
<1>1. PrimeInv => AllPrimesPrinted
  <2>. SUFFICES ASSUME PrimeInv, mainPC = "destroyed"
                PROVE  printed = {n \in Numbers : Prime(n)}
    BY DEF AllPrimesPrinted
  <2>. USE DEF PrimeInv
  <2>1. num = NoMore /\ \A w \in Workers : job[w] = Empty
    BY DEF TypeOK, Phases, Copies
  <2>2. next = MAX + 1
    BY PrimeAssumption DEF TypeOK, Phases, Numbers
  <2>3. Done = Numbers
    BY <2>1, <2>2, Reserved, PrimeAssumption DEF Done, Numbers
  <2>4. \A n \in Numbers : n \in Nat /\ n > 1
    BY PrimeAssumption DEF Numbers
  <2>5. \A n \in Numbers : n \in printed <=> Prime(n)
    BY <2>3, <2>4, TrialDivision DEF Results
  <2>. QED
    BY <2>5 DEF TypeOK
<1>. QED
  BY <1>1, PrimeInvariant, PTL

-----------------------------------------------------------------------------
(* The pool implements WorkDistribution. *)

LEMMA PrimeRefinesInit == Init => Work!Init
<1>. SUFFICES ASSUME Init PROVE Work!Init
  OBVIOUS
<1>. \A n \in Numbers : n >= MIN /\ ~(n < MIN)
  BY PrimeAssumption DEF Numbers
<1>1. Todo = Numbers /\ Done = {}
  BY DEF Init, PoolInit, Todo, Done
<1>. QED
  BY <1>1 DEF Init, PoolInit, Work!Init

LEMMA PrimeRefinesStep == PrimeInv /\ [Next]_vars => [Work!Next]_(Work!vars)
<1>. SUFFICES ASSUME PrimeInv, [Next]_vars PROVE [Work!Next]_(Work!vars)
  OBVIOUS
<1>. USE DEF PrimeInv, Work!vars
<1>1. CASE Put \/ End
  BY <1>1, MainMovesNothing
<1>2. CASE OtherStep \/ UNCHANGED vars
  <2>1. UNCHANGED <<num, next, job>>
    BY <1>2, OthersMoveNothing DEF vars
  <2>. QED
    BY <2>1 DEF Todo, Done
<1>3. ASSUME NEW w \in Workers, Take(w)
      PROVE  Work!Next
  <2>1. Work!Take(w)
    BY <1>3, TakeMoves DEF Work!Take
  <2>. QED
    BY <2>1 DEF Work!Next
<1>4. ASSUME NEW w \in Workers, Test(w)
      PROVE  Work!Next
  <2>1. Work!Finish(w)
    BY <1>4, TestMoves, Reserved DEF Work!Finish
  <2>. QED
    BY <2>1 DEF Work!Next
<1>. QED
  BY <1>1, <1>2, <1>3, <1>4 DEF Next, MainStep, Worker, OtherStep

\* Every number is taken by one worker and tested by it, for any range, any
\* number of workers and any pattern of wake-ups.
THEOREM PrimeDistributes == Spec => Distribution
<1>. QED
  BY PrimeRefinesInit, PrimeRefinesStep, PrimeInvariant, PTL
     DEF Spec, Distribution, Work!Spec

\* No number is in the hands of two workers, to be taken again, or tested twice.
THEOREM PrimeTakenOnce == Spec => []Work!ExactlyOnce
<1>1. Spec => [](Work!TypeOK /\ Work!ExactlyOnce)
  BY PrimeDistributes, Reserved, Work!WorkExactlyOnce DEF Distribution
<1>. QED
  BY <1>1, PTL

-----------------------------------------------------------------------------
(* The pool that spins. *)

\* Who holds the mutex is at the slot.
Held ==
  \/ owner = NoOne
  \/ owner = Main /\ mainPC \in {"put", "end"}
  \/ owner \in Workers /\ workerPC[owner] = "take"

\* A spinning thread does what one does that waits on the condition variable
\* and finds it true at once; for the rest it leaves the pool alone.
LEMMA SpinsLikeCond ==
  ASSUME waitSet = {}, waitSet' = waitSet, Held, Busy!Next
  PROVE  [Next]_vars
<1>. USE PoolsAssumption, PrimeAssumption DEF Threads, Busy!Threads, Busy!Unlock
<1>1. CASE Busy!MainRuns
  <2>1. CASE Busy!MainYield
    BY <2>1 DEF Busy!MainYield, vars
  <2>2. CASE Busy!Put
    BY <2>2 DEF Busy!Put, Put, Signal, Next, MainStep, Busy!Empty, Empty
  <2>3. CASE Busy!End
    BY <2>3 DEF Busy!End, End, Broadcast, Next, MainStep, Busy!Empty, Empty,
                Busy!NoMore, NoMore
  <2>4. CASE Busy!Join
    BY <2>4 DEF Busy!Join, Busy!JoinWorkers, Join, JoinWorkers, Next, MainStep
  <2>. QED
    BY <1>1, <2>1, <2>2, <2>3, <2>4 DEF Busy!MainRuns
<1>2. ASSUME NEW w \in Workers, Busy!WorkerRuns(w)
      PROVE  [Next]_vars
  <2>1. w # Main /\ (owner = w => workerPC[w] = "take")
    BY DEF Held
  <2>2. CASE Busy!WorkerYield(w)
    BY <2>2 DEF Busy!WorkerYield, vars
  <2>3. CASE Busy!Leave(w)
    <3>1. Leave(w)
      BY <2>1, <2>3 DEF Busy!Leave, Leave, Busy!NoMore, NoMore
    <3>. QED
      BY <3>1 DEF Next, Worker
  <2>4. CASE Busy!Take(w)
    <3>1. Take(w)
      BY <2>1, <2>4 DEF Busy!Take, Take, Broadcast, Busy!NoMore, NoMore,
                        Busy!Empty, Empty
    <3>. QED
      BY <3>1 DEF Next, Worker
  <2>5. CASE Busy!Test(w)
    <3>1. Test(w)
      BY <2>5 DEF Busy!Test, Test, Busy!TestNumber, TestNumber, Busy!Empty, Empty,
                  Busy!primer_flag, primer_flag
    <3>. QED
      BY <3>1 DEF Next, Worker
  <2>. QED
    BY <1>2, <2>2, <2>3, <2>4, <2>5 DEF Busy!WorkerRuns
<1>3. ASSUME NEW t \in Threads, Busy!Lock(t)
      PROVE  [Next]_vars
  BY <1>3 DEF Busy!Lock, vars
<1>. QED
  BY <1>1, <1>2, <1>3 DEF Busy!Next

\* Only the thread at the slot takes the mutex, and it leaves the slot in the
\* step that gives the mutex back.
LEMMA SpinKeepsHeld ==
  ASSUME TypeOK, Held, Busy!Next
  PROVE  Held'
<1>. USE PoolsAssumption, PrimeAssumption
     DEF Threads, Busy!Threads, Busy!Unlock, Held, TypeOK
<1>1. CASE Busy!MainRuns
  BY <1>1 DEF Busy!MainRuns, Busy!MainYield, Busy!Put, Busy!End, Busy!Join,
              Busy!JoinWorkers
<1>2. ASSUME NEW w \in Workers, Busy!WorkerRuns(w)
      PROVE  Held'
  <2>1. CASE Busy!WorkerYield(w) \/ Busy!Leave(w) \/ Busy!Take(w)
    BY <2>1 DEF Busy!WorkerYield, Busy!Leave, Busy!Take
  <2>2. CASE Busy!Test(w)
    BY <2>2 DEF Busy!Test, Busy!TestNumber
  <2>. QED
    BY <1>2, <2>1, <2>2 DEF Busy!WorkerRuns
<1>3. ASSUME NEW t \in Threads, Busy!Lock(t)
      PROVE  Held'
  BY <1>3 DEF Busy!Lock, Busy!WantsLock
<1>. QED
  BY <1>1, <1>2, <1>3 DEF Busy!Next

\* Only the pool with the condition variable has sleepers.
PoolsInv ==
  /\ PrimeInv /\ Held
  /\ program # "cond" => waitSet = {}
  /\ program = "cond" => owner = NoOne

LEMMA PoolsStart == PoolsInit => Init /\ PoolsInv
BY PrimeInit DEF PoolsInit, Init, Busy!Init, PoolsInv, Held

\* Each program does steps of the pool, or none.
LEMMA PoolsStep == PoolsInv /\ [PoolsNext]_all => [Next]_vars /\ PoolsInv'
<1>. SUFFICES ASSUME PoolsInv, [PoolsNext]_all
              PROVE  [Next]_vars /\ PoolsInv'
  OBVIOUS
<1>0. ASSUME [Next]_vars PROVE PrimeInv'
  BY <1>0, PrimeTypes, PrimeCopies, PrimePhases, PrimeSleepers, PrimeResults
     DEF PrimeInv, PoolsInv
<1>1. CASE Cond(Next)
  <2>1. [Next]_vars /\ program = "cond" /\ UNCHANGED <<program, owner>>
    BY <1>1 DEF Cond
  <2>. QED
    BY <1>0, <2>1 DEF PoolsInv, Held
<1>2. CASE Spin(Busy!Next)
  <2>1. Busy!Next /\ program = "busy" /\ UNCHANGED <<program, waitSet>>
    BY <1>2 DEF Spin
  <2>2. [Next]_vars
    BY <2>1, SpinsLikeCond DEF PoolsInv
  <2>3. Held'
    BY <2>1, SpinKeepsHeld DEF PoolsInv, PrimeInv
  <2>. QED
    BY <1>0, <2>1, <2>2, <2>3 DEF PoolsInv
<1>3. CASE Fork(Forks!Next) \/ UNCHANGED all
  <2>1. UNCHANGED <<vars, program, owner>>
    BY <1>3 DEF Fork, all
  <2>. QED
    BY <1>0, <2>1 DEF PoolsInv, Held, vars
<1>. QED
  BY <1>1, <1>2, <1>3 DEF PoolsNext

\* The spinning pool implements the one with the condition variable: whatever
\* holds of all behaviours of that one holds of both.
THEOREM PoolsImplementCond == PoolsSpec => Spec
<1>1. PoolsInit => PoolsInv /\ Init
  BY PoolsStart
<1>2. PoolsInv /\ [PoolsNext]_all => PoolsInv' /\ [Next]_vars
  BY PoolsStep
<1>3. PoolsSpec => PoolsInit /\ [][PoolsNext]_all
  BY PTL DEF PoolsSpec
<1>. QED
  BY <1>1, <1>2, <1>3, PTL DEF Spec

-----------------------------------------------------------------------------
(* Dividing. *)

LEMMA Quotient ==
  ASSUME NEW s \in Nat \ {0}, NEW a \in Nat
  PROVE  /\ a \div s \in Nat
         /\ a = s * (a \div s) + (a % s)
         /\ a % s \in 0 .. s - 1
OBVIOUS

LEMMA QuotientIsUnique ==
  ASSUME NEW s \in Nat \ {0}, NEW q \in Nat, NEW r \in 0 .. s - 1
  PROVE  (s * q + r) % s = r
<1>. DEFINE a == s * q + r
<1>1. s * q \in Nat /\ a \in Nat
  OBVIOUS
<1>2. a = s * (a \div s) + (a % s) /\ a \div s \in Nat /\ a % s \in 0 .. s - 1
  BY Quotient, <1>1
<1>3. \A x \in Nat : x > q => s * x >= s * q + s
  OBVIOUS
<1>4. \A x \in Nat : x < q => s * x + s <= s * q
  OBVIOUS
<1>5. a \div s = q
  BY <1>1, <1>2, <1>3, <1>4
<1>. QED
  BY <1>1, <1>2, <1>5

\* After a multiple of s the next one comes s later.
LEMMA NextMultiple ==
  ASSUME NEW s \in Nat \ {0}, NEW a \in Nat, a % s = 0
  PROVE  /\ (a + s) % s = 0
         /\ \A b \in a + 1 .. a + s - 1 : b % s # 0
<1>. DEFINE q == a \div s
<1>1. q \in Nat /\ a = s * q
  BY Quotient
<1>2. (a + s) % s = 0
  <2>1. s * (q + 1) = s * q + s /\ s * q \in Nat
    BY <1>1
  <2>2. a + s = s * (q + 1) + 0
    BY <2>1, <1>1
  <2>3. q + 1 \in Nat /\ 0 \in 0 .. s - 1
    BY <1>1
  <2>4. (s * (q + 1) + 0) % s = 0
    BY <2>3, QuotientIsUnique, Zenon
  <2>. QED
    BY <2>2, <2>4, Zenon
<1>3. ASSUME NEW b \in a + 1 .. a + s - 1 PROVE b % s # 0
  <2>1. b - a \in 0 .. s - 1 /\ b = s * q + (b - a) /\ b - a # 0
    BY <1>1
  <2>. QED
    BY <1>1, <2>1, QuotientIsUnique
<1>. QED
  BY <1>2, <1>3

-----------------------------------------------------------------------------
(* Which numbers a process or a thread of PrimeForks tests. *)

\* n is one of First + k, First + k + s, First + k + 2s, ...
Mine(s, k, n) == n >= First + k /\ (n - First - k) % s = 0

\* From a number of its own, the next one is s away.
LEMMA MineNext ==
  ASSUME NEW s \in Nat \ {0}, NEW k \in Nat, NEW n \in Nat, Mine(s, k, n)
  PROVE  /\ Mine(s, k, n + s)
         /\ \A m \in Nat : Mine(s, k, m) /\ m < n + s => m <= n
<1>. USE ForksAssumption
<1>. DEFINE a == n - First - k
<1>1. a \in Nat /\ a % s = 0
  BY DEF Mine
<1>2. (a + s) % s = 0 /\ \A b \in a + 1 .. a + s - 1 : b % s # 0
  BY <1>1, NextMultiple
<1>3. n + s - First - k = a + s /\ n + s >= First + k
  BY DEF Mine
<1>4. Mine(s, k, n + s)
  BY <1>2, <1>3 DEF Mine
<1>5. ASSUME NEW m \in Nat, Mine(s, k, m), m < n + s, m > n PROVE FALSE
  <2>1. m - First - k \in a + 1 .. a + s - 1
    BY <1>5
  <2>. QED
    BY <2>1, <1>2, <1>5 DEF Mine
<1>. QED
  BY <1>4, <1>5

\* No two of them test the same number.
LEMMA MineAlone ==
  ASSUME NEW s \in Nat \ {0}, NEW k \in 0 .. s - 1, NEW l \in 0 .. s - 1,
         NEW n \in Nat, Mine(s, k, n), Mine(s, l, n)
  PROVE  k = l
<1>. USE ForksAssumption
<1>. DEFINE a == n - First
<1>1. ASSUME NEW j \in 0 .. s - 1, Mine(s, j, n) PROVE a % s = j
  <2>1. a \in Nat /\ a - j \in Nat /\ (a - j) % s = 0
    BY <1>1 DEF Mine
  <2>. DEFINE q == (a - j) \div s
  <2>2. q \in Nat /\ a - j = s * q + ((a - j) % s)
    BY <2>1, Quotient
  <2>3. a = s * q + j
    BY <2>1, <2>2
  <2>. QED
    BY <2>2, <2>3, QuotientIsUnique
<1>. QED
  BY <1>1

\* The divisors j < i/2 of primer2 and primer3 are enough from 5 on.
LEMMA HalfDivision ==
  ASSUME NEW n \in Nat, n > 4
  PROVE  Forks!primer_flag(n) <=> Forks!Prime(n)
<1>. DEFINE h == n \div 2
<1>1. h \in Nat /\ h >= 2 /\ (n = h + h \/ n = h + h + 1)
  OBVIOUS
<1>2. \A j \in h + 1 .. n - 1 : n % j # 0
  <2>. TAKE j \in h + 1 .. n - 1
  <2>1. j \in Nat \ {0} /\ n - j \in 0 .. j - 1 /\ n = j * 1 + (n - j)
    BY <1>1
  <2>2. n % j = n - j
    BY <2>1, QuotientIsUnique
  <2>. QED
    BY <2>2
<1>3. n % h = 0 => n % 2 = 0 /\ 2 \in 2 .. h - 1
  <2>1. CASE n = h + h
    BY <2>1, <1>1
  <2>2. CASE n = h + h + 1
    <3>1. n = h * 2 + 1 /\ 1 \in 0 .. h - 1
      BY <2>2, <1>1
    <3>2. n % h = 1
      BY <3>1, <1>1, QuotientIsUnique
    <3>. QED
      BY <3>2
  <2>. QED
    BY <1>1, <2>1, <2>2
<1>4. 2 .. n - 1 = (2 .. h - 1) \cup {h} \cup (h + 1 .. n - 1)
  BY <1>1
<1>5. (\A j \in 2 .. h - 1 : n % j # 0) <=> (\A j \in 2 .. n - 1 : n % j # 0)
  BY <1>2, <1>3, <1>4
<1>6. (\A j \in 2 .. h : n % j # 0) <=> (\A j \in 2 .. n - 1 : n % j # 0)
  <2>1. 2 .. h = (2 .. h - 1) \cup {h}
    BY <1>1
  <2>. QED
    BY <2>1, <1>5, <1>3
<1>7. Forks!Prime(n) <=> \A j \in 2 .. n - 1 : n % j # 0
  <2>1. n > 1
    OBVIOUS
  <2>. QED
    BY <2>1, Zenon DEF Forks!Prime
<1>8. CASE version \in {"primer2", "primer3"}
  <2>1. Forks!primer_flag(n) <=> \A j \in 2 .. h - 1 : n % j # 0
    BY <1>8, Zenon DEF Forks!primer_flag
  <2>. QED
    BY <1>5, <1>7, <2>1, Zenon
<1>9. CASE version \notin {"primer2", "primer3"}
  <2>1. Forks!primer_flag(n) <=> \A j \in 2 .. h : n % j # 0
    BY <1>9, Zenon DEF Forks!primer_flag
  <2>. QED
    BY <1>6, <1>7, <2>1, Zenon
<1>. QED
  BY <1>8, <1>9

-----------------------------------------------------------------------------
(* The programs with a process or a thread for each number. *)

\* A child buffers what it prints, unless stdout is a terminal; the threads'
\* buffer is that of main.
Buffers == ~tty /\ ~Forks!Threaded

\* The primes that the k-th of them has found so far.
Hits(k) == {n \in Forks!Numbers :
              Mine(Forks!Step, k, n) /\ n < i[k] /\ Forks!primer_flag(n)}

\* Children that were started and are not waited for.
Unreaped == {k \in Forks!Jobs : worker[k] \in {"testing", "zombie"}}

\* main's progress.
Stages ==
  /\ forkPC \in {"begin", "flush"} => version = "primer1" /\ started = 0
  /\ forkPC \in {"begin", "flush", "fork"} => waits = 0
  /\ forkPC \in {"wait", "ended"} => started = Forks!Count
  /\ forkPC = "ended" => waits = Forks!Count

\* The buffer of main is empty when it forks.
BeginOnce ==
  /\ forkPC = "begin" => heading = {} /\ begins = 0
  /\ forkPC = "flush" => \/ heading = {} /\ begins = 1
                         \/ heading = {Forks!Parent} /\ begins = 0
  /\ forkPC \notin {"begin", "flush"} =>
       heading = {} /\ begins = IF version = "primer1" THEN 1 ELSE 0

\* main has waits enough left for the children there are, although each wait
\* that finds none is spent as well.
Waited == Cardinality(Unreaped) <= started - waits

\* A child goes through its own numbers in order, and ends with the last.
Courses == \A k \in Forks!Jobs :
  /\ worker[k] # "none" => k < started
  /\ worker[k] = "none" => i[k] = First + k
  /\ worker[k] \in {"zombie", "reaped"} => i[k] > Last
  /\ Mine(Forks!Step, k, i[k])

\* What was found is in the buffer of who found it or has been written, once.
Outcomes ==
  /\ \A k \in Forks!Jobs :
       found[k] = IF Buffers /\ worker[k] = "testing" THEN Hits(k) ELSE {}
  /\ \A n \in Forks!Numbers :
       times[n] = IF \E k \in 0 .. Forks!Count - 1 : n \in Hits(k) \ found[k]
                    THEN 1 ELSE 0

ForksInv ==
  Forks!TypeOK /\ Stages /\ BeginOnce /\ Waited /\ Courses /\ Outcomes

LEMMA ForksCount == \A S : Forks!Cardinality(S) = Cardinality(S)
BY DEF Forks!Cardinality, Cardinality

\* As many are started as numbers are between one of theirs and the next.
LEMMA ForksKinds ==
  /\ Forks!Step = Forks!Count
  /\ Forks!Count \in Nat \ {0}
  /\ Forks!Count - 1 \in Forks!Jobs
  /\ Forks!Jobs \subseteq Nat
  /\ Forks!Parent \notin Forks!Jobs
  /\ \A k \in 0 .. Forks!Count - 1 : k \in Forks!Jobs
  /\ \A n \in Forks!Numbers : n \in Nat /\ n > 4 /\ n >= First /\ n <= Last
  /\ Forks!Numbers \subseteq Nat
BY ForksAssumption
   DEF Forks!Step, Forks!Count, Forks!Jobs, Forks!Numbers, Forks!Parent

LEMMA UnreapedFinite == IsFiniteSet(Unreaped) /\ Cardinality(Unreaped) \in Nat
<1>1. IsFiniteSet(Forks!Jobs)
  BY FS_Interval, ForksAssumption DEF Forks!Jobs
<1>2. Unreaped \subseteq Forks!Jobs
  BY DEF Unreaped
<1>. QED
  BY <1>1, <1>2, FS_Subset, FS_CardinalityType

LEMMA ForksInit == PoolsInit => ForksInv
<1>. SUFFICES ASSUME Forks!Init PROVE ForksInv
  BY DEF PoolsInit
<1>. USE ForksKinds DEF Forks!Init
<1>1. Forks!TypeOK
  BY ForksAssumption DEF Forks!TypeOK
<1>2. Stages /\ BeginOnce
  BY DEF Stages, BeginOnce
<1>3. Waited
  <2>1. Unreaped = {}
    BY DEF Unreaped
  <2>. QED
    BY <2>1, FS_EmptySet DEF Waited
<1>4. Courses
  <2>1. \A k \in Forks!Jobs : i[k] - First - k = 0
    BY ForksAssumption
  <2>2. 0 % Forks!Count = 0
    <3>1. (Forks!Count * 0 + 0) % Forks!Count = 0
      BY QuotientIsUnique
    <3>. QED
      BY <3>1
  <2>3. \A k \in Forks!Jobs : i[k] = First + k /\ i[k] >= First + k
    BY ForksAssumption
  <2>4. \A k \in Forks!Jobs : Mine(Forks!Step, k, i[k])
    BY <2>1, <2>2, <2>3, Zenon DEF Mine
  <2>. QED
    BY <2>3, <2>4 DEF Courses
<1>5. Outcomes
  <2>1. \A k \in Forks!Jobs, n \in Forks!Numbers :
           ~(n >= First + k /\ n < i[k])
    BY ForksAssumption
  <2>2. \A k \in Forks!Jobs : Hits(k) = {}
    BY <2>1 DEF Hits, Mine
  <2>. QED
    BY <2>2 DEF Outcomes
<1>. QED
  BY <1>1, <1>2, <1>3, <1>4, <1>5 DEF ForksInv

\* At most one process's buffer is written in a step.
LEMMA AtMostOne == ASSUME NEW S, NEW k
                   PROVE  Cardinality({k}) \in Nat /\ Cardinality(S \cap {k}) \in Nat
<1>1. S \cap {k} = {} \/ S \cap {k} = {k}
  OBVIOUS
<1>2. Cardinality({}) = 0 /\ Cardinality({k}) = 1
  BY FS_EmptySet, FS_Singleton
<1>. QED
  BY <1>1, <1>2

LEMMA ForksTypes == ForksInv /\ Forks!Next => Forks!TypeOK'
<1>. SUFFICES ASSUME ForksInv, Forks!Next PROVE Forks!TypeOK'
  OBVIOUS
<1>. USE ForksKinds DEF ForksInv, Forks!TypeOK
<1>1. Forks!Count' = Forks!Count /\ Forks!Step' = Forks!Step
  <2>1. version' = version
    BY DEF Forks!Next, Forks!MainSteps, Forks!WorkerSteps, Forks!Begin,
           Forks!Flush, Forks!Fork, Forks!ForkFails, Forks!ForkDone, Forks!Wait,
           Forks!WaitNone, Forks!MainExit, Forks!Test, Forks!Exit
  <2>. QED
    BY <2>1 DEF Forks!Count, Forks!Step
<1>3. /\ started < Forks!Count => started + 1 \in 0 .. Forks!Count
      /\ waits < Forks!Count => waits + 1 \in 0 .. Forks!Count
  OBVIOUS
<1>4. CASE Forks!Begin \/ Forks!Flush \/ Forks!MainExit
  <2>1. \/ begins' = begins
        \/ begins' = begins + Cardinality({Forks!Parent})
        \/ begins' = begins + Cardinality(heading \cap {Forks!Parent})
    BY <1>4, ForksCount, Zenon
       DEF Forks!Begin, Forks!Flush, Forks!MainExit, Forks!Heads
  <2>2. begins' \in Nat
    <3>1. /\ Cardinality({Forks!Parent}) \in Nat
          /\ Cardinality(heading \cap {Forks!Parent}) \in Nat
      BY AtMostOne
    <3>. QED
      BY <2>1, <3>1
  <2>. QED
    BY <1>1, <1>4, <2>2 DEF Forks!Begin, Forks!Flush, Forks!MainExit
<1>5. CASE Forks!Fork
  <2>1. heading' \subseteq Forks!Jobs \cup {Forks!Parent}
    BY <1>5 DEF Forks!Fork
  <2>. QED
    BY <1>1, <1>3, <1>5, <2>1 DEF Forks!Fork
<1>6. CASE Forks!ForkFails \/ Forks!ForkDone
  BY <1>1, <1>3, <1>6 DEF Forks!ForkFails, Forks!ForkDone
<1>7. CASE Forks!Wait \/ Forks!WaitNone
  BY <1>1, <1>3, <1>7 DEF Forks!Wait, Forks!WaitNone
<1>8. ASSUME NEW k \in Forks!Jobs, Forks!Test(k)
      PROVE  Forks!TypeOK'
  <2>1. i' \in [Forks!Jobs -> Nat]
    BY <1>8 DEF Forks!Test
  <2>2. i[k] \in Forks!Numbers
    <3>1. i[k] >= First + k
      BY DEF Courses, Mine
    <3>. QED
      BY <1>8, <3>1, ForksAssumption DEF Forks!Test, Forks!Numbers
  <2>3. times' \in [Forks!Numbers -> Nat]
    BY <1>8 DEF Forks!Test, Forks!Written
  <2>4. found' \in [Forks!Jobs -> SUBSET Forks!Numbers]
    BY <1>8, <2>2 DEF Forks!Test
  <2>. QED
    BY <1>1, <1>8, <2>1, <2>3, <2>4 DEF Forks!Test
<1>9. ASSUME NEW k \in Forks!Jobs, Forks!Exit(k)
      PROVE  Forks!TypeOK'
  <2>1. Cardinality(heading \cap {k}) \in Nat
    BY AtMostOne
  <2>2. begins' \in Nat
    BY <1>9, <2>1, ForksCount DEF Forks!Exit, Forks!Heads
  <2>3. times' \in [Forks!Numbers -> Nat]
    BY <1>9 DEF Forks!Exit, Forks!Written
  <2>. QED
    BY <1>1, <1>9, <2>2, <2>3 DEF Forks!Exit
<1>. QED
  BY <1>4, <1>5, <1>6, <1>7, <1>8, <1>9
     DEF Forks!Next, Forks!MainSteps, Forks!WorkerSteps

LEMMA ForksStages == ForksInv /\ Forks!Next => Stages' /\ BeginOnce'
<1>. SUFFICES ASSUME ForksInv, Forks!Next PROVE Stages' /\ BeginOnce'
  OBVIOUS
<1>. USE ForksKinds DEF ForksInv, Forks!TypeOK, Stages
<1>1. CASE Forks!Begin \/ Forks!Flush \/ Forks!MainExit
  <2>1. /\ Cardinality({Forks!Parent}) = 1
        /\ heading = {} => Cardinality(heading \cap {Forks!Parent}) = 0
        /\ heading = {Forks!Parent} => Cardinality(heading \cap {Forks!Parent}) = 1
    <3>1. /\ heading = {} => heading \cap {Forks!Parent} = {}
          /\ heading = {Forks!Parent} => heading \cap {Forks!Parent} = {Forks!Parent}
      OBVIOUS
    <3>2. Cardinality({}) = 0 /\ Cardinality({Forks!Parent}) = 1
      BY FS_EmptySet, FS_Singleton
    <3>. QED
      BY <3>1, <3>2, Zenon
  <2>2. /\ \A S : Forks!Heads(S) => begins' = begins + Cardinality(S)
        /\ heading = {Forks!Parent} => heading \ {Forks!Parent} = {}
        /\ heading = {} => heading \ {Forks!Parent} = {}
    BY ForksCount, Zenon DEF Forks!Heads
  <2>3. CASE Forks!Begin
    BY <2>1, <2>2, <2>3 DEF Forks!Begin, BeginOnce
  <2>4. CASE Forks!Flush
    BY <2>1, <2>2, <2>4 DEF Forks!Flush, BeginOnce
  <2>5. CASE Forks!MainExit
    BY <2>1, <2>2, <2>5 DEF Forks!MainExit, BeginOnce, Forks!Count
  <2>. QED
    BY <1>1, <2>3, <2>4, <2>5
<1>2. CASE Forks!Fork \/ Forks!ForkFails \/ Forks!ForkDone
  BY <1>2 DEF Forks!Fork, Forks!ForkFails, Forks!ForkDone, BeginOnce, Forks!Count
<1>3. CASE Forks!Wait \/ Forks!WaitNone
  BY <1>3 DEF Forks!Wait, Forks!WaitNone, BeginOnce, Forks!Count
<1>4. ASSUME NEW k \in Forks!Jobs, Forks!Test(k)
      PROVE  Stages' /\ BeginOnce'
  BY <1>4 DEF Forks!Test, BeginOnce, Forks!Count
<1>5. ASSUME NEW k \in Forks!Jobs, Forks!Exit(k)
      PROVE  Stages' /\ BeginOnce'
  <2>1. worker[k] # "none"
    BY <1>5 DEF Forks!Exit
  <2>2. heading = {} /\ heading' = {} /\ heading \cap {k} = {}
    BY <1>5, <2>1 DEF Forks!Exit, Courses, BeginOnce
  <2>3. begins' = begins
    <3>1. begins' = begins + Cardinality({})
      BY <1>5, <2>2, ForksCount, Zenon DEF Forks!Exit, Forks!Heads
    <3>. QED
      BY <3>1, FS_EmptySet
  <2>. QED
    BY <1>5, <2>2, <2>3 DEF Forks!Exit, BeginOnce, Forks!Count
<1>. QED
  BY <1>1, <1>2, <1>3, <1>4, <1>5
     DEF Forks!Next, Forks!MainSteps, Forks!WorkerSteps

LEMMA ForksWaited == ForksInv /\ Forks!Next => Waited'
<1>. SUFFICES ASSUME ForksInv, Forks!Next PROVE Waited'
  OBVIOUS
<1>. USE ForksKinds, UnreapedFinite DEF ForksInv, Forks!TypeOK, Waited
<1>1. CASE Forks!Fork
  <2>1. Unreaped' = Unreaped \cup {started}
    BY <1>1 DEF Forks!Fork, Unreaped
  <2>2. \/ Cardinality(Unreaped \cup {started}) = Cardinality(Unreaped)
        \/ Cardinality(Unreaped \cup {started}) = Cardinality(Unreaped) + 1
    BY FS_AddElement
  <2>. QED
    BY <1>1, <2>1, <2>2 DEF Forks!Fork
<1>2. CASE Forks!Wait
  <2>1. PICK k \in Forks!Jobs :
          worker[k] = "zombie" /\ worker' = [worker EXCEPT ![k] = "reaped"]
    BY <1>2 DEF Forks!Wait
  <2>2. Unreaped' = Unreaped \ {k} /\ k \in Unreaped
    BY <2>1 DEF Unreaped
  <2>3. Cardinality(Unreaped') = Cardinality(Unreaped) - 1
    BY <2>2, FS_RemoveElement
  <2>. QED
    BY <1>2, <2>3 DEF Forks!Wait
<1>3. CASE Forks!WaitNone
  <2>1. Unreaped = {} /\ Unreaped' = {}
    BY <1>3 DEF Forks!WaitNone, Unreaped
  <2>2. Cardinality(Unreaped') = 0
    BY <2>1, FS_EmptySet
  <2>. QED
    BY <1>3, <2>2 DEF Forks!WaitNone, Stages
<1>4. ASSUME NEW k \in Forks!Jobs, Forks!Exit(k)
      PROVE  Waited'
  <2>1. Unreaped' = Unreaped
    BY <1>4 DEF Forks!Exit, Unreaped
  <2>. QED
    BY <1>4, <2>1 DEF Forks!Exit
<1>5. CASE \/ Forks!Begin \/ Forks!Flush \/ Forks!ForkFails \/ Forks!ForkDone
           \/ Forks!MainExit \/ \E k \in Forks!Jobs : Forks!Test(k)
  <2>1. Unreaped' = Unreaped /\ waits' = waits /\ started' \in {started, started + 1}
    BY <1>5 DEF Unreaped, Forks!Begin, Forks!Flush, Forks!ForkFails,
                Forks!ForkDone, Forks!MainExit, Forks!Test
  <2>. QED
    BY <2>1
<1>. QED
  BY <1>1, <1>2, <1>3, <1>4, <1>5
     DEF Forks!Next, Forks!MainSteps, Forks!WorkerSteps

LEMMA ForksCourses == ForksInv /\ Forks!Next => Courses'
<1>. SUFFICES ASSUME ForksInv, Forks!Next PROVE Courses'
  OBVIOUS
<1>. USE ForksKinds DEF ForksInv, Forks!TypeOK
<1>1. CASE Forks!MainSteps
  <2>1. Forks!Step' = Forks!Step /\ i' = i
    BY <1>1 DEF Forks!MainSteps, Forks!Begin, Forks!Flush, Forks!Fork,
       Forks!ForkFails, Forks!ForkDone, Forks!Wait, Forks!WaitNone,
       Forks!MainExit, Forks!Step
  <2>2. \A k \in Forks!Jobs : Mine(Forks!Step, k, i[k])'
    BY <2>1, Zenon DEF Courses, Mine
  <2>3. CASE Forks!Fork
    BY <2>1, <2>2, <2>3 DEF Forks!Fork, Courses
  <2>4. CASE Forks!Wait
    BY <2>1, <2>2, <2>4 DEF Forks!Wait, Courses
  <2>5. CASE ~(Forks!Fork \/ Forks!Wait)
    <3>1. worker' = worker /\ started' \in {started, started + 1}
      BY <1>1, <2>5 DEF Forks!MainSteps, Forks!Begin, Forks!Flush,
         Forks!ForkFails, Forks!ForkDone, Forks!WaitNone, Forks!MainExit
    <3>. QED
      BY <2>1, <2>2, <3>1 DEF Courses
  <2>. QED
    BY <2>3, <2>4, <2>5
<1>2. ASSUME NEW k \in Forks!Jobs, Forks!Test(k)
      PROVE  Courses'
  <2>1. Forks!Step' = Forks!Step /\ UNCHANGED <<worker, started>>
    BY <1>2 DEF Forks!Test, Forks!Step
  <2>2. i' = [i EXCEPT ![k] = i[k] + Forks!Step] /\ worker[k] = "testing"
    BY <1>2 DEF Forks!Test
  <2>3. Mine(Forks!Step, k, i[k] + Forks!Step)
    BY MineNext DEF Courses
  <2>4. \A j \in Forks!Jobs : Mine(Forks!Step, j, i[j])'
    BY <2>1, <2>2, <2>3 DEF Courses, Mine
  <2>. QED
    BY <2>1, <2>2, <2>4 DEF Courses
<1>3. ASSUME NEW k \in Forks!Jobs, Forks!Exit(k)
      PROVE  Courses'
  <2>1. Forks!Step' = Forks!Step /\ i' = i
    BY <1>3 DEF Forks!Exit, Forks!Step
  <2>2. \A j \in Forks!Jobs : Mine(Forks!Step, j, i[j])'
    BY <2>1, Zenon DEF Courses, Mine
  <2>. QED
    BY <1>3, <2>1, <2>2 DEF Forks!Exit, Courses
<1>. QED
  BY <1>1, <1>2, <1>3 DEF Forks!Next, Forks!WorkerSteps

\* What the k-th finds next is new, and nobody else's.
LEMMA NextHit ==
  ASSUME ForksInv, NEW k \in Forks!Jobs, worker[k] = "testing"
  PROVE  /\ k \in 0 .. Forks!Count - 1
         /\ \A n \in Forks!Numbers, l \in 0 .. Forks!Count - 1 :
              n \in Hits(l) /\ Mine(Forks!Step, k, n) => l = k
         /\ i[k] \notin Hits(k)
<1>. USE ForksKinds DEF ForksInv, Forks!TypeOK
<1>1. k \in 0 .. Forks!Count - 1
  BY DEF Courses
<1>2. ASSUME NEW n \in Forks!Numbers, NEW l \in 0 .. Forks!Count - 1,
             n \in Hits(l), Mine(Forks!Step, k, n)
      PROVE  l = k
  <2>1. Mine(Forks!Step, l, n)
    BY <1>2 DEF Hits
  <2>. QED
    BY <1>1, <1>2, <2>1, MineAlone
<1>3. i[k] \notin Hits(k)
  BY DEF Hits
<1>. QED
  BY <1>1, <1>2, <1>3

\* A test goes on to the next number, and keeps what it found.
LEMMA TestFinds ==
  ASSUME ForksInv, NEW k \in Forks!Jobs, Forks!Test(k)
  PROVE  \E new \in SUBSET Forks!Numbers :
           /\ new = IF Forks!primer_flag(i[k]) THEN {i[k]} ELSE {}
           /\ \A l \in Forks!Jobs :
                Hits(l)' = IF l = k THEN Hits(l) \cup new ELSE Hits(l)
           /\ \A n \in new, l \in 0 .. Forks!Count - 1 : n \notin Hits(l)
           /\ IF Buffers
                THEN /\ found' = [found EXCEPT ![k] = @ \cup new]
                     /\ UNCHANGED times
                ELSE Forks!Written(new) /\ UNCHANGED found
<1>. USE ForksKinds DEF ForksInv, Forks!TypeOK
<1>. DEFINE new == IF Forks!primer_flag(i[k]) THEN {i[k]} ELSE {}
<1>1. /\ worker[k] = "testing" /\ i[k] <= Last
      /\ i' = [i EXCEPT ![k] = i[k] + Forks!Step]
      /\ UNCHANGED <<version, tty>>
  BY DEF Forks!Test
<1>2. Mine(Forks!Step, k, i[k]) /\ i[k] \in Forks!Numbers
  <2>1. Mine(Forks!Step, k, i[k])
    BY DEF Courses
  <2>. QED
    BY <1>1, <2>1, ForksAssumption DEF Mine, Forks!Numbers
<1>3. Forks!Step' = Forks!Step /\ \A n : Forks!primer_flag(n)' <=> Forks!primer_flag(n)
  BY <1>1 DEF Forks!Step, Forks!primer_flag
<1>4. ASSUME NEW l \in Forks!Jobs
      PROVE  Hits(l)' = IF l = k THEN Hits(l) \cup new ELSE Hits(l)
  <2>0. Hits(l)' = {n \in Forks!Numbers : Mine(Forks!Step, l, n) /\ n < i'[l]
                                            /\ Forks!primer_flag(n)}
    BY <1>3 DEF Hits, Mine
  <2>1. CASE l # k
    <3>1. i'[l] = i[l]
      BY <1>1, <2>1
    <3>. QED
      BY <2>0, <2>1, <3>1 DEF Hits
  <2>2. CASE l = k
    <3>1. i'[k] = i[k] + Forks!Step
      BY <1>1
    <3>2. ASSUME NEW n \in Forks!Numbers, Mine(Forks!Step, k, n)
          PROVE  n < i'[k] <=> n < i[k] \/ n = i[k]
      <4>1. n < i[k] + Forks!Step => n <= i[k]
        BY <1>2, <3>2, MineNext
      <4>. QED
        BY <3>1, <4>1
    <3>3. \A n \in Forks!Numbers :
            n \in Hits(l)' <=> n \in Hits(l) \/ (n = i[k] /\ Forks!primer_flag(n))
      BY <1>2, <2>0, <2>2, <3>2, Zenon DEF Hits
    <3>. HIDE DEF new
    <3>4. \A n : n \in new <=> n = i[k] /\ Forks!primer_flag(n)
      BY DEF new
    <3>5. \A n : n \in new => n \in Forks!Numbers
      BY <1>2, <3>4
    <3>6. Hits(l) \subseteq Forks!Numbers /\ Hits(l)' \subseteq Forks!Numbers
      BY <2>0 DEF Hits
    <3>7. \A n : n \in Hits(l)' <=> n \in Hits(l) \cup new
      BY <3>3, <3>4, <3>5, <3>6, Zenon
    <3>8. Hits(l)' = Hits(l) \cup new
      BY <3>7, Zenon
    <3>. QED
      BY <2>2, <3>8, Zenon
  <2>. QED
    BY <2>1, <2>2
<1>5. \A n \in new, l \in 0 .. Forks!Count - 1 : n \notin Hits(l)
  BY <1>1, <1>2, NextHit
<1>6. IF Buffers
        THEN found' = [found EXCEPT ![k] = @ \cup new] /\ UNCHANGED times
        ELSE Forks!Written(new) /\ UNCHANGED found
  BY Zenon DEF Forks!Test, Buffers
<1>7. new \in SUBSET Forks!Numbers
  BY <1>2
<1>. HIDE DEF new
<1>8. new = IF Forks!primer_flag(i[k]) THEN {i[k]} ELSE {}
  BY DEF new
<1>. QED
  BY <1>4, <1>5, <1>6, <1>7, <1>8, Zenon

LEMMA ForksOutcomes == ForksInv /\ Forks!Next => Outcomes'
<1>. SUFFICES ASSUME ForksInv, Forks!Next PROVE Outcomes'
  OBVIOUS
<1>. USE ForksKinds DEF ForksInv, Forks!TypeOK
<1>1. CASE Forks!MainSteps
  <2>1. UNCHANGED <<version, tty, i, found, times>>
    BY <1>1 DEF Forks!MainSteps, Forks!Begin, Forks!Flush, Forks!Fork,
       Forks!ForkFails, Forks!ForkDone, Forks!Wait, Forks!WaitNone, Forks!MainExit
  <2>2. /\ \A k : Hits(k)' = Hits(k)
        /\ Buffers' = Buffers /\ Forks!Count' = Forks!Count
    BY <2>1 DEF Hits, Buffers, Forks!Threaded, Forks!Count, Forks!Step, Mine,
                Forks!primer_flag
  <2>3. \A k \in Forks!Jobs :
          \/ worker'[k] = "testing" <=> worker[k] = "testing"
          \/ worker[k] = "none" /\ worker'[k] = "testing"
    <3>1. CASE Forks!Fork
      <4>1. started \in Forks!Jobs /\ worker[started] = "none"
        BY <3>1 DEF Forks!Fork, Courses
      <4>. QED
        BY <3>1, <4>1 DEF Forks!Fork
    <3>2. CASE Forks!Wait
      BY <3>2 DEF Forks!Wait
    <3>3. CASE ~(Forks!Fork \/ Forks!Wait)
      BY <1>1, <3>3 DEF Forks!MainSteps, Forks!Begin, Forks!Flush,
         Forks!ForkFails, Forks!ForkDone, Forks!WaitNone, Forks!MainExit
    <3>. QED
      BY <3>1, <3>2, <3>3
  <2>4. \A k \in Forks!Jobs : worker[k] = "none" => Hits(k) = {}
    <3>1. \A k \in Forks!Jobs : worker[k] = "none" =>
            \A n \in Forks!Numbers : ~(n >= First + k /\ n < i[k])
      BY ForksAssumption DEF Courses
    <3>. QED
      BY <3>1 DEF Hits, Mine
  <2>5. \A k \in Forks!Jobs :
          found'[k] = IF Buffers' /\ worker'[k] = "testing" THEN Hits(k)' ELSE {}
    BY <2>1, <2>2, <2>3, <2>4, Zenon DEF Outcomes
  <2>6. \A n \in Forks!Numbers :
          times'[n] = IF \E k \in 0 .. Forks!Count' - 1 : n \in Hits(k)' \ found'[k]
                        THEN 1 ELSE 0
    BY <2>1, <2>2, Zenon DEF Outcomes
  <2>. QED
    BY <2>5, <2>6, Zenon DEF Outcomes, Forks!Numbers, Forks!Jobs
<1>2. ASSUME NEW k \in Forks!Jobs, Forks!Test(k)
      PROVE  Outcomes'
  <2>1. PICK new \in SUBSET Forks!Numbers :
          /\ \A l \in Forks!Jobs :
               Hits(l)' = IF l = k THEN Hits(l) \cup new ELSE Hits(l)
          /\ \A n \in new, l \in 0 .. Forks!Count - 1 : n \notin Hits(l)
          /\ IF Buffers
               THEN /\ found' = [found EXCEPT ![k] = @ \cup new]
                    /\ UNCHANGED times
               ELSE Forks!Written(new) /\ UNCHANGED found
    BY <1>2, TestFinds
  <2>2. /\ UNCHANGED <<version, tty, worker>> /\ worker[k] = "testing"
        /\ k \in 0 .. Forks!Count - 1
    BY <1>2, NextHit DEF Forks!Test
  <2>3. Buffers' = Buffers /\ Forks!Count' = Forks!Count
    BY <2>2 DEF Buffers, Forks!Threaded, Forks!Count
  <2>4. CASE Buffers
    <3>1. \A l \in Forks!Jobs :
            found'[l] = IF l = k THEN found[l] \cup new ELSE found[l]
      BY <2>1, <2>4
    <3>2. found[k] = Hits(k)
      BY <2>2, <2>4 DEF Outcomes
    <3>3. \A l \in Forks!Jobs :
            found'[l] = IF worker[l] = "testing" THEN Hits(l)' ELSE {}
      <4>. TAKE l \in Forks!Jobs
      <4>1. CASE l = k
        <5>1. found'[l] = Hits(k) \cup new /\ Hits(l)' = Hits(k) \cup new
          BY <2>1, <3>1, <3>2, <4>1
        <5>. QED
          BY <2>2, <4>1, <5>1, Zenon
      <4>2. CASE l # k
        <5>1. found'[l] = found[l] /\ Hits(l)' = Hits(l)
          BY <2>1, <3>1, <4>2
        <5>. QED
          BY <2>4, <5>1 DEF Outcomes
      <4>. QED
        BY <4>1, <4>2
    <3>4. Hits(k) \ found[k] = {} /\ Hits(k)' \ found'[k] = {}
      BY <2>2, <3>2, <3>3
    <3>5. \A l \in 0 .. Forks!Count - 1 :
            Hits(l)' \ found'[l] = Hits(l) \ found[l]
      BY <2>1, <3>1, <3>4, Zenon
    <3>6. \A n \in Forks!Numbers :
            times'[n] = IF \E l \in 0 .. Forks!Count - 1 : n \in Hits(l)' \ found'[l]
                          THEN 1 ELSE 0
      BY <2>1, <2>4, <3>5, Zenon DEF Outcomes
    <3>. QED
      BY <2>2, <2>3, <2>4, <3>3, <3>6, Zenon DEF Outcomes, Forks!Numbers, Forks!Jobs
  <2>5. CASE ~Buffers
    <3>1. \A l \in Forks!Jobs : found[l] = {} /\ found'[l] = {}
      BY <2>1, <2>5 DEF Outcomes
    <3>2. \A n \in Forks!Numbers :
            times'[n] = IF n \in new THEN times[n] + 1 ELSE times[n]
      BY <2>1, <2>5 DEF Forks!Written
    <3>3. \A n \in new : times[n] = 0
      BY <2>1, Zenon DEF Outcomes
    <3>4. \A n \in Forks!Numbers :
            (\E l \in 0 .. Forks!Count - 1 : n \in Hits(l)' \ found'[l])
              <=> n \in new \/ \E l \in 0 .. Forks!Count - 1 : n \in Hits(l) \ found[l]
      BY <2>1, <2>2, <3>1
    <3>5. ASSUME NEW n \in Forks!Numbers
          PROVE  times'[n] = IF \E l \in 0 .. Forks!Count - 1 : n \in Hits(l)' \ found'[l]
                               THEN 1 ELSE 0
      <4>1. times[n] = IF \E l \in 0 .. Forks!Count - 1 : n \in Hits(l) \ found[l]
                         THEN 1 ELSE 0
        BY DEF Outcomes
      <4>2. CASE n \in new
        <5>1. times'[n] = 1
          BY <3>2, <3>3, <4>2
        <5>. QED
          BY <3>4, <4>2, <5>1, Zenon
      <4>3. CASE n \notin new
        BY <3>2, <3>4, <4>1, <4>3, Zenon
      <4>. QED
        BY <4>2, <4>3
    <3>. QED
      BY <2>3, <2>5, <3>1, <3>5, Zenon DEF Outcomes, Forks!Numbers, Forks!Jobs
  <2>. QED
    BY <2>4, <2>5
<1>3. ASSUME NEW k \in Forks!Jobs, Forks!Exit(k)
      PROVE  Outcomes'
  <2>1. /\ UNCHANGED <<version, tty, i>> /\ worker[k] = "testing"
        /\ worker' = [worker EXCEPT ![k] = "zombie"]
        /\ found' = [found EXCEPT ![k] = {}]
        /\ Forks!Written(found[k])
        /\ k \in 0 .. Forks!Count - 1
    BY <1>3, NextHit DEF Forks!Exit
  <2>2. /\ \A l : Hits(l)' = Hits(l)
        /\ Buffers' = Buffers /\ Forks!Count' = Forks!Count
    BY <2>1 DEF Hits, Buffers, Forks!Threaded, Forks!Count, Forks!Step, Mine,
                Forks!primer_flag
  <2>3. \A l \in Forks!Jobs :
          found'[l] = IF Buffers' /\ worker'[l] = "testing" THEN Hits(l)' ELSE {}
    <3>1. \A l \in Forks!Jobs :
            /\ found'[l] = IF l = k THEN {} ELSE found[l]
            /\ worker'[l] = IF l = k THEN "zombie" ELSE worker[l]
      BY <2>1
    <3>. QED
      BY <2>2, <3>1 DEF Outcomes
  <2>4. found[k] \subseteq Hits(k)
    BY <2>1 DEF Outcomes
  <2>5. ASSUME NEW n \in Forks!Numbers
        PROVE  times'[n] = IF \E l \in 0 .. Forks!Count' - 1 : n \in Hits(l)' \ found'[l]
                             THEN 1 ELSE 0
    <3>1. times[n] = IF \E l \in 0 .. Forks!Count - 1 : n \in Hits(l) \ found[l]
                       THEN 1 ELSE 0
      BY DEF Outcomes
    <3>2. times'[n] = IF n \in found[k] THEN times[n] + 1 ELSE times[n]
      BY <2>1 DEF Forks!Written
    <3>3. \A l \in 0 .. Forks!Count - 1 :
            found'[l] = IF l = k THEN {} ELSE found[l]
      BY <2>1
    <3>4. CASE n \in found[k]
      <4>1. \A l \in 0 .. Forks!Count - 1 : n \in Hits(l) => l = k
        <5>1. Mine(Forks!Step, k, n)
          BY <2>4, <3>4 DEF Hits
        <5>. QED
          BY <2>1, <5>1, NextHit
      <4>2. times'[n] = 1
        BY <3>1, <3>2, <3>4, <4>1
      <4>3. n \in Hits(k)' \ found'[k]
        BY <2>1, <2>2, <2>4, <3>3, <3>4
      <4>. QED
        BY <2>1, <2>2, <4>2, <4>3
    <3>5. CASE n \notin found[k]
      BY <2>2, <3>1, <3>2, <3>3, <3>5
    <3>. QED
      BY <3>4, <3>5
  <2>. QED
    BY <2>3, <2>5, Zenon DEF Outcomes, Forks!Numbers, Forks!Jobs
<1>. QED
  BY <1>1, <1>2, <1>3 DEF Forks!Next, Forks!WorkerSteps

LEMMA ForksStep == ForksInv /\ [PoolsNext]_all => ForksInv'
<1>. SUFFICES ASSUME ForksInv, [PoolsNext]_all PROVE ForksInv'
  OBVIOUS
<1>1. CASE Fork(Forks!Next)
  BY <1>1, ForksTypes, ForksStages, ForksWaited, ForksCourses, ForksOutcomes
     DEF Fork, ForksInv
<1>2. CASE UNCHANGED forkVars
  BY <1>2 DEF forkVars, ForksInv, Forks!TypeOK, Stages, BeginOnce, Waited, Unreaped,
     Courses, Outcomes, Hits, Buffers, Mine, Forks!Threaded, Forks!Count,
     Forks!Step, Forks!primer_flag
<1>. QED
  BY <1>1, <1>2 DEF PoolsNext, Cond, Spin, all

\* When main ends: each wait was spent on a child or on there being none, so that
\* none is left; every child has been through its numbers, and emptied its buffer.
LEMMA ForksEndWell == ForksInv => Forks!ForkedPrimes
<1>. SUFFICES ASSUME ForksInv, forkPC = "ended"
              PROVE  /\ \A k \in Forks!Jobs : worker[k] \in {"none", "reaped"}
                     /\ \A n \in Forks!Numbers :
                          times[n] = IF Forks!Prime(n) /\ n \in Forks!Tested THEN 1 ELSE 0
                     /\ begins = IF version = "primer1" THEN 1 ELSE 0
  BY DEF Forks!ForkedPrimes
<1>. USE ForksKinds DEF ForksInv, Forks!TypeOK
<1>1. \A k \in Forks!Jobs : worker[k] \in {"none", "reaped"}
  <2>1. Cardinality(Unreaped) = 0
    BY UnreapedFinite DEF Waited, Stages
  <2>2. Unreaped = {}
    BY <2>1, UnreapedFinite, FS_EmptySet
  <2>. QED
    BY <2>2 DEF Unreaped
<1>2. ASSUME NEW n \in Forks!Numbers
      PROVE  (\E k \in 0 .. Forks!Count - 1 : n \in Hits(k) \ found[k])
               <=> Forks!Prime(n) /\ n \in Forks!Tested
  <2>1. \A k \in 0 .. Forks!Count - 1 : found[k] = {}
    BY <1>1 DEF Outcomes
  <2>2. \A k \in 0 .. Forks!Count - 1 :
          n < i[k] /\ Mine(Forks!Step, k, n) <=>
            worker[k] # "none" /\ Mine(Forks!Step, k, n)
    <3>. TAKE k \in 0 .. Forks!Count - 1
    <3>1. CASE worker[k] = "none"
      <4>1. ~(n >= First + k /\ n < i[k])
        BY <3>1, ForksAssumption DEF Courses
      <4>. QED
        BY <3>1, <4>1 DEF Mine
    <3>2. CASE worker[k] # "none"
      BY <1>1, <3>2, ForksAssumption DEF Courses
    <3>. QED
      BY <3>1, <3>2
  <2>3. Forks!primer_flag(n) <=> Forks!Prime(n)
    BY HalfDivision
  <2>4. n \in Forks!Tested <=>
          \E k \in 0 .. Forks!Count - 1 : worker[k] # "none" /\ Mine(Forks!Step, k, n)
    BY Zenon DEF Forks!Tested, Mine
  <2>. QED
    BY <2>1, <2>2, <2>3, <2>4, Zenon DEF Hits
<1>3. \A n \in Forks!Numbers :
        times[n] = IF Forks!Prime(n) /\ n \in Forks!Tested THEN 1 ELSE 0
  BY <1>2, Zenon DEF Outcomes
<1>4. begins = IF version = "primer1" THEN 1 ELSE 0
  <2>1. BeginOnce /\ forkPC \notin {"begin", "flush"}
    BY Zenon DEF ForksInv
  <2>. QED
    BY <2>1, Zenon DEF BeginOnce
<1>. QED
  BY <1>1, <1>3, <1>4, Zenon

-----------------------------------------------------------------------------
(* The programs of one run. *)

\* For every range of numbers and every number of workers and of processes.
THEOREM PoolsInvariant == PoolsSpec => [](PoolsInv /\ ForksInv)
<1>1. PoolsInit => PoolsInv /\ ForksInv
  BY PoolsStart, ForksInit
<1>2. PoolsInv /\ ForksInv /\ [PoolsNext]_all => (PoolsInv /\ ForksInv)'
  BY PoolsStep, ForksStep
<1>3. PoolsSpec => PoolsInit /\ [][PoolsNext]_all
  BY PTL DEF PoolsSpec
<1>. QED
  BY <1>1, <1>2, <1>3, PTL

\* The types of the pools and of the programs that fork.
THEOREM PoolsTypeCorrect == PoolsSpec => []PoolsTypeOK
<1>1. PoolsInv /\ ForksInv => PoolsTypeOK
  BY DEF PoolsInv, PrimeInv, ForksInv, PoolsTypeOK
<1>. QED
  BY <1>1, PoolsInvariant, PTL

\* The pool with a condition variable always has a thread awake; the one that spins
\* never has its mutex left locked by a thread that is gone, and always has a thread
\* for which the slot is as it wants it.
THEOREM PoolsNeverStalled == PoolsSpec => []PoolsNeverStall
<1>1. PoolsInv => (program = "busy" => Busy!NeverStalled)
  <2>. SUFFICES ASSUME PoolsInv, program = "busy", mainPC # "destroyed"
                PROVE  /\ owner # NoOne => Busy!WantsLock(owner)
                       /\ \E t \in Busy!Threads : Busy!HasWork(t)
    BY DEF Busy!NeverStalled
  <2>1. PrimeInv /\ Held
    BY DEF PoolsInv
  <2>. USE PrimeAssumption DEF Busy!Threads, Busy!Empty, Empty, Threads
  <2>2. owner # NoOne => Busy!WantsLock(owner)
    BY <2>1 DEF Held, Busy!WantsLock
  <2>3. CASE num = Empty
    <3>1. mainPC \in {"put", "end"}
      BY <2>1, <2>3, Reserved DEF PrimeInv, TypeOK, Phases
    <3>. QED
      BY <2>2, <2>3, <3>1 DEF Busy!HasWork
  <2>4. CASE num # Empty
    <3>1. CASE \A w \in Workers : workerPC[w] = "exited"
      <4>1. mainPC = "join"
        BY <2>1, <3>1 DEF PrimeInv, TypeOK, Phases
      <4>. QED
        BY <2>2, <3>1, <4>1 DEF Busy!HasWork
    <3>2. CASE \E w \in Workers : workerPC[w] # "exited"
      <4>1. PICK w \in Workers : workerPC[w] # "exited"
        BY <3>2
      <4>2. workerPC[w] \in {"take", "test"} /\ w # Main
        BY <2>1, <4>1 DEF PrimeInv, TypeOK
      <4>. QED
        BY <2>2, <2>4, <4>2 DEF Busy!HasWork
    <3>. QED
      BY <3>1, <3>2
  <2>. QED
    BY <2>3, <2>4
<1>2. PoolsInv => PoolsNeverStall \/ ~NeverStalled
  BY <1>1 DEF PoolsNeverStall
<1>3. PoolsSpec => []NeverStalled
  BY PoolsImplementCond, PrimeNeverStalled, PTL
<1>. QED
  BY <1>2, <1>3, PoolsInvariant, PTL

\* Both pools print exactly the primes.
THEOREM PoolsAllPrinted == PoolsSpec => []AllPrimesPrinted
BY PoolsImplementCond, PrimeAllPrinted, PTL

\* Both pools have every number taken by one worker and tested by it.
THEOREM PoolsDistribute == PoolsSpec => Distribution
BY PoolsImplementCond, PrimeDistributes, PTL

\* Each prime is written once by the programs that fork or start threads, and
\* main leaves no child behind, whichever forks fail.
THEOREM PoolsForkedPrimes == PoolsSpec => []ForkedPrimes
<1>1. ForksInv => ForkedPrimes
  BY ForksEndWell DEF ForkedPrimes
<1>. QED
  BY <1>1, PoolsInvariant, PTL
=============================================================================
