------------------------- MODULE ThreadProgramsProofs -------------------------
(***************************************************************************)
(* Proofs about the thread and server programs of MCThreadPrograms, for any*)
(* number of threads, units, letters, processes and clients: MySem,        *)
(* PrimeSem, Turns, SharedCounter and StampServer.  One program runs at a  *)
(* time, so each has an inductive invariant of its own.                    *)
(***************************************************************************)
EXTENDS MCThreadPrograms, Sequences, FiniteSetTheorems, TLAPS

-----------------------------------------------------------------------------
(* Sets that grow or shrink by one element, which the counting below needs.*)

LEMMA Grows ==
  ASSUME NEW S, NEW x, IsFiniteSet(S), x \notin S, NEW T, T = S \cup {x}
  PROVE  /\ IsFiniteSet(T)
         /\ Cardinality(T) = Cardinality(S) + 1
         /\ Cardinality(S) \in Nat /\ Cardinality(T) \in Nat
BY FS_AddElement, FS_CardinalityType

LEMMA Shrinks ==
  ASSUME NEW S, NEW x, IsFiniteSet(S), x \in S, NEW T, T = S \ {x}
  PROVE  /\ IsFiniteSet(T)
         /\ Cardinality(T) = Cardinality(S) - 1
         /\ Cardinality(S) \in Nat /\ Cardinality(T) \in Nat
BY FS_RemoveElement, FS_CardinalityType

LEMMA Larger ==
  ASSUME NEW S, NEW T, IsFiniteSet(T), S \subseteq T
  PROVE  /\ IsFiniteSet(S) /\ Cardinality(S) <= Cardinality(T)
         /\ Cardinality(S) \in Nat /\ Cardinality(T) \in Nat
BY FS_Subset, FS_CardinalityType

-----------------------------------------------------------------------------
(* MySem: threads that take and give back any number of units.             *)

\* The units lent to threads, one by one.
Lent == {l \in Threads \X Nat : l[2] \in 1 .. held[l[1]]}

\* A thread that asks for units holds none, and is not asleep when it does;
\* the units left and the units lent are those of the beginning.
SemInv ==
  /\ value \in Nat
  /\ asleep \subseteq Threads
  /\ need \in [Threads -> 0 .. MaxUnits]
  /\ held \in [Threads -> 0 .. MaxUnits]
  /\ \A t \in Threads : need[t] = 0 \/ held[t] = 0
  /\ NeverStalled
  /\ IsFiniteSet(Lent) /\ value + Cardinality(Lent) = N

\* The units one thread holds.
LEMMA Slice ==
  ASSUME NEW t, NEW n \in Nat
  PROVE  /\ IsFiniteSet({t} \X (1 .. n))
         /\ Cardinality({t} \X (1 .. n)) = n
<1>1. IsFiniteSet(1 .. n) /\ Cardinality(1 .. n) = n
  BY FS_Interval
<1>2. IsFiniteSet({t}) /\ Cardinality({t}) = 1
  BY FS_Singleton
<1>. QED
  BY <1>1, <1>2, FS_Product

LEMMA SemInit == Init => SemInv
<1>. SUFFICES ASSUME Init PROVE SemInv
  OBVIOUS
<1>1. Lent = {}
  BY DEF Init, Lent
<1>. QED
  BY <1>1, SemAssumption, FS_EmptySet DEF Init, SemInv, NeverStalled

\* What a thread takes is what the semaphore loses.
LEMMA TakeKeepsUnits ==
  ASSUME SemInv, NEW t \in Threads, Take(t)
  PROVE  /\ IsFiniteSet(Lent') /\ value' + Cardinality(Lent') = N
         /\ value' \in Nat
<1>. DEFINE n == need[t]
            S == {t} \X (1 .. n)
<1>1. /\ n \in Nat /\ n > 0 /\ held[t] = 0 /\ value >= n /\ value' = value - n
      /\ held' = [held EXCEPT ![t] = n]
  BY DEF Take, SubTakes, SemInv
<1>2. Lent' = Lent \cup S
  BY <1>1 DEF Lent, SemInv
<1>3. Lent \cap S = {}
  BY <1>1 DEF Lent, SemInv
<1>4. IsFiniteSet(S) /\ Cardinality(S) = n
  BY <1>1, Slice
<1>. HIDE DEF n, S
<1>5. /\ IsFiniteSet(Lent')
      /\ Cardinality(Lent') = Cardinality(Lent) + n - 0
  BY <1>2, <1>3, <1>4, FS_Union, FS_EmptySet DEF SemInv
<1>6. Cardinality(Lent) \in Nat
  BY FS_CardinalityType DEF SemInv
<1>. QED
  BY <1>1, <1>5, <1>6, SemAssumption DEF SemInv

\* And what it gives back is what it has taken.
LEMMA GiveBackKeepsUnits ==
  ASSUME SemInv, NEW t \in Threads, GiveBack(t)
  PROVE  /\ IsFiniteSet(Lent') /\ value' + Cardinality(Lent') = N
         /\ value' \in Nat
<1>. DEFINE n == held[t]
            S == {t} \X (1 .. n)
<1>1. /\ n \in Nat /\ value' = value + n
      /\ held' = [held EXCEPT ![t] = 0]
  BY DEF GiveBack, mysem_add, SemInv
<1>2. Lent' = Lent \ S
  BY <1>1 DEF Lent, SemInv
<1>3. Lent \cap S = S
  BY <1>1 DEF Lent, SemInv
<1>4. IsFiniteSet(S) /\ Cardinality(S) = n
  BY <1>1, Slice
<1>. HIDE DEF n, S
<1>5. /\ IsFiniteSet(Lent')
      /\ Cardinality(Lent') = Cardinality(Lent) - n
  BY <1>2, <1>3, <1>4, FS_Difference DEF SemInv
<1>6. Cardinality(Lent) \in Nat
  BY FS_CardinalityType DEF SemInv
<1>. QED
  BY <1>1, <1>5, <1>6, SemAssumption DEF SemInv

LEMMA SemStep == SemInv /\ [Next]_vars => SemInv'
<1>. SUFFICES ASSUME SemInv, [Next]_vars
              PROVE  SemInv'
  OBVIOUS
<1>. USE SemAssumption DEF SemInv, NeverStalled, semVars
<1>1. ASSUME NEW t \in Threads, Ask(t)
      PROVE  SemInv'
  <2>1. t \notin asleep /\ UNCHANGED <<value, asleep, held>>
    BY <1>1 DEF Ask
  <2>2. need' \in [Threads -> 0 .. MaxUnits]
          /\ \A s \in Threads : s # t => need'[s] = need[s]
    BY <1>1 DEF Ask
  <2>3. held[t] = 0 /\ Lent' = Lent
    BY <1>1, <2>1 DEF Ask, Lent
  <2>. QED
    BY <2>1, <2>2, <2>3
<1>2. ASSUME NEW t \in Threads, Wait(t)
      PROVE  SemInv'
  <2>1. /\ asleep' = asleep \cup {t} /\ value < need[t]
        /\ UNCHANGED <<value, need, held>>
    BY <1>2 DEF Wait, SubWaits
  <2>. QED
    BY <2>1 DEF Lent
<1>3. ASSUME NEW t \in Threads, Take(t)
      PROVE  SemInv'
  <2>1. /\ t \notin asleep /\ value' = value - need[t] /\ need[t] \in Nat
        /\ asleep' = asleep
        /\ held' = [held EXCEPT ![t] = need[t]]
        /\ need' = [need EXCEPT ![t] = 0]
    BY <1>3 DEF Take, SubTakes
  <2>2. \A s \in asleep' : value' < need'[s]
    BY <2>1
  <2>. QED
    BY <1>3, <2>1, <2>2, TakeKeepsUnits
<1>4. ASSUME NEW t \in Threads, GiveBack(t)
      PROVE  SemInv'
  <2>1. /\ asleep' = {} /\ need' = need
        /\ held' = [held EXCEPT ![t] = 0]
    BY <1>4 DEF GiveBack, mysem_add
  <2>. QED
    BY <1>4, <2>1, GiveBackKeepsUnits
<1>5. CASE SpuriousWakeup /\ UNCHANGED <<need, held>>
  BY <1>5 DEF SpuriousWakeup, Lent
<1>6. CASE UNCHANGED vars
  BY <1>6 DEF vars, Lent
<1>. QED
  BY <1>1, <1>2, <1>3, <1>4, <1>5, <1>6 DEF Next

LEMMA SemImplies == SemInv => TypeOK /\ NeverStalled
<1>1. SemInv => Cardinality(Lent) \in Nat
  BY FS_CardinalityType DEF SemInv
<1>. QED
  BY <1>1, SemAssumption DEF SemInv, TypeOK

\* The inductive invariant of the semaphore alone.  Its value never becomes
\* negative, and no unit is lost or made: the units left and the units lent
\* are the N of the beginning.
THEOREM SemInvariant == Spec => []SemInv
BY SemInit, SemStep, PTL DEF Spec

\* Nobody sleeps through units that are enough for it, whoever else waits for
\* whatever number of them.
THEOREM SemNeverStalled == Spec => []NeverStalled
BY SemInvariant, SemImplies, PTL

-----------------------------------------------------------------------------
(* PrimeSem: main takes a unit for each thread, and the threads give them  *)
(* back.                                                                   *)

\* A trial division up to the half of a number is enough.
LEMMA PrimerFlag ==
  ASSUME NEW n \in Nat, n > 1
  PROVE  Primes!primer_flag(n) <=> Primes!Prime(n)
<1>1. ASSUME NEW j \in 2 .. n - 1, j > n \div 2
      PROVE  n % j # 0
  <2>1. 2 * j > n
    BY <1>1
  <2>2. n = j * 1 + (n - j) /\ n - j \in 0 .. j - 1 /\ n - j # 0
    BY <2>1
  <2>. QED
    BY <2>2
<1>. DEFINE m == n \div 2
<1>2. m \in Nat /\ m <= n - 1
  OBVIOUS
<1>3. \A j \in 2 .. n - 1 : j > m => n % j # 0
  BY <1>1
<1>4. Primes!primer_flag(n) <=> \A j \in 2 .. m : n % j # 0
  BY DEF Primes!primer_flag
<1>. HIDE DEF m
<1>5. ASSUME NEW j \in 2 .. n - 1
      PROVE  j \in 2 .. m \/ j > m
  BY <1>2
<1>6. 2 .. m \subseteq 2 .. n - 1
  BY <1>2
<1>. QED
  BY <1>3, <1>4, <1>5, <1>6, Zenon DEF Primes!Prime

\* The threads below main's `next` have been created or, in the join loop, have
\* ended, and the ones that have tested their number have printed it if it is
\* prime.
PrimesInv ==
  /\ value \in Nat
  /\ Primes!TypeOK
  /\ mainPC \in {"sub", "create"} =>
       /\ next \in Primes!Numbers
       /\ \A i \in Primes!Numbers : threadPC[i] = "none" <=> i >= next
  /\ mainPC = "join" =>
       /\ next \in Primes!Numbers
       /\ \A i \in Primes!Numbers :
            threadPC[i] # "none" /\ (i < next => threadPC[i] = "exited")
  /\ mainPC = "destroyed" =>
       \A i \in Primes!Numbers : threadPC[i] = "exited"
  /\ asleep # {} => mainPC = "sub" /\ value = 0
  /\ printed = {i \in Primes!Numbers :
                  threadPC[i] \in {"add", "exited"} /\ Primes!Prime(i)}
  /\ Primes!Units

\* The instance counts as this module does.
LEMMA PrimesCount == \A S : Primes!Cardinality(S) = Cardinality(S)
BY DEF Primes!Cardinality, Cardinality

LEMMA NumbersOver1 ==
  /\ Primes!Numbers \subseteq Nat \ {0, 1}
  /\ MIN \in Primes!Numbers /\ MAX \in Primes!Numbers
BY ProgramAssumption DEF Primes!Numbers

LEMMA WorkingFinite ==
  IsFiniteSet(Primes!Working) /\ Cardinality(Primes!Working) \in Nat
<1>1. IsFiniteSet(Primes!Numbers)
  BY FS_Interval, ProgramAssumption DEF Primes!Numbers
<1>. QED
  BY <1>1, Larger DEF Primes!Working

LEMMA PrimesInit == ProgramsInit => PrimesInv
<1>. SUFFICES ASSUME Primes!Init, value = N PROVE PrimesInv
  BY DEF ProgramsInit, Primes!Init
<1>. USE SemAssumption, ProgramAssumption DEF Primes!Init
<1>1. Primes!Working = {}
  BY DEF Primes!Working
<1>2. Primes!Units
  BY <1>1, FS_EmptySet, PrimesCount DEF Primes!Units
<1>3. next \in Primes!Numbers /\ \A i \in Primes!Numbers : i >= next
  BY DEF Primes!Numbers
<1>. QED
  BY <1>2, <1>3 DEF PrimesInv, Primes!TypeOK, Primes!Numbers

\* main: the unit it takes goes to the thread it creates.
LEMMA PrimesMainStep ==
  ASSUME PrimesInv, Primes!MainSteps
  PROVE  PrimesInv'
<1>. USE SemAssumption, ProgramAssumption, NumbersOver1, WorkingFinite
     DEF PrimesInv, Primes!TypeOK
<1>1. CASE Primes!SubWaits
  <2>1. /\ mainPC = "sub" /\ value < 1 /\ asleep' = asleep \cup {Main}
        /\ UNCHANGED <<value, mainPC, next, threadPC, printed>>
    BY <1>1 DEF Primes!SubWaits, Primes!Sem!SubWaits, Primes!mainVars
  <2>2. Primes!Units'
    BY <2>1 DEF Primes!Units, Primes!Working
  <2>. QED
    BY <2>1, <2>2
<1>2. CASE Primes!SubTakes
  <2>1. /\ mainPC = "sub" /\ value >= 1 /\ value' = value - 1
        /\ mainPC' = "create"
        /\ UNCHANGED <<asleep, next, threadPC, printed>>
    BY <1>2 DEF Primes!SubTakes, Primes!Sem!SubTakes
  <2>2. Primes!Units'
    <3>1. Primes!Working' = Primes!Working
      BY <2>1 DEF Primes!Working
    <3>. QED
      BY <2>1, <3>1, PrimesCount DEF Primes!Units
  <2>3. asleep = {}
    BY <2>1
  <2>. QED
    BY <2>1, <2>2, <2>3
<1>3. CASE Primes!Create
  <2>1. /\ mainPC = "create" /\ next \in Primes!Numbers
        /\ threadPC' = [threadPC EXCEPT ![next] = "test"]
        /\ next' = IF next = MAX THEN MIN ELSE next + 1
        /\ mainPC' = IF next = MAX THEN "join" ELSE "sub"
        /\ UNCHANGED <<value, asleep, printed>>
    BY <1>3 DEF Primes!Create, Primes!semVars
  <2>2. threadPC[next] = "none"
    BY <2>1
  <2>3. Primes!Units'
    <3>1. Primes!Working' = Primes!Working \cup {next}
      BY <2>1 DEF Primes!Working
    <3>2. next \notin Primes!Working
      BY <2>2 DEF Primes!Working
    <3>3. Cardinality(Primes!Working') = Cardinality(Primes!Working) + 1
      BY <3>1, <3>2, Grows
    <3>. QED
      BY <2>1, <3>3, PrimesCount DEF Primes!Units
  <2>4. /\ threadPC' \in [Primes!Numbers -> {"none", "test", "add", "exited"}]
        /\ threadPC'[next] = "test"
        /\ \A i \in Primes!Numbers : i # next => threadPC'[i] = threadPC[i]
    BY <2>1
  <2>5. printed' = {i \in Primes!Numbers :
                      threadPC'[i] \in {"add", "exited"} /\ Primes!Prime(i)}
    BY <2>1, <2>2, <2>4
  <2>6. next' \in Primes!Numbers /\ next' \in MIN .. MAX + 1
    BY <2>1 DEF Primes!Numbers
  <2>7. CASE next = MAX
    <3>1. \A i \in Primes!Numbers : i <= next
      BY <2>7 DEF Primes!Numbers
    <3>2. \A i \in Primes!Numbers : threadPC'[i] # "none" /\ ~(i < MIN)
      BY <2>1, <2>4, <3>1 DEF Primes!Numbers
    <3>. QED
      BY <2>1, <2>3, <2>4, <2>5, <2>6, <2>7, <3>2
  <2>8. CASE next # MAX
    <3>1. \A i \in Primes!Numbers : threadPC'[i] = "none" <=> i >= next + 1
      BY <2>1, <2>4 DEF Primes!Numbers
    <3>. QED
      BY <2>1, <2>3, <2>4, <2>5, <2>6, <2>8, <3>1
  <2>. QED
    BY <2>7, <2>8
<1>4. CASE Primes!Join
  <2>1. /\ mainPC = "join" /\ next \in Primes!Numbers
        /\ threadPC[next] = "exited" /\ next' = next + 1
        /\ mainPC' = IF next = MAX THEN "destroyed" ELSE "join"
        /\ UNCHANGED <<value, asleep, threadPC, printed>>
    BY <1>4 DEF Primes!Join, Primes!semVars
  <2>2. Primes!Units'
    BY <2>1 DEF Primes!Units, Primes!Working
  <2>3. next' \in MIN .. MAX + 1 /\ (next # MAX => next' \in Primes!Numbers)
    BY <2>1 DEF Primes!Numbers
  <2>4. \A i \in Primes!Numbers : i < next + 1 => threadPC[i] = "exited"
    BY <2>1 DEF Primes!Numbers
  <2>5. \A i \in Primes!Numbers : next = MAX => i < next + 1
    BY <2>1 DEF Primes!Numbers
  <2>. QED
    BY <2>1, <2>2, <2>3, <2>4, <2>5
<1>. QED
  BY <1>1, <1>2, <1>3, <1>4 DEF Primes!MainSteps

\* A thread: its unit is in use until it gives it back.
LEMMA PrimesThreadStep ==
  ASSUME PrimesInv, NEW i \in Primes!Numbers, Primes!ThreadSteps(i)
  PROVE  PrimesInv'
<1>. USE SemAssumption, ProgramAssumption, NumbersOver1, WorkingFinite
     DEF PrimesInv, Primes!TypeOK
<1>1. CASE Primes!Test(i)
  <2>1. /\ threadPC[i] = "test" /\ threadPC' = [threadPC EXCEPT ![i] = "add"]
        /\ printed' = IF Primes!Prime(i) THEN printed \cup {i} ELSE printed
        /\ UNCHANGED <<value, asleep, mainPC, next>>
    BY <1>1, PrimerFlag DEF Primes!Test, Primes!semVars, Primes!mainVars
  <2>2. Primes!Working' = Primes!Working
    BY <2>1 DEF Primes!Working
  <2>3. Primes!Units'
    BY <2>1, <2>2 DEF Primes!Units
  <2>4. printed' = {k \in Primes!Numbers :
                      threadPC'[k] \in {"add", "exited"} /\ Primes!Prime(k)}
    BY <2>1
  <2>. QED
    BY <2>1, <2>3, <2>4
<1>2. CASE Primes!AddUnit(i)
  <2>1. /\ threadPC[i] = "add" /\ threadPC' = [threadPC EXCEPT ![i] = "exited"]
        /\ value' = value + 1 /\ asleep' = {}
        /\ UNCHANGED <<mainPC, next, printed>>
    BY <1>2 DEF Primes!AddUnit, Primes!Sem!mysem_add, Primes!mainVars
  <2>2. Primes!Working' = Primes!Working \ {i} /\ i \in Primes!Working
    BY <2>1 DEF Primes!Working
  <2>3. Cardinality(Primes!Working') = Cardinality(Primes!Working) - 1
          /\ Cardinality(Primes!Working') \in Nat
    BY <2>2, Shrinks
  <2>4. Primes!Units' /\ value' \in 0 .. N
    BY <2>1, <2>3, PrimesCount DEF Primes!Units
  <2>5. printed' = {k \in Primes!Numbers :
                      threadPC'[k] \in {"add", "exited"} /\ Primes!Prime(k)}
    BY <2>1
  <2>. QED
    BY <2>1, <2>4, <2>5
<1>. QED
  BY <1>1, <1>2 DEF Primes!ThreadSteps

LEMMA PrimesStep == PrimesInv /\ (Primes!Next \/ UNCHANGED <<semVars, primeVars>>)
                      => PrimesInv'
<1>. SUFFICES ASSUME PrimesInv, Primes!Next \/ UNCHANGED <<semVars, primeVars>>
              PROVE  PrimesInv'
  OBVIOUS
<1>1. CASE Primes!SpuriousWakeup
  BY <1>1 DEF Primes!SpuriousWakeup, Primes!Sem!SpuriousWakeup, Primes!mainVars,
     PrimesInv, Primes!TypeOK, Primes!Units, Primes!Working
<1>2. CASE UNCHANGED <<semVars, primeVars>>
  BY <1>2 DEF semVars, primeVars, PrimesInv, Primes!TypeOK, Primes!Units,
     Primes!Working
<1>. QED
  BY <1>1, <1>2, PrimesMainStep, PrimesThreadStep DEF Primes!Next

LEMMA PrimesImplies ==
  PrimesInv => Primes!TypeOK /\ Primes!Units /\ Primes!CleanEnd
                 /\ Primes!Sem!NeverStalled
<1>. SUFFICES ASSUME PrimesInv
              PROVE  Primes!CleanEnd /\ Primes!Sem!NeverStalled
  BY DEF PrimesInv
<1>1. Primes!CleanEnd
  BY DEF PrimesInv, Primes!CleanEnd, Primes!Working
<1>2. \A t \in asleep : t = Main /\ mainPC = "sub" /\ value = 0
  BY DEF PrimesInv, Primes!TypeOK
<1>3. Primes!Sem!NeverStalled
  BY <1>2 DEF Primes!Sem!NeverStalled
<1>. QED
  BY <1>1, <1>3

-----------------------------------------------------------------------------
(* Turns: the letters of abcd and abcd_cond.                               *)

AtLock(S) == \A k \in S : letterPC[k] = "lock"

\* abcd.  While main creates threads, every thread there is finds its mutex
\* locked.  Afterwards one mutex is free and all threads are at theirs, or one
\* thread is about to print and then to unlock the next one's mutex: the one
\* free mutex, or the thread that has taken it, goes round.
Ring ==
  /\ created <= THRNUM =>
       locked = 0 .. created - 1 /\ last = THRNUM - 1 /\ AtLock(Letters!Letters)
  /\ created = THRNUM + 1 =>
       \/ /\ locked = Letters!Letters \ {Letters!next(last)}
          /\ AtLock(Letters!Letters)
       \/ /\ locked = Letters!Letters
          /\ letterPC[Letters!next(last)] = "write"
          /\ AtLock(Letters!Letters \ {Letters!next(last)})
       \/ /\ locked = Letters!Letters
          /\ letterPC[last] = "unlock"
          /\ AtLock(Letters!Letters \ {last})

TurnsInv ==
  /\ program \in Turning => Letters!TypeOK
  /\ program = "abcd" => Ring
  /\ program = "abcd_cond" => AtLock(Letters!Letters) /\ num = Letters!next(last)
  /\ program \notin Turning => created = 0 /\ AtLock(Letters!Letters)

LEMMA NextLetter ==
  /\ 0 \in Letters!Letters /\ THRNUM - 1 \in Letters!Letters
  /\ Letters!next(THRNUM - 1) = 0
  /\ \A n \in Letters!Letters : Letters!next(n) \in Letters!Letters
BY ProgramAssumption DEF Letters!Letters, Letters!next

LEMMA TurnsInit == ProgramsInit => TurnsInv
<1>. SUFFICES ASSUME Letters!Init PROVE TurnsInv
  BY DEF ProgramsInit
<1>1. 0 .. created - 1 = {} /\ created <= THRNUM /\ created # THRNUM + 1
  BY ProgramAssumption DEF Letters!Init
<1>2. Letters!TypeOK
  BY ProgramAssumption, NextLetter DEF Letters!Init, Letters!TypeOK
<1>. QED
  BY <1>1, <1>2, NextLetter DEF Letters!Init, TurnsInv, Ring, AtLock

\* abcd.
LEMMA RingStep ==
  ASSUME program = "abcd", Letters!TypeOK, Ring, Letters!Next
  PROVE  /\ Letters!TypeOK' /\ Ring'
         /\ \A n \in Letters!Letters :
              Letters!Write(n) \/ Letters!Turn(n) => n = Letters!next(last)
<1>. DEFINE L == Letters!Letters
<1>. USE ProgramAssumption, NextLetter DEF Letters!TypeOK
<1>1. CASE Letters!Create
  <2>1. /\ created < THRNUM /\ created' = created + 1
        /\ locked' = locked \cup {created}
        /\ UNCHANGED <<num, asleep, letterPC, last>>
    BY <1>1 DEF Letters!Create
  <2>2. created \in L /\ 0 .. created' - 1 = (0 .. created - 1) \cup {created}
    BY <2>1 DEF Letters!Letters
  <2>3. ~ \E n \in L : Letters!Write(n) \/ Letters!Turn(n)
    BY <2>1 DEF Letters!Write, Letters!Turn
  <2>. QED
    BY <2>1, <2>2, <2>3 DEF Ring, AtLock
<1>2. CASE Letters!Start
  <2>1. /\ created = THRNUM /\ created' = created + 1
        /\ locked' = locked \ {0}
        /\ UNCHANGED <<num, asleep, letterPC, last>>
    BY <1>2 DEF Letters!Start
  <2>2. locked = L /\ last = THRNUM - 1 /\ AtLock(L)
    BY <2>1 DEF Ring, Letters!Letters
  <2>3. ~ \E n \in L : Letters!Write(n) \/ Letters!Turn(n)
    BY <2>1 DEF Letters!Write, Letters!Turn
  <2>. QED
    BY <2>1, <2>2, <2>3 DEF Ring, AtLock
<1>3. ASSUME NEW n \in L, Letters!Lock(n)
      PROVE  /\ created = THRNUM + 1 /\ Letters!TypeOK' /\ Ring'
             /\ \A m \in L : ~(Letters!Write(m) \/ Letters!Turn(m))
  <2>1. /\ letterPC[n] = "lock" /\ n < created /\ n \notin locked
        /\ locked' = locked \cup {n}
        /\ letterPC' = [letterPC EXCEPT ![n] = "write"]
        /\ UNCHANGED <<created, num, asleep, last>>
    BY <1>3 DEF Letters!Lock
  <2>2. created = THRNUM + 1
    BY <2>1 DEF Ring, Letters!Letters
  <2>3. n = Letters!next(last) /\ locked = L \ {n} /\ AtLock(L)
    BY <2>1, <2>2 DEF Ring
  <2>4. locked' = L /\ letterPC'[n] = "write"
          /\ \A k \in L \ {n} : letterPC'[k] = "lock"
    BY <2>1, <2>3 DEF AtLock
  <2>5. Ring'
    BY <2>1, <2>2, <2>3, <2>4 DEF Ring, AtLock
  <2>6. ~ \E m \in L : Letters!Write(m) \/ Letters!Turn(m)
    BY <2>1, <2>3 DEF Letters!Write, Letters!Turn, AtLock
  <2>. QED
    BY <2>1, <2>2, <2>5, <2>6
<1>4. ASSUME NEW n \in L, Letters!Write(n)
      PROVE  /\ created = THRNUM + 1 /\ Letters!TypeOK' /\ Ring'
             /\ \A m \in L : Letters!Write(m) \/ Letters!Turn(m) =>
                               m = Letters!next(last)
  <2>1. /\ letterPC[n] = "write" /\ last' = n
        /\ letterPC' = [letterPC EXCEPT ![n] = "unlock"]
        /\ UNCHANGED <<created, locked, num, asleep>>
    BY <1>4 DEF Letters!Write
  <2>2. created = THRNUM + 1
    BY <2>1 DEF Ring, AtLock
  <2>3. n = Letters!next(last) /\ locked = L /\ AtLock(L \ {n})
    BY <2>1, <2>2 DEF Ring, AtLock
  <2>4. letterPC'[n] = "unlock" /\ \A k \in L \ {n} : letterPC'[k] = "lock"
    BY <2>1, <2>3 DEF AtLock
  <2>5. Ring'
    BY <2>1, <2>2, <2>3, <2>4 DEF Ring, AtLock
  <2>6. \A m \in L : Letters!Write(m) \/ Letters!Turn(m) => m = last'
    BY DEF Letters!Write, Letters!Turn
  <2>. QED
    BY <2>1, <2>2, <2>3, <2>5, <2>6
<1>5. ASSUME NEW n \in L, Letters!Unlock(n)
      PROVE  /\ created = THRNUM + 1 /\ Letters!TypeOK' /\ Ring'
             /\ \A m \in L : ~(Letters!Write(m) \/ Letters!Turn(m))
  <2>1. /\ letterPC[n] = "unlock"
        /\ locked' = locked \ {Letters!next(n)}
        /\ letterPC' = [letterPC EXCEPT ![n] = "lock"]
        /\ UNCHANGED <<created, num, asleep, last>>
    BY <1>5 DEF Letters!Unlock
  <2>2. created = THRNUM + 1
    BY <2>1 DEF Ring, AtLock
  <2>3. n = last /\ locked = L /\ AtLock(L \ {n})
    BY <2>1, <2>2 DEF Ring, AtLock
  <2>4. \A k \in L : letterPC'[k] = "lock"
    BY <2>1, <2>3 DEF AtLock
  <2>5. Ring'
    BY <2>1, <2>2, <2>3, <2>4 DEF Ring, AtLock
  <2>6. ~ \E m \in L : Letters!Write(m) \/ Letters!Turn(m)
    BY <2>1, <2>3 DEF Letters!Write, Letters!Turn, AtLock
  <2>. QED
    BY <2>1, <2>2, <2>5, <2>6
<1>. QED
  BY <1>1, <1>2, <1>3, <1>4, <1>5
     DEF Letters!Next, Letters!MainSteps, Letters!Letter

\* abcd_cond.
LEMMA CondStep ==
  ASSUME program = "abcd_cond", Letters!TypeOK, AtLock(Letters!Letters),
         num = Letters!next(last), Letters!Next
  PROVE  /\ Letters!TypeOK' /\ AtLock(Letters!Letters)'
         /\ num' = Letters!next(last)'
         /\ \A n \in Letters!Letters :
              Letters!Write(n) \/ Letters!Turn(n) => n = Letters!next(last)
<1>. USE ProgramAssumption, NextLetter DEF Letters!TypeOK, AtLock
<1>1. \A n \in Letters!Letters :
        Letters!Write(n) \/ Letters!Turn(n) => n = Letters!next(last)
  BY DEF Letters!Write, Letters!Turn
<1>2. CASE Letters!MainSteps
  BY <1>1, <1>2 DEF Letters!MainSteps, Letters!Create, Letters!Start
<1>3. CASE Letters!SpuriousWakeup
  BY <1>1, <1>3 DEF Letters!SpuriousWakeup
<1>4. ASSUME NEW n \in Letters!Letters, Letters!Wait(n)
      PROVE  /\ Letters!TypeOK' /\ AtLock(Letters!Letters)'
             /\ num' = Letters!next(last)'
  BY <1>4 DEF Letters!Wait
<1>5. ASSUME NEW n \in Letters!Letters, Letters!Turn(n)
      PROVE  /\ Letters!TypeOK' /\ AtLock(Letters!Letters)'
             /\ num' = Letters!next(last)'
  BY <1>5 DEF Letters!Turn, Letters!Broadcast
<1>. QED
  BY <1>1, <1>2, <1>3, <1>4, <1>5 DEF Letters!Next, Letters!Letter

LEMMA TurnsStep ==
  ASSUME TurnsInv, [ProgramsNext]_all
  PROVE  /\ TurnsInv'
         /\ \/ UNCHANGED Letters!turnVars
            \/ \A n \in Letters!Letters :
                 Letters!Write(n) \/ Letters!Turn(n) => n = Letters!next(last)
<1>1. CASE UNCHANGED all
  BY <1>1 DEF all, semVars, turnVars, Letters!turnVars, TurnsInv, Ring, AtLock,
     Letters!TypeOK
<1>2. CASE Show(Letters!Next)
  <2>1. program \in {"abcd", "abcd_cond"} /\ program' = program /\ Letters!Next
    BY <1>2 DEF Show, Turning
  <2>2. CASE program = "abcd"
    BY <2>1, <2>2, RingStep DEF TurnsInv, Turning
  <2>3. CASE program = "abcd_cond"
    BY <2>1, <2>3, CondStep DEF TurnsInv, Turning
  <2>. QED
    BY <2>1, <2>2, <2>3
<1>3. CASE program \notin Turning /\ UNCHANGED <<program, turnVars>>
  <2>1. TurnsInv'
    BY <1>3 DEF turnVars, TurnsInv, Turning, AtLock
  <2>2. ~ \E n \in Letters!Letters : Letters!Write(n) \/ Letters!Turn(n)
    BY <1>3, ProgramAssumption
       DEF TurnsInv, AtLock, Letters!Write, Letters!Turn, Letters!Letters
  <2>. QED
    BY <2>1, <2>2
<1>. QED
  BY <1>1, <1>2, <1>3
     DEF ProgramsNext, Free, Prog, Count, Serve, Turning

-----------------------------------------------------------------------------
(* SharedCounter: the four programs that count in a file.                  *)

\* The adders that have read the file, and those whose number is in it.
HaveRead == {a \in Adders : adderPC[a] \notin {"lock", "read"}}
Written == {a \in Adders : adderPC[a] \in {"unlock", "close", "done"}}

\* Between locking and unlocking; lockf's lock is only gone when the file is
\* closed.
Inside(a) ==
  \/ adderPC[a] \in {"read", "flush", "write", "unlock"}
  \/ counter.closeUnlocks /\ adderPC[a] = "close"

\* With a lock: one adder at a time, so the number in the file is the number of
\* adders that have written it, and what an adder has read is still true when
\* it writes.
Locked ==
  /\ \A a \in Adders : Inside(a) => holder = a
  /\ file = Cardinality(Written)
  /\ \A a \in Adders :
       line[a] = IF adderPC[a] \in {"flush", "write"} THEN file + 1 ELSE 0

\* Without one: what is written is at least 1.
Unlocked ==
  /\ \A a \in Adders : /\ adderPC[a] \in {"lock", "read", "close", "done"}
                       /\ adderPC[a] = "close" => line[a] > 0
                       /\ adderPC[a] = "done" => file > 0

CounterInv ==
  /\ counter \in {Counters!conflict, Counters!mutex, Counters!add,
                  Counters!add_semarr}
  /\ file \in Nat /\ file <= Cardinality(HaveRead)
  /\ holder \in Adders \cup {Nobody}
  /\ adderPC \in [Adders -> {"lock", "read", "flush", "write", "unlock",
                             "close", "done"}]
  /\ line \in [Adders -> Nat]
  /\ \A a \in Adders : line[a] <= Cardinality(HaveRead)
  /\ joined \in BOOLEAN /\ (joined => \A a \in Adders : adderPC[a] = "done")
  /\ IF counter.lock THEN Locked ELSE Unlocked

LEMMA CountersCount == \A S : Counters!Cardinality(S) = Cardinality(S)
BY DEF Counters!Cardinality, Cardinality

\* The programs that flush have a lock, and only they keep it until they close.
LEMMA CounterKinds ==
  ASSUME CounterInv
  PROVE  /\ counter.lock \in BOOLEAN /\ counter.flush \in BOOLEAN
         /\ counter.closeUnlocks \in BOOLEAN
         /\ counter.closeUnlocks => counter.flush
         /\ counter.flush => counter.lock
<1>1. CASE counter = Counters!conflict
  BY <1>1, Zenon DEF Counters!conflict
<1>2. CASE counter = Counters!mutex
  BY <1>2, Zenon DEF Counters!mutex
<1>3. CASE counter = Counters!add
  BY <1>3, Zenon DEF Counters!add
<1>4. CASE counter = Counters!add_semarr
  BY <1>4, Zenon DEF Counters!add_semarr
<1>. QED
  BY <1>1, <1>2, <1>3, <1>4 DEF CounterInv

LEMMA AddersFinite ==
  /\ IsFiniteSet(HaveRead) /\ Cardinality(HaveRead) \in Nat
  /\ Cardinality(HaveRead) <= Cardinality(Adders)
  /\ IsFiniteSet(Written) /\ Cardinality(Written) \in Nat
  /\ Cardinality(Adders) \in Nat
BY ProgramAssumption, Larger DEF HaveRead, Written

LEMMA CounterInit == ProgramsInit => CounterInv
<1>. SUFFICES ASSUME Counters!Init PROVE CounterInv
  BY DEF ProgramsInit
<1>1. Written = {} /\ HaveRead = {}
  BY DEF Counters!Init, Written, HaveRead
<1>2. file = 0 /\ Cardinality(HaveRead) = 0 /\ Cardinality(Written) = 0
  BY <1>1, FS_EmptySet DEF Counters!Init
<1>3. Locked /\ Unlocked
  BY <1>2 DEF Counters!Init, Locked, Unlocked, Inside
<1>4. IF counter.lock THEN Locked ELSE Unlocked
  BY <1>3, Zenon
<1>5. joined \in BOOLEAN /\ ~joined
  BY Zenon DEF Counters!Init
<1>6. /\ file = 0 /\ holder = Nobody
      /\ line = [a \in Adders |-> 0] /\ adderPC = [a \in Adders |-> "lock"]
  BY DEF Counters!Init
<1>7. counter \in {Counters!conflict, Counters!mutex, Counters!add,
                  Counters!add_semarr}
  BY DEF Counters!Init
<1>8. /\ file \in Nat /\ file <= Cardinality(HaveRead)
      /\ holder \in Adders \cup {Nobody}
      /\ adderPC \in [Adders -> {"lock", "read", "flush", "write", "unlock",
                                 "close", "done"}]
      /\ line \in [Adders -> Nat]
      /\ \A a \in Adders : line[a] <= Cardinality(HaveRead)
  BY <1>2, <1>6
<1>. QED
  BY <1>4, <1>5, <1>7, <1>8, Zenon DEF CounterInv

LEMMA AddKeepsInv ==
  ASSUME CounterInv, NEW a \in Adders, Counters!Add(a)
  PROVE  CounterInv'
<1>. USE ProgramAssumption, CounterKinds, AddersFinite
     DEF CounterInv, Locked, Unlocked, Inside
<1>1. CASE Counters!Lock(a)
  <2>1. /\ adderPC[a] = "lock" /\ adderPC' = [adderPC EXCEPT ![a] = "read"]
        /\ IF counter.lock THEN holder = Nobody /\ holder' = a
                           ELSE UNCHANGED holder
        /\ UNCHANGED <<counter, file, line, joined>>
    BY <1>1 DEF Counters!Lock, Counters!Goto
  <2>2. Written' = Written /\ HaveRead' = HaveRead
    BY <2>1 DEF Written, HaveRead
  <2>. QED
    BY <2>1, <2>2
<1>2. CASE Counters!Read(a)
  <2>. DEFINE pc == IF counter.flush THEN "flush"
                    ELSE IF counter.lock THEN "write" ELSE "close"
  <2>1. /\ adderPC[a] = "read" /\ adderPC' = [adderPC EXCEPT ![a] = pc]
        /\ line' = [line EXCEPT ![a] = file + 1]
        /\ UNCHANGED <<counter, file, holder, joined>>
    BY <1>2 DEF Counters!Read, Counters!Goto
  <2>2. /\ counter.lock => pc \in {"flush", "write"}
        /\ ~counter.lock => pc = "close"
        /\ pc \in {"flush", "write", "close"}
    OBVIOUS
  <2>. HIDE DEF pc
  <2>3. HaveRead' = HaveRead \cup {a} /\ a \notin HaveRead
    BY <2>1, <2>2 DEF HaveRead
  <2>4. Cardinality(HaveRead') = Cardinality(HaveRead) + 1
    BY <2>3, Grows
  <2>5. counter.lock => Written' = Written
    BY <2>1, <2>2 DEF Written
  <2>6. IF counter.lock THEN Locked' ELSE Unlocked'
    BY <2>1, <2>2, <2>5
  <2>7. \A b \in Adders : line'[b] <= Cardinality(HaveRead')
    BY <2>1, <2>4
  <2>8. ~joined'
    BY <2>1
  <2>. QED
    BY <2>1, <2>2, <2>4, <2>6, <2>7, <2>8
<1>3. CASE Counters!Flush(a) \/ Counters!CloseLocked(a)
  <2>1. /\ adderPC[a] \in {"flush", "write"}
        /\ adderPC' = [adderPC EXCEPT ![a] = "unlock"]
        /\ file' = line[a] /\ line' = [line EXCEPT ![a] = 0]
        /\ UNCHANGED <<counter, holder, joined>>
    BY <1>3 DEF Counters!Flush, Counters!CloseLocked, Counters!Goto
  <2>2. counter.lock
    BY <2>1
  <2>3. \A b \in Adders \ {a} : adderPC[b] \notin {"flush", "write"}
    BY <2>1, <2>2
  <2>4. HaveRead' = HaveRead
    BY <2>1 DEF HaveRead
  <2>5. Written' = Written \cup {a} /\ a \notin Written
    BY <2>1 DEF Written
  <2>6. Cardinality(Written') = Cardinality(Written) + 1
    BY <2>5, Grows
  <2>7. file' = file + 1
    BY <2>1, <2>2
  <2>8. Locked'
    BY <2>1, <2>2, <2>3, <2>6, <2>7
  <2>9. file' \in Nat /\ file' <= Cardinality(HaveRead')
    BY <2>1, <2>4
  <2>10. \A b \in Adders : line'[b] \in Nat /\ line'[b] <= Cardinality(HaveRead')
    BY <2>1, <2>4
  <2>11. ~joined'
    BY <2>1
  <2>. QED
    BY <2>1, <2>2, <2>8, <2>9, <2>10, <2>11
<1>4. CASE Counters!Unlock(a)
  <2>. DEFINE pc == IF counter.flush THEN "close" ELSE "done"
  <2>1. /\ adderPC[a] = "unlock" /\ adderPC' = [adderPC EXCEPT ![a] = pc]
        /\ holder' = IF counter.closeUnlocks THEN holder ELSE Nobody
        /\ UNCHANGED <<counter, file, line, joined>>
    BY <1>4 DEF Counters!Unlock, Counters!Goto
  <2>2. pc \in {"close", "done"} /\ (pc = "close" <=> counter.flush)
    OBVIOUS
  <2>3. counter.lock
    BY <2>1
  <2>. HIDE DEF pc
  <2>4. HaveRead' = HaveRead /\ Written' = Written
    BY <2>1, <2>2 DEF HaveRead, Written
  <2>5. Locked'
    BY <2>1, <2>2, <2>3, <2>4
  <2>. QED
    BY <2>1, <2>2, <2>3, <2>4, <2>5
<1>5. CASE Counters!Close(a)
  <2>1. /\ adderPC[a] = "close" /\ adderPC' = [adderPC EXCEPT ![a] = "done"]
        /\ file' = IF line[a] = 0 THEN file ELSE line[a]
        /\ line' = [line EXCEPT ![a] = 0]
        /\ holder' = IF counter.closeUnlocks THEN Nobody ELSE holder
        /\ UNCHANGED <<counter, joined>>
    BY <1>5 DEF Counters!Close, Counters!Goto
  <2>2. HaveRead' = HaveRead /\ Written' = Written
    BY <2>1 DEF HaveRead, Written
  <2>3. CASE counter.lock
    <3>1. file' = file
      BY <2>1, <2>3
    <3>2. Locked'
      BY <2>1, <2>2, <2>3, <3>1
    <3>. QED
      BY <2>1, <2>2, <2>3, <3>1, <3>2
  <2>4. CASE ~counter.lock
    BY <2>1, <2>2, <2>4
  <2>. QED
    BY <2>3, <2>4
<1>. QED
  BY <1>1, <1>2, <1>3, <1>4, <1>5 DEF Counters!Add

LEMMA CounterStep == CounterInv /\ [ProgramsNext]_all => CounterInv'
<1>. SUFFICES ASSUME CounterInv, Counters!Next \/ UNCHANGED counterVars
              PROVE  CounterInv'
  BY DEF ProgramsNext, Free, Prog, Show, Count, Serve, all
<1>1. CASE Counters!Join
  BY <1>1 DEF Counters!Join, CounterInv, Locked, Unlocked, Inside, Written,
     HaveRead
<1>2. CASE UNCHANGED counterVars
  BY <1>2 DEF counterVars, CounterInv, Locked, Unlocked, Inside, Written,
     HaveRead
<1>. QED
  BY <1>1, <1>2, AddKeepsInv DEF Counters!Next

LEMMA CounterImplies == CounterInv => Counters!TypeOK /\ Counters!Counted
<1>. SUFFICES ASSUME CounterInv PROVE Counters!TypeOK /\ Counters!Counted
  OBVIOUS
<1>1. Counters!TypeOK
  BY AddersFinite, CountersCount DEF CounterInv, Counters!TypeOK
<1>2. ASSUME joined, counter.lock
      PROVE  file = Cardinality(Adders)
  <2>1. Written = Adders
    BY <1>2 DEF CounterInv, Written
  <2>. QED
    BY <1>2, <2>1 DEF CounterInv, Locked
<1>3. joined /\ ~counter.lock => file > 0
  BY ProgramAssumption DEF CounterInv, Unlocked
<1>. QED
  BY <1>1, <1>2, <1>3, CountersCount DEF Counters!Counted

-----------------------------------------------------------------------------
(* StampServer: the iterative server, the concurrent one and the pool.     *)

LEMMA ServerCount == \A S : Server!Cardinality(S) = Cardinality(S)
BY DEF Server!Cardinality, Cardinality

\* A queue without repetitions stays one.
LEMMA Enqueue ==
  ASSUME NEW S, NEW s \in Seq(S), NEW c \in S, c \notin Range(s),
         IsInjective(s)
  PROVE  /\ Append(s, c) \in Seq(S)
         /\ Range(Append(s, c)) = Range(s) \cup {c}
         /\ IsInjective(Append(s, c))
<1>1. /\ Append(s, c) \in Seq(S) /\ Len(s) \in Nat
      /\ DOMAIN s = 1 .. Len(s) /\ DOMAIN Append(s, c) = 1 .. Len(s) + 1
      /\ \A i \in 1 .. Len(s) : Append(s, c)[i] = s[i]
      /\ Append(s, c)[Len(s) + 1] = c
  OBVIOUS
<1>2. \A i \in 1 .. Len(s) + 1 : i \in 1 .. Len(s) \/ i = Len(s) + 1
  BY <1>1
<1>. QED
  BY <1>1, <1>2 DEF Range, IsInjective

LEMMA Dequeue ==
  ASSUME NEW S, NEW s \in Seq(S), s # << >>, IsInjective(s)
  PROVE  /\ Head(s) \in S /\ Head(s) \in Range(s)
         /\ Tail(s) \in Seq(S)
         /\ Range(Tail(s)) = Range(s) \ {Head(s)}
         /\ IsInjective(Tail(s))
<1>1. /\ Tail(s) \in Seq(S) /\ Len(s) \in Nat /\ Len(s) > 0
      /\ Head(s) = s[1] /\ Head(s) \in S
      /\ DOMAIN s = 1 .. Len(s) /\ DOMAIN Tail(s) = 1 .. Len(s) - 1
      /\ \A i \in 1 .. Len(s) - 1 : Tail(s)[i] = s[i + 1]
  OBVIOUS
<1>2. \A i \in 1 .. Len(s) : i = 1 \/ (i - 1 \in 1 .. Len(s) - 1
                                        /\ (i - 1) + 1 = i)
  BY <1>1
<1>3. \A i \in 1 .. Len(s) - 1 : i + 1 \in 1 .. Len(s) /\ i + 1 # 1
  BY <1>1
<1>4. IsInjective(Tail(s))
  BY <1>1, <1>3 DEF IsInjective
<1>5. Range(Tail(s)) = Range(s) \ {Head(s)}
  <2>1. Range(Tail(s)) \subseteq Range(s) \ {Head(s)}
    BY <1>1, <1>3 DEF Range, IsInjective
  <2>2. ASSUME NEW i \in 1 .. Len(s), s[i] # s[1]
        PROVE  s[i] \in Range(Tail(s))
    <3>1. i - 1 \in 1 .. Len(s) - 1 /\ Tail(s)[i - 1] = s[i]
      BY <1>1, <1>2, <2>2
    <3>. QED
      BY <1>1, <3>1 DEF Range
  <2>. QED
    BY <1>1, <2>1, <2>2 DEF Range
<1>6. Head(s) \in Range(s)
  BY <1>1 DEF Range
<1>. QED
  BY <1>1, <1>4, <1>5, <1>6

\* Which process of which server may be at which statement.
Roles ==
  /\ server = "iterative" =>
       /\ proc[Main] \in {"accept", "send", "close", "exited"}
       /\ \A k \in Children : proc[k] = "none"
  /\ server = "concurrent" =>
       /\ proc[Main] \in {"accept", "fork", "close", "exited"}
       /\ \A k \in Children :
            proc[k] \in {"none", "born", "send", "close", "zombie"}
  /\ server = "pool" =>
       /\ proc[Main] \in {"spawn", "wait", "exited"}
       /\ \A k \in Children :
            proc[k] \in {"none", "accept", "send", "close", "zombie"}
  /\ proc[Main] = "wait" => started = PROCNUM
  /\ \A q \in Server!Processes :
       newsd[q] \in Clients <=> proc[q] \in {"fork", "born", "send", "close"}

Queued == Range(backlog)

\* A client has one connection: in the backlog or with a process; in the pool,
\* with one process.
Connections ==
  /\ IsInjective(backlog)
  /\ \A c \in Clients : client[c] = "out" =>
       c \notin Queued /\ \A q \in Server!Processes : newsd[q] # c
  /\ \A q \in Server!Processes : newsd[q] \notin Queued
  /\ server = "pool" =>
       \A q, r \in Server!Processes :
         newsd[q] \in Clients /\ newsd[q] = newsd[r] => q = r

\* A client that reads will get a stamp, unless a fork has failed.
StampOnTheWay ==
  \A c \in Clients : client[c] = "reading" =>
    \/ c \in stamped \/ c \in Queued
    \/ \E q \in Server!Processes :
         newsd[q] = c /\ proc[q] \in {"fork", "born", "send"}
    \/ server = "concurrent" /\ "fork" \in failed

\* What a server dies of.
Deaths ==
  proc[Main] = "exited" =>
    /\ server = "iterative" => Server!Quitters # {}
    /\ server = "concurrent" => failed \cap {"fork", "accept"} # {}

\* The pool: every process that has died took a client with it, one that had
\* quit and is nowhere any more.
Live == {k \in Children : proc[k] \in {"accept", "send", "close"}}
Gone == {c \in Server!Quitters :
           c \notin Queued /\ \A q \in Server!Processes : newsd[q] # c}
OnePerQuitter ==
  /\ IsFiniteSet(Live) /\ IsFiniteSet(Server!Quitters)
  /\ server = "pool" => started <= Cardinality(Live) + Cardinality(Gone)

\* Somebody is turned away when nobody is left to accept, or when a fork fails.
NobodyLeft ==
  (\E c \in Clients : client[c] = "bad") =>
    /\ server = "iterative" => proc[Main] = "exited"
    /\ server = "concurrent" => failed \cap {"fork", "accept"} # {}
    /\ server = "pool" => proc[Main] = "exited" /\ Live = {}

ServerInv ==
  /\ Server!TypeOK /\ Roles /\ Connections /\ StampOnTheWay
  /\ Deaths /\ OnePerQuitter /\ NobodyLeft

LEMMA ServerInit == ProgramsInit => ServerInv
<1>. SUFFICES ASSUME Server!Init PROVE ServerInv
  BY DEF ProgramsInit
<1>. USE ProgramAssumption DEF Server!Init
<1>1. backlog = << >> /\ Queued = {} /\ backlog \in Seq(Clients)
        /\ IsInjective(backlog)
  BY DEF Queued, Range, IsInjective
<1>2. Live = {} /\ Server!Quitters = {} /\ Gone = {}
  BY DEF Live, Server!Quitters, Gone, Server!Processes
<1>3. proc[Main] \in {"accept", "spawn"} /\ \A k \in Children : proc[k] = "none"
  BY DEF Server!Processes
<1>4. Server!TypeOK
  BY <1>1 DEF Server!TypeOK, Server!Dead, Server!Processes
<1>5. Roles
  BY <1>3 DEF Roles, Server!Processes
<1>6. OnePerQuitter
  BY <1>2, FS_EmptySet DEF OnePerQuitter
<1>. QED
  BY <1>1, <1>3, <1>4, <1>5, <1>6
     DEF ServerInv, Connections, StampOnTheWay, Deaths, NobodyLeft

\* Who has quit and is nowhere any more stays so.
LEMMA PoolGoesOn ==
  ASSUME OnePerQuitter, started \in Nat,
         Server!TypeOK, server' = server,
         started' = started, Live' = Live, Gone \subseteq Gone',
         IsFiniteSet(Server!Quitters')
  PROVE  OnePerQuitter'
<1>1. IsFiniteSet(Gone') /\ Cardinality(Gone) <= Cardinality(Gone')
        /\ Cardinality(Gone) \in Nat /\ Cardinality(Gone') \in Nat
  BY Larger, Gone' \subseteq Server!Quitters' DEF Gone
<1>2. Cardinality(Live) \in Nat
  BY FS_CardinalityType DEF OnePerQuitter
<1>. QED
  BY <1>1, <1>2 DEF OnePerQuitter

LEMMA ClientKeepsServer ==
  ASSUME ServerInv, NEW c \in Clients, Server!Client(c)
  PROVE  ServerInv'
<1>. USE ProgramAssumption DEF ServerInv
<1>1. /\ UNCHANGED <<server, stamped, proc, newsd, started, waited, failed>>
      /\ Live' = Live
  BY DEF Server!Client, Server!Connect, Server!Quit, Server!EndOfStream, Live
<1>2. Roles'
  BY <1>1 DEF Roles
<1>3. CASE Server!Connect(c)
  <2>1. /\ client[c] = "out" /\ client' = [client EXCEPT ![c] = "reading"]
        /\ backlog' = Append(backlog, c)
    BY <1>3 DEF Server!Connect
  <2>2. /\ c \notin Queued /\ \A q \in Server!Processes : newsd[q] # c
        /\ backlog \in Seq(Clients) /\ IsInjective(backlog)
    BY <2>1 DEF Connections, Server!TypeOK
  <2>3. /\ backlog' \in Seq(Clients) /\ IsInjective(backlog')
        /\ Queued' = Queued \cup {c}
    BY <2>1, <2>2, Enqueue DEF Queued
  <2>4. Server!TypeOK'
    BY <1>1, <2>1, <2>3 DEF Server!TypeOK
  <2>5. Connections'
    BY <1>1, <2>1, <2>2, <2>3 DEF Connections, Server!TypeOK
  <2>6. StampOnTheWay'
    BY <1>1, <2>1, <2>3 DEF StampOnTheWay, Server!TypeOK
  <2>7. Server!Quitters' = Server!Quitters
    BY <2>1 DEF Server!Quitters, Server!TypeOK
  <2>8. Gone' = Gone
    BY <1>1, <2>1, <2>3, <2>7 DEF Gone, Server!Quitters
  <2>9. OnePerQuitter'
    BY <1>1, <2>7, <2>8, PoolGoesOn DEF OnePerQuitter, Server!TypeOK
  <2>10. Deaths' /\ NobodyLeft'
    BY <1>1, <2>1, <2>7 DEF Deaths, NobodyLeft, Server!TypeOK
  <2>. QED
    BY <1>2, <2>4, <2>5, <2>6, <2>9, <2>10
<1>4. CASE Server!Quit(c)
  <2>1. /\ client[c] = "reading" /\ client' = [client EXCEPT ![c] = "quit"]
        /\ backlog' = backlog /\ Queued' = Queued
    BY <1>4 DEF Server!Quit, Queued
  <2>2. Server!TypeOK'
    BY <1>1, <2>1 DEF Server!TypeOK
  <2>3. Connections'
    BY <1>1, <2>1 DEF Connections, Server!TypeOK
  <2>4. StampOnTheWay'
    BY <1>1, <2>1 DEF StampOnTheWay, Server!TypeOK
  <2>5. Server!Quitters' = Server!Quitters \cup {c}
    BY <2>1 DEF Server!Quitters, Server!TypeOK
  <2>6. Gone \subseteq Gone'
    BY <1>1, <2>1, <2>5 DEF Gone
  <2>7. IsFiniteSet(Server!Quitters')
    BY <2>5, FS_AddElement DEF OnePerQuitter
  <2>8. OnePerQuitter'
    BY <1>1, <2>6, <2>7, PoolGoesOn DEF Server!TypeOK
  <2>9. Deaths' /\ NobodyLeft'
    BY <1>1, <2>1, <2>5 DEF Deaths, NobodyLeft, Server!TypeOK
  <2>. QED
    BY <1>2, <2>2, <2>3, <2>4, <2>8, <2>9
<1>5. CASE Server!EndOfStream(c)
  <2>1. /\ client[c] = "reading" /\ Server!Closed(c)
        /\ client' = [client EXCEPT ![c] = IF c \in stamped THEN "stamp"
                                                            ELSE "bad"]
        /\ backlog' = backlog /\ Queued' = Queued
    BY <1>5 DEF Server!EndOfStream, Queued
  <2>2. Server!TypeOK'
    BY <1>1, <2>1 DEF Server!TypeOK
  <2>3. Connections'
    BY <1>1, <2>1 DEF Connections, Server!TypeOK
  <2>4. StampOnTheWay'
    BY <1>1, <2>1 DEF StampOnTheWay, Server!TypeOK
  <2>5. Server!Quitters' = Server!Quitters
    BY <2>1 DEF Server!Quitters, Server!TypeOK
  <2>6. Gone \subseteq Gone'
    BY <1>1, <2>1, <2>5 DEF Gone
  <2>7. OnePerQuitter' /\ Deaths'
    BY <1>1, <2>5, <2>6, PoolGoesOn DEF OnePerQuitter, Server!TypeOK, Deaths
  <2>8. CASE c \in stamped
    BY <1>1, <1>2, <2>1, <2>2, <2>3, <2>4, <2>5, <2>7, <2>8
       DEF NobodyLeft, Server!TypeOK
  <2>9. CASE c \notin stamped
    <3>1. \/ server = "concurrent" /\ "fork" \in failed
          \/ Server!Listeners = {}
      <4>1. \A q \in Server!Processes : newsd[q] # c
        BY <2>1 DEF Server!Closed
      <4>2. c \in Queued => Server!Listeners = {}
        BY <2>1 DEF Server!Closed, Server!InBacklog, Queued, Range, Server!TypeOK
      <4>. QED
        BY <2>1, <2>9, <4>1, <4>2 DEF StampOnTheWay
    <3>2. Server!Listeners = {} =>
            /\ server = "iterative" => proc[Main] = "exited"
            /\ server = "concurrent" => failed \cap {"fork", "accept"} # {}
            /\ server = "pool" => proc[Main] = "exited" /\ Live = {}
      BY DEF Server!Listeners, Server!Processes, Server!Dead, Roles, Deaths, Live
    <3>3. NobodyLeft'
      BY <1>1, <3>1, <3>2 DEF NobodyLeft, Server!TypeOK
    <3>. QED
      BY <1>2, <2>2, <2>3, <2>4, <2>7, <3>3
  <2>. QED
    BY <2>8, <2>9
<1>. QED
  BY <1>3, <1>4, <1>5 DEF Server!Client

\* Nobody is not in the backlog.
LEMMA QueuedClients == ServerInv => Queued \subseteq Clients /\ Nobody \notin Queued
BY ProgramAssumption DEF ServerInv, Server!TypeOK, Queued, Range

\* What a process takes from the backlog, and what is left of it.
LEMMA HeadOfQueue ==
  ASSUME ServerInv, backlog # << >>
  PROVE  /\ Head(backlog) \in Clients /\ Head(backlog) \in Queued
         /\ Tail(backlog) \in Seq(Clients) /\ IsInjective(Tail(backlog))
         /\ Range(Tail(backlog)) = Queued \ {Head(backlog)}
BY Dequeue DEF ServerInv, Server!TypeOK, Connections, Queued

LEMMA AcceptKeepsServer ==
  ASSUME ServerInv, NEW q \in Server!Processes, Server!Accept(q)
  PROVE  ServerInv'
<1>. USE ProgramAssumption DEF ServerInv
<1>. DEFINE c == Head(backlog)
<1>1. /\ proc[q] = "accept" /\ backlog' = Tail(backlog)
      /\ newsd' = [newsd EXCEPT ![q] = c]
      /\ proc' = [proc EXCEPT ![q] = IF server = "concurrent" THEN "fork"
                                                             ELSE "send"]
      /\ UNCHANGED <<server, client, stamped, started, waited, failed>>
  BY DEF Server!Accept, Server!Go
<1>2. /\ c \in Clients /\ c \in Queued /\ backlog' \in Seq(Clients)
      /\ IsInjective(backlog') /\ Queued' = Queued \ {c}
  BY <1>1, HeadOfQueue DEF Server!Accept, Queued
<1>3. q = Main \/ q \in Children
  BY DEF Server!Processes
<1>4. server = "concurrent" => q = Main
  BY <1>1, <1>3 DEF Roles
<1>. HIDE DEF c
<1>5. Server!TypeOK'
  BY <1>1, <1>2 DEF Server!TypeOK
<1>6. Roles'
  BY <1>1, <1>2, <1>3, <1>4 DEF Roles, Server!TypeOK, Server!Processes
<1>7. Connections'
  BY <1>1, <1>2 DEF Connections, Server!TypeOK
<1>8. StampOnTheWay'
  BY <1>1, <1>2 DEF StampOnTheWay, Server!TypeOK, Roles
<1>9. Server!Quitters' = Server!Quitters
  BY <1>1 DEF Server!Quitters
<1>10. Gone' = Gone
  BY <1>1, <1>2, <1>9 DEF Gone, Server!TypeOK, Connections, Server!Quitters,
     Roles
<1>11. Live' = Live
  BY <1>1, <1>4 DEF Live, Server!TypeOK, Server!Processes
<1>12. OnePerQuitter'
  BY <1>1, <1>9, <1>10, <1>11, PoolGoesOn DEF OnePerQuitter, Server!TypeOK
<1>13. Deaths' /\ NobodyLeft'
  BY <1>1, <1>3, <1>9, <1>11 DEF Deaths, NobodyLeft, Server!TypeOK, Roles
<1>. QED
  BY <1>5, <1>6, <1>7, <1>8, <1>12, <1>13

\* A process that dies takes the client with it that quit.
LEMMA DeathKeepsServer ==
  ASSUME ServerInv, NEW q \in Server!Processes,
         Server!AcceptFails(q) \/ Server!SendFails(q)
  PROVE  ServerInv'
<1>. USE ProgramAssumption DEF ServerInv
<1>. DEFINE c == IF proc[q] = "accept" THEN Head(backlog) ELSE newsd[q]
<1>1. /\ proc[q] \in {"accept", "send"}
      /\ proc' = [proc EXCEPT ![q] = IF q = Main THEN "exited" ELSE "zombie"]
      /\ newsd' = [newsd EXCEPT ![q] = Nobody]
      /\ client[c] = "quit"
      /\ failed' = failed \cup {proc[q]}
      /\ UNCHANGED <<server, client, stamped, started, waited>>
  BY DEF Server!AcceptFails, Server!SendFails, Server!Exit, Server!Go,
     Server!netVars
<1>2. /\ c \in Clients /\ c \notin Queued'
      /\ backlog' \in Seq(Clients) /\ IsInjective(backlog')
      /\ Queued' = Queued \ {c}
  <2>1. CASE Server!AcceptFails(q)
    BY <2>1, HeadOfQueue DEF Server!AcceptFails, Queued
  <2>2. CASE Server!SendFails(q)
    <3>1. newsd[q] \in Clients /\ newsd[q] \notin Queued /\ c = newsd[q]
            /\ backlog' = backlog
      BY <2>2 DEF Server!SendFails, Roles, Connections, Server!netVars
    <3>. QED
      BY <3>1 DEF Queued, Server!TypeOK, Connections
  <2>. QED
    BY <2>1, <2>2
<1>3. q = Main \/ q \in Children
  BY DEF Server!Processes
<1>4. /\ \E r \in Server!Processes : newsd[r] = c \/ c \in Queued
      /\ proc[q] = "accept" => c \in Queued
      /\ proc[q] = "send" => newsd[q] = c
  <2>1. CASE Server!AcceptFails(q)
    BY <2>1, HeadOfQueue DEF Server!AcceptFails
  <2>2. CASE Server!SendFails(q)
    BY <2>2 DEF Server!SendFails
  <2>. QED
    BY <2>1, <2>2
<1>. HIDE DEF c
<1>5. Server!TypeOK'
  BY <1>1, <1>2 DEF Server!TypeOK, Server!Dead
<1>6. Roles'
  BY <1>1, <1>3 DEF Roles, Server!TypeOK, Server!Processes
<1>7. Connections'
  <2>1. \A r \in Server!Processes : newsd'[r] \in {newsd[r], Nobody}
    BY <1>1 DEF Server!TypeOK
  <2>2. \A r \in Server!Processes : newsd'[r] \in Clients => newsd'[r] = newsd[r]
    BY <2>1
  <2>. QED
    BY <1>1, <1>2, <2>1, <2>2, QueuedClients DEF Connections
<1>8. StampOnTheWay'
  <2>. SUFFICES ASSUME NEW d \in Clients, client[d] = "reading"
                PROVE  \/ d \in stamped \/ d \in Queued'
                       \/ \E r \in Server!Processes :
                            newsd'[r] = d /\ proc'[r] \in {"fork", "born", "send"}
                       \/ server = "concurrent" /\ "fork" \in failed'
    BY <1>1 DEF StampOnTheWay
  <2>1. d # c
    BY <1>1
  <2>2. ASSUME NEW r \in Server!Processes, newsd[r] = d,
               proc[r] \in {"fork", "born", "send"}
        PROVE  newsd'[r] = d /\ proc'[r] \in {"fork", "born", "send"}
    BY <1>1, <1>4, <2>1, <2>2 DEF Server!TypeOK, Roles
  <2>. QED
    BY <1>1, <1>2, <2>1, <2>2 DEF StampOnTheWay
<1>9. Server!Quitters' = Server!Quitters /\ c \in Server!Quitters
  BY <1>1, <1>2 DEF Server!Quitters
<1>10. Deaths'
  BY <1>1, <1>3, <1>9 DEF Deaths, Server!TypeOK, Roles, Server!Processes
<1>11. Gone \subseteq Gone' /\ c \notin Gone
  <2>1. c \notin Gone
    BY <1>4 DEF Gone
  <2>2. \A r \in Server!Processes : newsd'[r] \in {newsd[r], Nobody}
    BY <1>1 DEF Server!TypeOK
  <2>3. Gone \subseteq Clients
    BY DEF Gone, Server!Quitters
  <2>. QED
    BY <1>2, <1>9, <2>1, <2>2, <2>3 DEF Gone
<1>12. server = "pool" => q \in Live /\ q \in Children /\ Live' = Live \ {q}
  BY <1>1, <1>3 DEF Live, Roles, Server!TypeOK, Server!Processes
<1>13. Live' \subseteq Live
  BY <1>1 DEF Live, Server!TypeOK
<1>14. server = "pool" => c \in Gone'
  BY <1>1, <1>2, <1>4, <1>9 DEF Gone, Connections, Server!TypeOK, Roles
<1>15. OnePerQuitter'
  <2>1. IsFiniteSet(Live') /\ IsFiniteSet(Server!Quitters')
    BY <1>9, <1>13, FS_Subset DEF OnePerQuitter
  <2>2. ASSUME server = "pool"
        PROVE  started' <= Cardinality(Live') + Cardinality(Gone')
    <3>1. IsFiniteSet(Gone) /\ IsFiniteSet(Gone')
      BY <2>1, Larger, Gone \subseteq Server!Quitters,
         Gone' \subseteq Server!Quitters' DEF OnePerQuitter, Gone
    <3>2. Cardinality(Live') = Cardinality(Live) - 1
            /\ Cardinality(Live) \in Nat /\ Cardinality(Live') \in Nat
      BY <1>12, <2>2, Shrinks DEF OnePerQuitter
    <3>3. Gone \cup {c} \subseteq Gone'
      BY <1>11, <1>14, <2>2
    <3>4. Cardinality(Gone \cup {c}) = Cardinality(Gone) + 1
            /\ Cardinality(Gone) \in Nat
      BY <1>11, <3>1, Grows
    <3>5. Cardinality(Gone \cup {c}) <= Cardinality(Gone')
            /\ Cardinality(Gone') \in Nat
      BY <3>1, <3>3, Larger
    <3>6. started' = started /\ started \in Nat
      BY <1>1 DEF Server!TypeOK
    <3>. QED
      BY <2>2, <3>2, <3>4, <3>5, <3>6 DEF OnePerQuitter
  <2>. QED
    BY <1>1, <2>1, <2>2 DEF OnePerQuitter
<1>16. NobodyLeft'
  BY <1>1, <1>3, <1>13 DEF NobodyLeft, Server!TypeOK, Roles
<1>. QED
  BY <1>5, <1>6, <1>7, <1>8, <1>10, <1>15, <1>16

LEMMA SendKeepsServer ==
  ASSUME ServerInv, NEW q \in Server!Processes, Server!Send(q)
  PROVE  ServerInv'
<1>. USE ProgramAssumption DEF ServerInv
<1>1. /\ proc[q] = "send" /\ proc' = [proc EXCEPT ![q] = "close"]
      /\ stamped' = stamped \cup {newsd[q]}
      /\ UNCHANGED <<server, backlog, client, newsd, started, waited, failed>>
      /\ Queued' = Queued
  BY DEF Server!Send, Server!Go, Queued
<1>2. newsd[q] \in Clients
  BY <1>1 DEF Roles
<1>3. q = Main \/ q \in Children
  BY DEF Server!Processes
<1>4. Server!TypeOK'
  BY <1>1, <1>2 DEF Server!TypeOK
<1>5. Roles' /\ Connections'
  BY <1>1, <1>2, <1>3 DEF Roles, Connections, Server!TypeOK, Server!Processes
<1>6. StampOnTheWay'
  BY <1>1, <1>2 DEF StampOnTheWay, Server!TypeOK
<1>7. /\ Live' = Live /\ Server!Quitters' = Server!Quitters /\ Gone' = Gone
  BY <1>1 DEF Live, Server!Quitters, Gone, Server!TypeOK
<1>8. OnePerQuitter' /\ Deaths' /\ NobodyLeft'
  BY <1>1, <1>3, <1>7, PoolGoesOn
     DEF OnePerQuitter, Deaths, NobodyLeft, Server!TypeOK
<1>. QED
  BY <1>4, <1>5, <1>6, <1>8

LEMMA CloseKeepsServer ==
  ASSUME ServerInv, NEW q \in Server!Processes, Server!Close(q)
  PROVE  ServerInv'
<1>. USE ProgramAssumption DEF ServerInv
<1>. DEFINE pc == IF server = "concurrent" /\ q # Main THEN "zombie" ELSE "accept"
<1>1. /\ proc[q] = "close" /\ proc' = [proc EXCEPT ![q] = pc]
      /\ newsd' = [newsd EXCEPT ![q] = Nobody]
      /\ UNCHANGED <<server, backlog, client, stamped, started, waited, failed>>
      /\ Queued' = Queued
  BY DEF Server!Close, Server!Exit, Server!Go, Queued, Server!netVars
<1>2. q = Main \/ q \in Children
  BY DEF Server!Processes
<1>3. pc \in {"zombie", "accept"} /\ (pc = "zombie" <=> server = "concurrent"
                                                        /\ q # Main)
  OBVIOUS
<1>. HIDE DEF pc
<1>4. Server!TypeOK'
  BY <1>1, <1>3 DEF Server!TypeOK, Server!Dead
<1>5. Roles'
  BY <1>1, <1>2, <1>3 DEF Roles, Server!TypeOK, Server!Processes
<1>6. Connections'
  <2>1. \A r \in Server!Processes : newsd'[r] \in {newsd[r], Nobody}
    BY <1>1 DEF Server!TypeOK
  <2>2. \A r \in Server!Processes : newsd'[r] \in Clients => newsd'[r] = newsd[r]
    BY <2>1
  <2>. QED
    BY <1>1, <2>1, <2>2, QueuedClients DEF Connections
<1>7. StampOnTheWay'
  BY <1>1 DEF StampOnTheWay, Server!TypeOK
<1>8. Server!Quitters' = Server!Quitters
  BY <1>1 DEF Server!Quitters
<1>9. Gone \subseteq Gone'
  BY <1>1, <1>8 DEF Gone, Server!TypeOK, Server!Quitters
<1>10. Live' \subseteq Live /\ (server = "pool" => Live' = Live)
  BY <1>1, <1>3 DEF Live, Server!TypeOK
<1>11. OnePerQuitter'
  <2>1. CASE server = "pool"
    BY <1>1, <1>8, <1>9, <1>10, <2>1, PoolGoesOn DEF OnePerQuitter, Server!TypeOK
  <2>2. CASE server # "pool"
    BY <1>1, <1>8, <1>10, <2>2, FS_Subset DEF OnePerQuitter
  <2>. QED
    BY <2>1, <2>2
<1>12. Deaths' /\ NobodyLeft'
  BY <1>1, <1>2, <1>3, <1>8, <1>10 DEF Deaths, NobodyLeft, Server!TypeOK, Roles
<1>. QED
  BY <1>4, <1>5, <1>6, <1>7, <1>11, <1>12

\* The concurrent server: the child takes the connection over.
LEMMA ForkKeepsServer ==
  ASSUME ServerInv, NEW k \in Children, Server!Fork(k)
  PROVE  ServerInv'
<1>. USE ProgramAssumption DEF ServerInv
<1>1. /\ proc[Main] = "fork" /\ proc[k] = "none" /\ k # Main
      /\ proc' = [proc EXCEPT ![Main] = "close", ![k] = "born"]
      /\ newsd' = [newsd EXCEPT ![k] = newsd[Main]]
      /\ UNCHANGED <<server, backlog, client, stamped, started, waited, failed>>
      /\ Queued' = Queued
  BY DEF Server!Fork, Server!netVars, Queued
<1>2. server = "concurrent" /\ newsd[Main] \in Clients
        /\ newsd[k] \notin Clients /\ newsd[k] \in Clients \cup {Nobody}
  BY <1>1 DEF Roles, Server!Processes, Server!TypeOK
<1>3. Main \in Server!Processes /\ k \in Server!Processes
  BY DEF Server!Processes
<1>4. Server!TypeOK'
  BY <1>1, <1>2 DEF Server!TypeOK
<1>5. /\ proc'[Main] = "close" /\ proc'[k] = "born"
      /\ \A r \in Server!Processes \ {Main, k} : proc'[r] = proc[r]
      /\ newsd'[k] = newsd[Main]
      /\ \A r \in Server!Processes \ {k} : newsd'[r] = newsd[r]
  BY <1>1, <1>3 DEF Server!TypeOK
<1>6. Roles'
  BY <1>1, <1>2, <1>5 DEF Roles, Server!Processes
<1>7. Connections'
  BY <1>1, <1>2, <1>3, <1>5 DEF Connections
<1>8. StampOnTheWay'
  <2>1. ASSUME NEW r \in Server!Processes, proc[r] \in {"fork", "born", "send"}
        PROVE  \E s \in Server!Processes :
                 newsd'[s] = newsd[r] /\ proc'[s] \in {"fork", "born", "send"}
    <3>1. CASE r = Main
      BY <1>3, <1>5, <3>1
    <3>2. CASE r # Main
      BY <1>1, <1>5, <2>1, <3>2
    <3>. QED
      BY <3>1, <3>2
  <2>2. \A c \in Clients :
          (\E r \in Server!Processes :
             newsd[r] = c /\ proc[r] \in {"fork", "born", "send"})
          => \E s \in Server!Processes :
               newsd'[s] = c /\ proc'[s] \in {"fork", "born", "send"}
    BY <2>1
  <2>3. UNCHANGED <<server, client, stamped, failed>> /\ Queued' = Queued
    BY <1>1
  <2>. QED
    BY <2>2, <2>3, Zenon DEF StampOnTheWay
<1>9. Live' = Live /\ Server!Quitters' = Server!Quitters
  BY <1>1, <1>5 DEF Live, Server!Processes, Server!Quitters
<1>10. OnePerQuitter' /\ Deaths' /\ NobodyLeft'
  BY <1>1, <1>2, <1>5, <1>9 DEF OnePerQuitter, Deaths, NobodyLeft
<1>. QED
  BY <1>4, <1>6, <1>7, <1>8, <1>10

\* exit of the parent when a fork fails, in the concurrent server or the pool,
\* and when the pool has been waited for.
LEMMA ParentExitKeepsServer ==
  ASSUME ServerInv,
         Server!ForkFails \/ Server!SpawnFails \/ Server!WaitDone
  PROVE  ServerInv'
<1>. USE ProgramAssumption DEF ServerInv
<1>1. /\ proc[Main] \in {"fork", "spawn", "wait"}
      /\ proc' = [proc EXCEPT ![Main] = "exited"]
      /\ newsd' = [newsd EXCEPT ![Main] = Nobody]
      /\ failed' \in {failed, failed \cup {"fork"}}
      /\ proc[Main] = "fork" => failed' = failed \cup {"fork"}
      /\ UNCHANGED <<server, backlog, client, stamped, started, waited>>
      /\ Queued' = Queued
  BY DEF Server!ForkFails, Server!SpawnFails, Server!WaitDone, Server!Exit,
     Server!Go, Server!netVars, Queued
<1>2. /\ server # "iterative"
      /\ proc[Main] = "fork" <=> server = "concurrent"
      /\ proc[Main] # "fork" => newsd[Main] \notin Clients
  BY <1>1 DEF Roles, Server!Processes, Server!TypeOK
<1>3. Main \in Server!Processes
  BY DEF Server!Processes
<1>4. /\ proc'[Main] = "exited"
      /\ \A r \in Server!Processes \ {Main} :
           proc'[r] = proc[r] /\ newsd'[r] = newsd[r]
      /\ newsd'[Main] = Nobody
  BY <1>1, <1>3 DEF Server!TypeOK
<1>5. Server!TypeOK'
  BY <1>1 DEF Server!TypeOK, Server!Dead
<1>6. Roles'
  BY <1>1, <1>2, <1>4 DEF Roles, Server!Processes
<1>7. Connections'
  BY <1>1, <1>3, <1>4, QueuedClients DEF Connections
<1>8. StampOnTheWay'
  BY <1>1, <1>2, <1>3, <1>4 DEF StampOnTheWay
<1>9. Live' = Live /\ Server!Quitters' = Server!Quitters
  BY <1>1, <1>4 DEF Live, Server!Processes, Server!Quitters
<1>10. Gone \subseteq Gone'
  BY <1>1, <1>4, <1>9 DEF Gone, Server!Quitters
<1>11. OnePerQuitter'
  BY <1>1, <1>9, <1>10, PoolGoesOn DEF OnePerQuitter, Server!TypeOK
<1>12. Deaths' /\ NobodyLeft'
  BY <1>1, <1>2, <1>4, <1>9 DEF Deaths, NobodyLeft
<1>. QED
  BY <1>5, <1>6, <1>7, <1>8, <1>11, <1>12

\* The pool: a process more.
LEMMA SpawnKeepsServer ==
  ASSUME ServerInv, NEW k \in Children, Server!Spawn(k)
  PROVE  ServerInv'
<1>. USE ProgramAssumption DEF ServerInv
<1>1. /\ proc[Main] = "spawn" /\ started < PROCNUM /\ proc[k] = "none"
      /\ k # Main
      /\ proc' = [proc EXCEPT ![k] = "accept"]
      /\ started' = started + 1
      /\ UNCHANGED <<server, backlog, client, stamped, newsd, waited, failed>>
      /\ Queued' = Queued
  BY DEF Server!Spawn, Server!Go, Server!netVars, Queued
<1>2. server = "pool"
  BY <1>1 DEF Roles, Server!TypeOK
<1>3. Main \in Server!Processes /\ k \in Server!Processes
  BY DEF Server!Processes
<1>4. /\ proc'[k] = "accept"
      /\ \A r \in Server!Processes \ {k} : proc'[r] = proc[r]
  BY <1>1, <1>3 DEF Server!TypeOK
<1>5. Server!TypeOK'
  <2>1. started' \in 0 .. PROCNUM /\ waited' \in 0 .. started'
    BY <1>1 DEF Server!TypeOK
  <2>2. proc' \in [Server!Processes -> Server!Dead \cup
                     {"accept", "send", "close", "fork", "born", "spawn", "wait"}]
    BY <1>1 DEF Server!TypeOK
  <2>. QED
    BY <1>1, <2>1, <2>2 DEF Server!TypeOK
<1>6. Roles' /\ Connections'
  BY <1>1, <1>2, <1>4 DEF Roles, Connections, Server!Processes
<1>7. StampOnTheWay'
  BY <1>1, <1>4 DEF StampOnTheWay
<1>8. /\ Live' = Live \cup {k} /\ k \notin Live
      /\ Server!Quitters' = Server!Quitters /\ Gone' = Gone
  BY <1>1, <1>4 DEF Live, Server!Processes, Server!Quitters, Gone
<1>9. IsFiniteSet(Live') /\ Cardinality(Live') = Cardinality(Live) + 1
        /\ Cardinality(Live) \in Nat
  BY <1>8, Grows DEF OnePerQuitter
<1>10. Cardinality(Gone) \in Nat
  BY Larger, Gone \subseteq Server!Quitters DEF OnePerQuitter, Gone
<1>11. OnePerQuitter'
  BY <1>1, <1>8, <1>9, <1>10 DEF OnePerQuitter, Server!TypeOK
<1>12. Deaths' /\ NobodyLeft'
  BY <1>1, <1>2, <1>3, <1>4, <1>8 DEF Deaths, NobodyLeft
<1>. QED
  BY <1>5, <1>6, <1>7, <1>11, <1>12

\* Steps that only move one process: the child of the concurrent server closes
\* the listening socket; the pool's parent goes on to wait, and waits.
LEMMA MoveKeepsServer ==
  ASSUME ServerInv,
         \/ Server!SpawnDone
         \/ \E k \in Children : Server!CloseListening(k) \/ Server!Wait(k)
  PROVE  ServerInv'
<1>. USE ProgramAssumption DEF ServerInv
<1>1. PICK q \in Server!Processes, pc \in {"send", "wait", "none"} :
        /\ proc' = [proc EXCEPT ![q] = pc]
        /\ UNCHANGED <<server, backlog, client, stamped, newsd, started, failed>>
        /\ \/ /\ q = Main /\ pc = "wait" /\ proc[q] = "spawn"
              /\ started = PROCNUM /\ waited' = waited
           \/ /\ q \in Children /\ pc = "send" /\ proc[q] = "born"
              /\ server = "concurrent" /\ waited' = waited
           \/ /\ q \in Children /\ pc = "none" /\ proc[q] = "zombie"
              /\ proc[Main] = "wait" /\ waited < PROCNUM /\ waited' = waited + 1
  <2>1. CASE Server!SpawnDone
    BY <2>1 DEF Server!SpawnDone, Server!Go, Server!netVars, Server!Processes
  <2>2. ASSUME NEW k \in Children, Server!CloseListening(k)
        PROVE  proc[k] = "born" /\ proc' = [proc EXCEPT ![k] = "send"]
                 /\ server = "concurrent"
                 /\ UNCHANGED <<server, backlog, client, stamped, newsd, started,
                                waited, failed>>
    BY <2>2 DEF Server!CloseListening, Server!Go, Server!netVars
  <2>3. ASSUME NEW k \in Children, Server!Wait(k)
        PROVE  proc[k] = "zombie" /\ proc' = [proc EXCEPT ![k] = "none"]
                 /\ proc[Main] = "wait" /\ waited < PROCNUM
                 /\ waited' = waited + 1
                 /\ UNCHANGED <<server, backlog, client, stamped, newsd, started,
                                failed>>
    BY <2>3 DEF Server!Wait, Server!Go, Server!netVars
  <2>4. Children \subseteq Server!Processes
    BY DEF Server!Processes
  <2>. QED
    BY <2>1, <2>2, <2>3, <2>4
<1>2. /\ proc'[q] = pc
      /\ \A r \in Server!Processes \ {q} : proc'[r] = proc[r]
      /\ Queued' = Queued
  BY <1>1 DEF Server!TypeOK, Queued
<1>3. Main \in Server!Processes /\ q \in Children => q # Main
  BY DEF Server!Processes
<1>4. proc[Main] = "wait" => started = PROCNUM
  BY DEF Roles
<1>5. Server!TypeOK'
  <2>1. proc' \in [Server!Processes -> Server!Dead \cup
                     {"accept", "send", "close", "fork", "born", "spawn", "wait"}]
    BY <1>1 DEF Server!TypeOK, Server!Dead
  <2>2. waited' \in 0 .. started'
    BY <1>1, <1>4 DEF Server!TypeOK
  <2>. QED
    BY <1>1, <2>1, <2>2 DEF Server!TypeOK
<1>6. Roles'
  BY <1>1, <1>2, <1>3 DEF Roles, Server!Processes
<1>7. Connections'
  BY <1>1, <1>2 DEF Connections
<1>8. StampOnTheWay'
  BY <1>1, <1>2 DEF StampOnTheWay
<1>9. /\ Server!Quitters' = Server!Quitters /\ Gone' = Gone
      /\ server = "pool" => Live' = Live
  BY <1>1, <1>2, <1>3 DEF Server!Quitters, Gone, Live, Server!Processes
<1>10. IsFiniteSet(Live')
  <2>1. Live' \subseteq Live \cup {q}
    BY <1>2 DEF Live, Server!Processes
  <2>. QED
    BY <2>1, Larger, FS_AddElement DEF OnePerQuitter
<1>11. OnePerQuitter'
  BY <1>1, <1>9, <1>10 DEF OnePerQuitter
<1>12. Deaths' /\ NobodyLeft'
  BY <1>1, <1>2, <1>3, <1>9 DEF Deaths, NobodyLeft
<1>. QED
  BY <1>5, <1>6, <1>7, <1>8, <1>11, <1>12

LEMMA ServerStep == ServerInv /\ [ProgramsNext]_all => ServerInv'
<1>. SUFFICES ASSUME ServerInv, Server!Next \/ UNCHANGED serverVars
              PROVE  ServerInv'
  BY DEF ProgramsNext, Free, Prog, Show, Count, Serve, all
<1>1. ASSUME NEW q \in Server!Processes, Server!Serving(q)
      PROVE  ServerInv'
  BY <1>1, AcceptKeepsServer, DeathKeepsServer, SendKeepsServer,
     CloseKeepsServer DEF Server!Serving
<1>2. Main \in Server!Processes /\ Children \subseteq Server!Processes
  BY DEF Server!Processes
<1>3. CASE Server!ParentSteps
  BY <1>1, <1>2, <1>3, ForkKeepsServer, ParentExitKeepsServer,
     SpawnKeepsServer, MoveKeepsServer DEF Server!ParentSteps
<1>4. ASSUME NEW k \in Children, Server!ChildSteps(k)
      PROVE  ServerInv'
  BY <1>1, <1>2, <1>4, MoveKeepsServer DEF Server!ChildSteps
<1>5. CASE UNCHANGED serverVars
  BY <1>5 DEF serverVars, ServerInv, Server!TypeOK, Roles, Connections, Queued,
     StampOnTheWay, Deaths, OnePerQuitter, Live, Gone, Server!Quitters,
     NobodyLeft
<1>. QED
  BY <1>3, <1>4, <1>5, ClientKeepsServer DEF Server!Next

LEMMA ServerImplies == ServerInv => Server!TypeOK /\ Server!TurnedAway
<1>. SUFFICES ASSUME ServerInv, NEW c \in Clients, client[c] = "bad"
              PROVE  /\ server = "iterative" => Server!Quitters # {}
                     /\ server = "concurrent" =>
                          failed \cap {"fork", "accept"} # {}
                     /\ server = "pool" =>
                          Cardinality(Server!Quitters) >= started
  BY ServerCount DEF ServerInv, Server!TurnedAway
<1>1. ASSUME server = "pool"
      PROVE  Cardinality(Server!Quitters) >= started
  <2>1. Cardinality(Live) = 0
    BY <1>1, FS_EmptySet DEF ServerInv, NobodyLeft
  <2>2. Cardinality(Gone) <= Cardinality(Server!Quitters)
          /\ Cardinality(Gone) \in Nat /\ Cardinality(Server!Quitters) \in Nat
    BY Larger, Gone \subseteq Server!Quitters DEF ServerInv, OnePerQuitter, Gone
  <2>. QED
    BY <1>1, <2>1, <2>2 DEF ServerInv, OnePerQuitter, Server!TypeOK
<1>. QED
  BY <1>1 DEF ServerInv, NobodyLeft, Deaths

-----------------------------------------------------------------------------
(* All programs.                                                           *)

ProgramsInv ==
  /\ program = "threads" => SemInv
  /\ program = "primes" => PrimesInv
  /\ TurnsInv /\ CounterInv /\ ServerInv

LEMMA ProgramsStart == ProgramsInit => ProgramsInv
BY SemInit, PrimesInit, TurnsInit, CounterInit, ServerInit
   DEF ProgramsInit, ProgramsInv

LEMMA ProgramsStep == ProgramsInv /\ [ProgramsNext]_all => ProgramsInv'
<1>. SUFFICES ASSUME ProgramsInv, [ProgramsNext]_all PROVE ProgramsInv'
  OBVIOUS
<1>1. program' = program
  BY DEF ProgramsNext, Free, Prog, Show, Count, Serve, all
<1>2. ASSUME program = "threads" PROVE SemInv'
  <2>1. [Next]_vars
    BY <1>2 DEF ProgramsNext, Free, Prog, Show, Count, Serve, all, Turning,
       vars, users
  <2>. QED
    BY <1>2, <2>1, SemStep DEF ProgramsInv
<1>3. ASSUME program = "primes" PROVE PrimesInv'
  <2>1. Primes!Next \/ UNCHANGED <<semVars, primeVars>>
    BY <1>3 DEF ProgramsNext, Free, Prog, Show, Count, Serve, all, Turning
  <2>. QED
    BY <1>3, <2>1, PrimesStep DEF ProgramsInv
<1>4. TurnsInv' /\ CounterInv' /\ ServerInv'
  BY TurnsStep, CounterStep, ServerStep DEF ProgramsInv
<1>. QED
  BY <1>1, <1>2, <1>3, <1>4 DEF ProgramsInv

\* The inductive invariant of the programs, one of which runs.
THEOREM ProgramsInvariant == ProgramsSpec => []ProgramsInv
<1>1. ProgramsSpec => ProgramsInit /\ [][ProgramsNext]_all
  BY PTL DEF ProgramsSpec
<1>. QED
  BY <1>1, ProgramsStart, ProgramsStep, PTL

LEMMA ProgramsImplies ==
  ProgramsInv => /\ ProgramsTypeOK /\ NoneStalled /\ CleanEnd
                 /\ Counted /\ TurnedAway
<1>. SUFFICES ASSUME ProgramsInv
              PROVE  ProgramsTypeOK /\ NoneStalled /\ CleanEnd /\ Counted
                       /\ TurnedAway
  OBVIOUS
<1>1. program = "threads" => TypeOK /\ NeverStalled
  BY SemImplies DEF ProgramsInv
<1>2. program = "primes" => Primes!TypeOK /\ Primes!Units /\ Primes!CleanEnd
                              /\ Primes!Sem!NeverStalled
  BY PrimesImplies DEF ProgramsInv
<1>3. program \in Turning => Letters!TypeOK
  BY DEF ProgramsInv, TurnsInv
<1>4. Counters!TypeOK /\ Counters!Counted
  BY CounterImplies DEF ProgramsInv
<1>5. Server!TypeOK /\ Server!TurnedAway
  BY ServerImplies DEF ProgramsInv
<1>. QED
  BY <1>1, <1>2, <1>3, <1>4, <1>5, Zenon
     DEF ProgramsTypeOK, NoneStalled, CleanEnd, Counted, TurnedAway

\* The types of all programs: the semaphore never holds more units than it
\* began with, no number in the file exceeds the adders, and the pool's parent
\* never waits for more processes than it has started.
THEOREM ProgramsTypeCorrect == ProgramsSpec => []ProgramsTypeOK
BY ProgramsInvariant, ProgramsImplies, PTL

\* Nobody sleeps in mysem_sub through units that are enough for it: no thread
\* of the ones that take any number of units, nor main of mysem/main.c.
THEOREM ProgramsNoneStalled == ProgramsSpec => []NoneStalled
BY ProgramsInvariant, ProgramsImplies, PTL

\* mysem/main.c: a unit of the semaphore is left, with main, or with the one
\* thread that works on it; when main destroys the semaphore nobody uses it any
\* more, and trial division up to the half has printed exactly the primes.
THEOREM ProgramsCleanEnd == ProgramsSpec => []CleanEnd
BY ProgramsInvariant, ProgramsImplies, PTL

\* No addition to the file is lost under the mutex, lockf or the semaphore, for
\* any number of adders, although lockf unlocks less than it has locked; the
\* program without a lock counts at least one.
THEOREM ProgramsCounted == ProgramsSpec => []Counted
BY ProgramsInvariant, ProgramsImplies, PTL

\* A client without a stamp: some client has quit (iterative server), a fork
\* or an accept has failed (concurrent), or as many clients have quit as the
\* pool had processes.
THEOREM ProgramsTurnedAway == ProgramsSpec => []TurnedAway
BY ProgramsInvariant, ProgramsImplies, PTL

\* The letters of abcd and abcd_cond come in turn, for any number of threads.
THEOREM ProgramsLettersInTurn == ProgramsSpec => LettersInTurn
<1>1. ProgramsInv /\ [ProgramsNext]_all =>
        [\A n \in Letters!Letters :
           Letters!Write(n) \/ Letters!Turn(n) =>
             n = Letters!next(last)]_(Letters!turnVars)
  BY TurnsStep DEF ProgramsInv
<1>2. ProgramsSpec => [][ProgramsNext]_all
  BY PTL DEF ProgramsSpec
<1>. QED
  BY <1>1, <1>2, ProgramsInvariant, PTL DEF LettersInTurn, Letters!InTurn
=============================================================================
