-------------------------------- MODULE Turns --------------------------------
(***************************************************************************)
(* abcd.c and abcd_cond.c: THRNUM threads print their letters in turn until*)
(* an alarm ends the process.  abcd has one mutex per thread, all locked by*)
(* main; each thread locks its own and unlocks the next one's.  abcd_cond  *)
(* has the number of the thread whose turn it is, a mutex and a condition  *)
(* variable.  The alarm is left out: it ends the process between any two   *)
(* steps.                                                                  *)
(***************************************************************************)
EXTENDS Integers

CONSTANT THRNUM

Letters == 0 .. THRNUM - 1

VARIABLES
  program,   \* "abcd" or "abcd_cond"
  created,   \* threads main has created; THRNUM + 1 when it has started them
  locked,    \* abcd: the mutexes that are locked
  num,       \* abcd_cond: whose turn it is
  asleep,    \* abcd_cond: threads in pthread_cond_wait
  letterPC,  \* "lock" (also after the wait), "write", "unlock"
  last       \* the last letter printed, THRNUM - 1 before the first

turnVars == <<created, locked, num, asleep, letterPC, last>>
vars == <<program, turnVars>>

Init ==
  /\ created = 0
  /\ locked = {}
  /\ num = 0
  /\ asleep = {}
  /\ letterPC = [k \in Letters |-> "lock"]
  /\ last = THRNUM - 1

\* The thread after n.
next(n) == IF n + 1 = THRNUM THEN 0 ELSE n + 1

-----------------------------------------------------------------------------
(* main *)

\* Mutant: the mutex is locked after its thread has been created.
CreateUnlocked ==
  /\ created < THRNUM
  /\ created' = created + 1
  /\ locked' = IF program = "abcd" /\ created > 0 THEN locked \cup {created - 1}
                                                  ELSE locked
  /\ UNCHANGED <<num, asleep, letterPC, last>>

\* One round of the loop: in abcd the mutex is initialised and locked before
\* its thread exists.
Create ==
  /\ created < THRNUM
  /\ created' = created + 1
  /\ locked' = IF program = "abcd" THEN locked \cup {created} ELSE locked
  /\ UNCHANGED <<num, asleep, letterPC, last>>

\* alarm(5), and in abcd the mutex of the first thread is unlocked.
Start ==
  /\ created = THRNUM
  /\ created' = created + 1
  /\ locked' = locked \ {0}
  /\ UNCHANGED <<num, asleep, letterPC, last>>

-----------------------------------------------------------------------------
(* The threads of abcd. *)

Lock(n) ==
  /\ letterPC[n] = "lock" /\ n < created
  /\ n \notin locked
  /\ locked' = locked \cup {n}
  /\ letterPC' = [letterPC EXCEPT ![n] = "write"]
  /\ UNCHANGED <<created, num, asleep, last>>

Write(n) ==
  /\ letterPC[n] = "write"
  /\ last' = n
  /\ letterPC' = [letterPC EXCEPT ![n] = "unlock"]
  /\ UNCHANGED <<created, locked, num, asleep>>

\* The mutex that is unlocked is one that main or another thread has locked:
\* glibc's default mutex has no owner to check and is simply free.
Unlock(n) ==
  /\ letterPC[n] = "unlock"
  /\ locked' = locked \ {next(n)}
  /\ letterPC' = [letterPC EXCEPT ![n] = "lock"]
  /\ UNCHANGED <<created, num, asleep, last>>

-----------------------------------------------------------------------------
(* The threads of abcd_cond; a critical section is one step. *)

Wait(n) ==
  /\ n < created /\ n \notin asleep
  /\ num # n
  /\ asleep' = asleep \cup {n}
  /\ UNCHANGED <<created, locked, num, letterPC, last>>

SpuriousWakeup ==
  /\ \E n \in asleep : asleep' = asleep \ {n}
  /\ UNCHANGED <<created, locked, num, letterPC, last>>

\* Mutant: signal instead of broadcast.
SignalOne == IF asleep = {} THEN UNCHANGED asleep
                            ELSE \E t \in asleep : asleep' = asleep \ {t}

Broadcast == asleep' = {}

Turn(n) ==
  /\ n < created /\ n \notin asleep
  /\ num = n
  /\ last' = n
  /\ num' = next(num)
  /\ Broadcast
  /\ UNCHANGED <<created, locked, letterPC>>

Letter(n) ==
  \/ program = "abcd" /\ (Lock(n) \/ Write(n) \/ Unlock(n))
  \/ program = "abcd_cond" /\ (Wait(n) \/ Turn(n))

MainSteps == Create \/ Start

Next ==
  /\ UNCHANGED program
  /\ \/ MainSteps
     \/ \E n \in Letters : Letter(n)
     \/ program = "abcd_cond" /\ SpuriousWakeup

-----------------------------------------------------------------------------
TypeOK ==
  /\ created \in 0 .. THRNUM + 1
  /\ locked \subseteq Letters
  /\ num \in Letters
  /\ asleep \subseteq Letters
  /\ letterPC \in [Letters -> {"lock", "write", "unlock"}]
  /\ last \in Letters

\* The letters come in turn from the first one on, although in abcd threads run
\* while main still locks mutexes and every mutex is unlocked by a thread that
\* did not lock it.
InTurn ==
  [][\A n \in Letters : Write(n) \/ Turn(n) => n = next(last)]_turnVars

\* Every letter is followed by the next one.
TurnsGoOn == \A n \in Letters : last = n ~> last = next(n)
=============================================================================
