---------------------------- MODULE SharedCounter ----------------------------
(***************************************************************************)
(* A number in a file that threads or processes add one to: conflict.c     *)
(* (no lock), mutex.c, add.c (lockf) and add_semarr.c (a semaphore).  What *)
(* they print into the file reaches it when the stream is flushed or       *)
(* closed.                                                                 *)
(***************************************************************************)
EXTENDS Integers, FiniteSets

CONSTANTS
  Adders,    \* the TRUNCSIZE threads or PROCNUM processes
  Nobody     \* the owner of a free lock

\* The lock a program takes, whether it flushes before it unlocks, and whether
\* closing the file comes after the unlocking and releases the lock.
conflict   == [lock |-> FALSE, flush |-> FALSE, closeUnlocks |-> FALSE]
mutex      == [lock |-> TRUE,  flush |-> FALSE, closeUnlocks |-> FALSE]
add_semarr == [lock |-> TRUE,  flush |-> TRUE,  closeUnlocks |-> FALSE]

\* lockf locks and unlocks from the offset of the file to its end.  The number
\* has moved the offset when the file is unlocked: the bytes of the number stay
\* locked until the file is closed.
add        == [lock |-> TRUE,  flush |-> TRUE,  closeUnlocks |-> TRUE]

VARIABLES
  counter,   \* the program: conflict, mutex, add or add_semarr
  file,      \* the number in the file
  holder,    \* who holds the lock
  adderPC,   \* "lock", "read", "flush" or "write", "unlock", "close", "done"
  line,      \* the number an adder has read, plus one: its buffer
  joined     \* main has waited for all of them

vars == <<counter, file, holder, adderPC, line, joined>>

Init ==
  /\ counter \in {conflict, mutex, add, add_semarr}
  /\ file = 0
  /\ holder = Nobody
  /\ adderPC = [a \in Adders |-> "lock"]
  /\ line = [a \in Adders |-> 0]
  /\ joined = FALSE

Goto(a, from, to) ==
  /\ adderPC[a] = from
  /\ adderPC' = [adderPC EXCEPT ![a] = to]

-----------------------------------------------------------------------------
\* fopen, then pthread_mutex_lock, lockf or P.
Lock(a) ==
  /\ Goto(a, "lock", "read")
  /\ IF counter.lock THEN holder = Nobody /\ holder' = a ELSE UNCHANGED holder
  /\ UNCHANGED <<counter, file, line, joined>>

\* fgets, and fprintf into the buffer after the second of sleep.
Read(a) ==
  /\ Goto(a, "read", IF counter.flush THEN "flush"
                     ELSE IF counter.lock THEN "write" ELSE "close")
  /\ line' = [line EXCEPT ![a] = file + 1]
  /\ UNCHANGED <<counter, file, holder, joined>>

\* Mutant: fprintf alone, the stream is flushed when it is closed.
FlushLate(a) ==
  /\ Goto(a, "flush", "unlock")
  /\ UNCHANGED <<counter, file, line, holder, joined>>

\* fflush
Flush(a) ==
  /\ Goto(a, "flush", "unlock")
  /\ file' = line[a]
  /\ line' = [line EXCEPT ![a] = 0]
  /\ UNCHANGED <<counter, holder, joined>>

\* mutex.c: fclose under the mutex.
CloseLocked(a) ==
  /\ Goto(a, "write", "unlock")
  /\ file' = line[a]
  /\ line' = [line EXCEPT ![a] = 0]
  /\ UNCHANGED <<counter, holder, joined>>

\* pthread_mutex_unlock, lockf or V.
Unlock(a) ==
  /\ Goto(a, "unlock", IF counter.flush THEN "close" ELSE "done")
  /\ holder' = IF counter.closeUnlocks THEN holder ELSE Nobody
  /\ UNCHANGED <<counter, file, line, joined>>

\* fclose: what is still in the buffer is written.
Close(a) ==
  /\ Goto(a, "close", "done")
  /\ file' = IF line[a] = 0 THEN file ELSE line[a]
  /\ line' = [line EXCEPT ![a] = 0]
  /\ holder' = IF counter.closeUnlocks THEN Nobody ELSE holder
  /\ UNCHANGED <<counter, joined>>

Add(a) ==
  Lock(a) \/ Read(a) \/ Flush(a) \/ CloseLocked(a) \/ Unlock(a) \/ Close(a)

\* The joins or waits.
Join ==
  /\ ~joined
  /\ \A a \in Adders : adderPC[a] = "done"
  /\ joined' = TRUE
  /\ UNCHANGED <<counter, file, holder, adderPC, line>>

Next == Join \/ \E a \in Adders : Add(a)

-----------------------------------------------------------------------------
TypeOK ==
  /\ counter \in {conflict, mutex, add, add_semarr}
  /\ file \in 0 .. Cardinality(Adders)
  /\ holder \in Adders \cup {Nobody}
  /\ adderPC \in [Adders -> {"lock", "read", "flush", "write", "unlock",
                             "close", "done"}]
  /\ line \in [Adders -> 0 .. Cardinality(Adders)]
  /\ joined \in BOOLEAN

\* No addition is lost under any of the three locks, not even by lockf, which
\* unlocks less than it locks; without a lock at least one addition survives.
Counted ==
  joined => IF counter.lock THEN file = Cardinality(Adders) ELSE file > 0
=============================================================================
