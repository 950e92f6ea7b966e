---------------------------- MODULE PrimePoolBusy ----------------------------
(***************************************************************************)
(* primer_1_pool.c (primer_1_pool_busy.c is the same program): main hands  *)
(* the numbers MIN..MAX to worker threads through the variable `num` (0:   *)
(* empty, -1: no more work).  Whoever finds the slot in the wrong state    *)
(* unlocks the mutex, yields and locks it again.                           *)
(***************************************************************************)
EXTENDS PrimePool

CONSTANT
  NoOne          \* the owner of a free mutex

VARIABLES
  owner       \* the thread that holds mux_num

vars == <<num, owner, mainPC, next, workerPC, job, printed>>

Init == PoolInit /\ owner = NoOne

-----------------------------------------------------------------------------
WantsLock(t) ==
  IF t = Main THEN mainPC \in {"put", "end"} ELSE workerPC[t] = "take"

\* pthread_mutex_lock(&mux_num)
Lock(t) ==
  /\ owner = NoOne
  /\ WantsLock(t)
  /\ owner' = t
  /\ UNCHANGED <<num, mainPC, next, workerPC, job, printed>>

Unlock(t) == owner = t /\ owner' = NoOne

\* Unlock, sched_yield: the slot is not in the state the thread waits for.
MainYield ==
  /\ Unlock(Main)
  /\ num # Empty
  /\ UNCHANGED <<num, mainPC, next, workerPC, job, printed>>

\* Mutant: the loop runs one number too far.
PutOneMore ==
  /\ Unlock(Main)
  /\ mainPC = "put"
  /\ num = Empty
  /\ num' = next
  /\ next' = next + 1
  /\ mainPC' = IF next > MAX THEN "end" ELSE "put"
  /\ UNCHANGED <<workerPC, job, printed>>

Put ==
  /\ Unlock(Main)
  /\ mainPC = "put"
  /\ num = Empty
  /\ num' = next
  /\ next' = next + 1
  /\ mainPC' = IF next = MAX THEN "end" ELSE "put"
  /\ UNCHANGED <<workerPC, job, printed>>

\* Mutant: main announces the end without waiting for the slot to empty.
EndEarly ==
  /\ Unlock(Main)
  /\ mainPC = "end"
  /\ num' = NoMore
  /\ mainPC' = "join"
  /\ UNCHANGED <<next, workerPC, job, printed>>

End ==
  /\ Unlock(Main)
  /\ mainPC = "end"
  /\ num = Empty
  /\ num' = NoMore
  /\ mainPC' = "join"
  /\ UNCHANGED <<next, workerPC, job, printed>>

Join == JoinWorkers /\ UNCHANGED owner

WorkerYield(w) ==
  /\ Unlock(w)
  /\ num = Empty
  /\ UNCHANGED <<num, mainPC, next, workerPC, job, printed>>

\* Mutant: the branch leaves the loop without the unlock its comment asks for.
LeaveLocked(w) ==
  /\ owner = w
  /\ workerPC[w] = "take"
  /\ num = NoMore
  /\ workerPC' = [workerPC EXCEPT ![w] = "exited"]
  /\ UNCHANGED <<num, owner, mainPC, next, job, printed>>

Leave(w) ==
  /\ Unlock(w)
  /\ num = NoMore
  /\ workerPC' = [workerPC EXCEPT ![w] = "exited"]
  /\ UNCHANGED <<num, mainPC, next, job, printed>>

\* Mutant: the slot is copied after the unlock, and emptied by its copier.
TakeUnlocked(w) ==
  /\ workerPC[w] = "take"
  /\ owner # w
  /\ num \notin {Empty, NoMore}
  /\ job' = [job EXCEPT ![w] = num]
  /\ workerPC' = [workerPC EXCEPT ![w] = "test"]
  /\ UNCHANGED <<num, owner, mainPC, next, printed>>

Take(w) ==
  /\ Unlock(w)
  /\ num \notin {Empty, NoMore}
  /\ job' = [job EXCEPT ![w] = num]
  /\ num' = Empty
  /\ workerPC' = [workerPC EXCEPT ![w] = "test"]
  /\ UNCHANGED <<mainPC, next, printed>>

Test(w) == TestNumber(w) /\ UNCHANGED owner

\* What a thread does without waiting for another.
MainRuns == MainYield \/ Put \/ End \/ Join
WorkerRuns(w) == WorkerYield(w) \/ Leave(w) \/ Take(w) \/ Test(w)

Next ==
  \/ MainRuns
  \/ \E w \in Workers : WorkerRuns(w)
  \/ \E t \in Threads : Lock(t)

Spec == Init /\ [][Next]_vars

\* Threads run, and sched_yield really lets others in: a thread that finds the
\* mutex free again and again gets it in the end (a mutex alone does not
\* promise that).
FairSpec ==
  /\ Spec
  /\ WF_vars(MainRuns)
  /\ \A w \in Workers : WF_vars(WorkerRuns(w))
  /\ \A t \in Threads : SF_vars(Lock(t))

-----------------------------------------------------------------------------
\* The slot is in the state the thread waits for: with the mutex in its hands
\* the thread would not yield again.
HasWork(t) ==
  IF t = Main
    THEN \/ mainPC \in {"put", "end"} /\ num = Empty
         \/ mainPC = "join" /\ \A w \in Workers : workerPC[w] = "exited"
    ELSE workerPC[t] = "test" \/ (workerPC[t] = "take" /\ num # Empty)

\* Nobody spins for nothing: until the end the mutex is free or held by a thread
\* in its critical section, which unlocks it, whichever way it leaves the loop;
\* and some thread has more to do than to unlock and to look again.
NeverStalled ==
  mainPC # "destroyed" =>
    /\ owner # NoOne => WantsLock(owner)
    /\ \E t \in Threads : HasWork(t)
=============================================================================
