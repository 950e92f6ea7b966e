---------------------------- MODULE PrimePoolCond ----------------------------
(***************************************************************************)
(* primer_1_pool_cond.c: main hands the numbers MIN..MAX to worker threads *)
(* through the single variable `num` (0: empty, -1: no more work), guarded *)
(* by one mutex and one condition variable on which main waits for "empty" *)
(* and the workers for "not empty".                                        *)
(*                                                                         *)
(* num is only touched between lock and unlock, so a critical section (from*)
(* the lock, or the return of pthread_cond_wait, to the unlock or the next *)
(* wait) is one step.                                                      *)
(***************************************************************************)
EXTENDS PrimePool

VARIABLES
  waitSet     \* threads blocked in pthread_cond_wait(&cond_num, &mut_num)

vars == <<num, waitSet, mainPC, next, workerPC, job, printed>>

Init == PoolInit /\ waitSet = {}

-----------------------------------------------------------------------------
Signal == IF waitSet = {} THEN UNCHANGED waitSet
                          ELSE \E t \in waitSet : waitSet' = waitSet \ {t}

\* Mutant: pthread_cond_signal where the code has broadcast: a worker that
\* empties the slot may wake another worker while main sleeps on.
BroadcastOne == Signal

Broadcast == waitSet' = {}

Wait(t) == waitSet' = waitSet \cup {t}

\* POSIX allows pthread_cond_wait to return without a signal.
SpuriousWakeup ==
  /\ \E t \in waitSet : waitSet' = waitSet \ {t}
  /\ UNCHANGED <<num, mainPC, next, workerPC, job, printed>>

-----------------------------------------------------------------------------
(* main *)

MainWait ==
  /\ Main \notin waitSet
  /\ mainPC \in {"put", "end"}
  /\ num # Empty
  /\ Wait(Main)
  /\ UNCHANGED <<num, mainPC, next, workerPC, job, printed>>

\* Mutant: the loop runs one number too far.
PutOneMore ==
  /\ Main \notin waitSet
  /\ mainPC = "put"
  /\ num = Empty
  /\ num' = next
  /\ next' = next + 1
  /\ mainPC' = IF next > MAX THEN "end" ELSE "put"
  /\ Signal
  /\ UNCHANGED <<workerPC, job, printed>>

Put ==
  /\ Main \notin waitSet
  /\ mainPC = "put"
  /\ num = Empty
  /\ num' = next
  /\ next' = next + 1
  /\ mainPC' = IF next = MAX THEN "end" ELSE "put"
  /\ Signal
  /\ UNCHANGED <<workerPC, job, printed>>

\* Mutant: main announces the end without waiting for the slot to empty.
EndEarly ==
  /\ Main \notin waitSet
  /\ mainPC = "end"
  /\ num' = NoMore
  /\ mainPC' = "join"
  /\ Broadcast
  /\ UNCHANGED <<next, workerPC, job, printed>>

End ==
  /\ Main \notin waitSet
  /\ mainPC = "end"
  /\ num = Empty
  /\ num' = NoMore
  /\ mainPC' = "join"
  /\ Broadcast
  /\ UNCHANGED <<next, workerPC, job, printed>>

Join == JoinWorkers /\ UNCHANGED waitSet

MainStep == MainWait \/ Put \/ End \/ Join

-----------------------------------------------------------------------------
(* func(w) *)

TakeWait(w) ==
  /\ w \notin waitSet
  /\ workerPC[w] = "take"
  /\ num = Empty
  /\ Wait(w)
  /\ UNCHANGED <<num, mainPC, next, workerPC, job, printed>>

Leave(w) ==
  /\ w \notin waitSet
  /\ workerPC[w] = "take"
  /\ num = NoMore
  /\ workerPC' = [workerPC EXCEPT ![w] = "exited"]
  /\ UNCHANGED <<num, waitSet, mainPC, next, job, printed>>

Take(w) ==
  /\ w \notin waitSet
  /\ workerPC[w] = "take"
  /\ num \notin {Empty, NoMore}
  /\ job' = [job EXCEPT ![w] = num]
  /\ num' = Empty
  /\ workerPC' = [workerPC EXCEPT ![w] = "test"]
  /\ Broadcast
  /\ UNCHANGED <<mainPC, next, printed>>

Test(w) == TestNumber(w) /\ UNCHANGED waitSet

Worker(w) == TakeWait(w) \/ Leave(w) \/ Take(w) \/ Test(w)

Next == MainStep \/ SpuriousWakeup \/ \E w \in Workers : Worker(w)

Spec == Init /\ [][Next]_vars

\* A thread that is not blocked in the wait gets the mutex eventually and runs.
FairSpec == Spec /\ WF_vars(MainStep) /\ \A w \in Workers : WF_vars(Worker(w))

-----------------------------------------------------------------------------
TypeOK ==
  /\ num \in Numbers \cup {Empty, NoMore}
  /\ waitSet \subseteq Threads
  /\ mainPC \in {"put", "end", "join", "destroyed"}
  /\ next \in MIN .. MAX + 1
  /\ workerPC \in [Workers -> {"take", "test", "exited"}]
  /\ job \in [Workers -> Numbers \cup {Empty}]
  /\ printed \subseteq Numbers

\* Could the thread go on if no spurious wake-up ever came?
Runnable(t) ==
  IF t = Main
    THEN \/ mainPC \in {"put", "end"} /\ Main \notin waitSet
         \/ mainPC = "join" /\ \A w \in Workers : workerPC[w] = "exited"
    ELSE workerPC[t] # "exited" /\ t \notin waitSet

\* One condition variable serves two conditions, and main signals only one
\* thread: still, until the end some thread can run.
NeverStalled == mainPC # "destroyed" => \E t \in Threads : Runnable(t)
=============================================================================
