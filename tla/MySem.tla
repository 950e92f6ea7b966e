-------------------------------- MODULE MySem --------------------------------
(***************************************************************************)
(* The counting semaphore mysem/mysem.c: a value, a mutex and a condition  *)
(* variable.  A thread subtracts as many units as it needs in one go, or   *)
(* waits; adding units wakes every waiter, since one addition may serve    *)
(* several of them, or only the one that needs least.  Both critical       *)
(* sections are one step: the mutex is only given up in the wait.          *)
(***************************************************************************)
EXTENDS Integers, FiniteSets

CONSTANTS
  Threads,   \* threads that use the semaphore
  N,         \* its initial value
  MaxUnits   \* bound: units a thread takes in one call

ASSUME SemAssumption == N \in Nat /\ MaxUnits \in Nat \ {0}

VARIABLES
  value,     \* me->value
  asleep,    \* threads in pthread_cond_wait
  need,      \* the n of the call a thread is in, else 0
  held       \* units a thread has taken and not given back

semVars == <<value, asleep>>
vars == <<semVars, need, held>>

Init ==
  /\ value = N
  /\ asleep = {}
  /\ need = [t \in Threads |-> 0]
  /\ held = [t \in Threads |-> 0]

-----------------------------------------------------------------------------
(* The operations of mysem.c. *)

\* The loop of mysem_sub when there is too little: pthread_cond_wait.
SubWaits(t, n) ==
  /\ t \notin asleep
  /\ value < n
  /\ asleep' = asleep \cup {t}
  /\ UNCHANGED value

\* The loop of mysem_sub left, and the subtraction.
SubTakes(t, n) ==
  /\ t \notin asleep
  /\ value >= n
  /\ value' = value - n
  /\ UNCHANGED asleep

\* Mutant: signal instead of broadcast.
AddSignals(n) ==
  /\ value' = value + n
  /\ IF asleep = {} THEN UNCHANGED asleep
                    ELSE \E t \in asleep : asleep' = asleep \ {t}

\* mysem_add
mysem_add(n) == value' = value + n /\ asleep' = {}

SpuriousWakeup == \E t \in asleep : asleep' = asleep \ {t} /\ UNCHANGED value

-----------------------------------------------------------------------------
(* Threads that take units, and give back what they took. *)

Ask(t) ==
  /\ need[t] = 0 /\ held[t] = 0
  /\ \E n \in 1 .. MaxUnits : need' = [need EXCEPT ![t] = n]
  /\ UNCHANGED <<semVars, held>>

Wait(t) ==
  /\ need[t] > 0
  /\ SubWaits(t, need[t])
  /\ UNCHANGED <<need, held>>

\* Mutant: a woken thread does not test the value again.
TakeUntested(t) ==
  /\ need[t] > 0
  /\ t \notin asleep
  /\ value' = value - need[t]
  /\ held' = [held EXCEPT ![t] = need[t]]
  /\ need' = [need EXCEPT ![t] = 0]
  /\ UNCHANGED asleep

Take(t) ==
  /\ need[t] > 0
  /\ SubTakes(t, need[t])
  /\ held' = [held EXCEPT ![t] = need[t]]
  /\ need' = [need EXCEPT ![t] = 0]

GiveBack(t) ==
  /\ held[t] > 0
  /\ mysem_add(held[t])
  /\ held' = [held EXCEPT ![t] = 0]
  /\ UNCHANGED need

Next ==
  \/ \E t \in Threads : Ask(t) \/ Wait(t) \/ Take(t) \/ GiveBack(t)
  \/ SpuriousWakeup /\ UNCHANGED <<need, held>>

Spec == Init /\ [][Next]_vars

\* Threads run and give back what they hold.
FairSpec ==
  /\ Spec
  /\ \A t \in Threads : WF_vars(Wait(t) \/ Take(t)) /\ WF_vars(GiveBack(t))

-----------------------------------------------------------------------------
TypeOK ==
  /\ value \in 0 .. N
  /\ asleep \subseteq Threads
  /\ need \in [Threads -> 0 .. MaxUnits]
  /\ held \in [Threads -> 0 .. MaxUnits]

\* Nobody sleeps through units that are enough for it, however many threads
\* wait, for however different amounts.
NeverStalled == \A t \in asleep : value < need[t]

\* While somebody waits for no more units than there are, somebody gets units:
\* a waiter may be overtaken for ever, the semaphore as a whole goes on.
Served ==
  (\E t \in Threads : need[t] \in 1 .. N) ~> (\E t \in Threads : held[t] > 0)
=============================================================================
