--------------------------- MODULE TokenBucketBusy ---------------------------
(***************************************************************************)
(* The busy-waiting token bucket mytfb_thread_busy/mytbf.c: one bucket, its*)
(* mutex, the thread that refills it and the clients that fetch from it and*)
(* give back.  A client that finds no token unlocks the mutex, yields and  *)
(* then unlocks it AGAIN instead of locking it, so it goes on without the  *)
(* mutex and may take it away from another thread.  Unlocking a mutex one  *)
(* does not hold is undefined; glibc's normal mutex just becomes free.     *)
(* Because of that every load and store of `token` is a step of its own.   *)
(***************************************************************************)
EXTENDS Integers

CONSTANTS
  Users,     \* client threads
  Alarm,     \* the thread thr_alrm
  NoOne,     \* the owner of a free mutex
  CPS, BURST, BUFSIZE,
  MaxToken   \* bound: tokens saturate there, above what cps and burst allow

Min2(a, b) == IF a < b THEN a ELSE b

VARIABLES
  reloads, \* the build loads token for every use of it in mytbf_fetchtoken
  token,   \* me->token
  owner,   \* the thread that holds me->mut
  pc,      \* control of the threads
  seen,    \* the value of token a thread has loaded
  n        \* tokens a client takes, has, or gives back

vars == <<reloads, token, owner, pc, seen, n>>

Init ==
  /\ reloads \in BOOLEAN
  /\ token = 0
  /\ owner = NoOne
  /\ pc = [t \in Users \cup {Alarm} |-> "lock"]
  /\ seen = [t \in Users \cup {Alarm} |-> 0]
  /\ n = [u \in Users |-> 0]

Goto(t, from, to) ==
  /\ pc[t] = from
  /\ pc' = [pc EXCEPT ![t] = to]

Lock(t, from, to) ==
  /\ Goto(t, from, to)
  /\ owner = NoOne
  /\ owner' = t
  /\ UNCHANGED <<reloads, token, seen, n>>

\* pthread_mutex_unlock, whoever holds the mutex.
Unlock(t, from, to) ==
  /\ Goto(t, from, to)
  /\ owner' = NoOne
  /\ UNCHANGED <<reloads, token, seen, n>>

\* token += k, its load and its store; then the cut at burst.
Load(t, from, to) ==
  /\ Goto(t, from, to)
  /\ seen' = [seen EXCEPT ![t] = token]
  /\ UNCHANGED <<reloads, token, owner, n>>

Add(t, k, from, to) ==
  /\ Goto(t, from, to)
  /\ token' = Min2(seen[t] + k, MaxToken)
  /\ seen' = [seen EXCEPT ![t] = 0]
  /\ UNCHANGED <<reloads, owner, n>>

Cut(t, from, to) ==
  /\ Goto(t, from, IF token > BURST THEN "clip" ELSE to)
  /\ UNCHANGED <<reloads, token, owner, seen, n>>

Clip(t, from, to) ==
  /\ Goto(t, from, to)
  /\ token' = BURST
  /\ UNCHANGED <<reloads, owner, seen, n>>

-----------------------------------------------------------------------------
(* mytbf_fetchtoken *)

Test(u) ==
  /\ Goto(u, "test", IF token > 0 THEN "min" ELSE "spin")
  /\ seen' = [seen EXCEPT ![u] = token]
  /\ UNCHANGED <<reloads, token, owner, n>>

Spin(u) == Unlock(u, "spin", "yield")

\* After sched_yield: the second unlock.
SpinAgain(u) == Unlock(u, "yield", "test")

Latest(u) == IF reloads THEN token ELSE seen[u]

\* Mutant: the client takes what it asks for.
MinWhole(u) ==
  /\ Goto(u, "min", "sub")
  /\ n' = [n EXCEPT ![u] = BUFSIZE]
  /\ UNCHANGED <<reloads, token, owner, seen>>

\* n = min(token, size)
Min(u) ==
  /\ Goto(u, "min", "sub")
  /\ n' = [n EXCEPT ![u] = Min2(Latest(u), BUFSIZE)]
  /\ UNCHANGED <<reloads, token, owner, seen>>

\* token -= n, its load and its store
Sub(u) ==
  /\ Goto(u, "sub", "store")
  /\ seen' = [seen EXCEPT ![u] = Latest(u)]
  /\ UNCHANGED <<reloads, token, owner, n>>

Store(u) ==
  /\ Goto(u, "store", "unlock")
  /\ token' = Min2(seen[u] - n[u], MaxToken)
  /\ seen' = [seen EXCEPT ![u] = 0]
  /\ UNCHANGED <<reloads, owner, n>>

\* The client's read gets part of what was asked for, or all of it.  A client
\* that was given nothing takes it for the end of the file, and stays here.
Read(u) ==
  /\ pc[u] = "read"
  /\ \E back \in 0 .. n[u] - 1 :
       /\ n' = [n EXCEPT ![u] = back]
       /\ pc' = [pc EXCEPT ![u] = IF back > 0 THEN "give" ELSE "lock"]
  /\ UNCHANGED <<reloads, token, owner, seen>>

Fetch(u) ==
  \/ Test(u) \/ Spin(u) \/ SpinAgain(u) \/ Min(u) \/ Sub(u) \/ Store(u)
  \/ Unlock(u, "unlock", "read")
  \/ Read(u)

\* mytbf_returntoken
GiveBack(u) ==
  \/ Load(u, "load", "add")
  \/ Add(u, n[u], "add", "cut")
  \/ Cut(u, "cut", "release") \/ Clip(u, "clip", "release")
  \/ Unlock(u, "release", "lock")

\* thr_alrm: the refill of the bucket.
Refill ==
  \/ Load(Alarm, "load", "add")
  \/ Add(Alarm, CPS, "add", "cut")
  \/ Cut(Alarm, "cut", "unlock") \/ Clip(Alarm, "clip", "unlock")
  \/ Unlock(Alarm, "unlock", "lock")

Locks(t) ==
  Lock(t, "lock", IF t = Alarm THEN "load" ELSE "test") \/ Lock(t, "give", "load")

Next ==
  \/ \E u \in Users : Fetch(u) \/ GiveBack(u)
  \/ Refill
  \/ \E t \in Users \cup {Alarm} : Locks(t)

Spec == Init /\ [][Next]_vars

\* Threads run, and sched_yield lets a contender for the mutex in.
FairSpec ==
  /\ Spec
  /\ \A u \in Users : WF_vars(Fetch(u) \/ GiveBack(u))
  /\ WF_vars(Refill)
  /\ \A t \in Users \cup {Alarm} : SF_vars(Locks(t))

-----------------------------------------------------------------------------
\* A build that loads token again may subtract more than there is.
Amounts == IF reloads THEN Int ELSE Nat

TypeOK ==
  /\ reloads \in BOOLEAN
  /\ token \in Amounts /\ token <= MaxToken
  /\ owner \in Users \cup {Alarm, NoOne}
  /\ pc \in [Users \cup {Alarm} ->
               {"lock", "test", "spin", "yield", "min", "sub", "store",
                "unlock", "read", "give", "load", "add", "cut", "clip",
                "release"}]
  /\ seen \in [Users \cup {Alarm} -> Amounts]
  /\ \A t \in Users \cup {Alarm} : seen[t] <= MaxToken
  /\ n \in [Users -> Amounts]
  /\ \A u \in Users : n[u] <= BUFSIZE

\* A client never gets 0 tokens or fewer, whatever the refill does between its
\* loads: it would take them for the end of the file.  A build that loads token
\* again may find it cut, or overwritten with less, since the test.
FetchNonEmpty ==
  ~reloads => \A u \in Users : pc[u] \in {"unlock", "read"} => n[u] > 0

\* A client that asks for tokens gets some: the spinning lets the refill in.
FetchReturns == \A u \in Users : pc[u] = "test" ~> pc[u] = "read"

\* The number of tokens does not exceed burst, outside of an addition.
Ceiling ==
  (\A t \in Users \cup {Alarm} : pc[t] \notin {"cut", "clip"}) => token <= BURST
=============================================================================
