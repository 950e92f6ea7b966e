----------------------------- MODULE TokenBucket -----------------------------
(***************************************************************************)
(* The token-bucket library mytbf_thread_cond/mytbf.c and its client       *)
(* main.c.  A table `job`, guarded by mut_job, holds the live buckets; each*)
(* bucket has its own mutex and condition variable.  The thread thr_alrm   *)
(* refills every bucket once a second, holding mut_job all the way; client *)
(* threads fetch tokens, read that many bytes, give back what they did not *)
(* use and write the rest.                                                 *)
(*                                                                         *)
(* `token` of a bucket is only touched under the bucket's mutex, and no    *)
(* thread holds it over more than one statement list, so such a critical   *)
(* section is one step.  mut_job is explicit, because thr_alrm holds it    *)
(* over many steps.                                                        *)
(***************************************************************************)
EXTENDS Integers, FiniteSets

CONSTANTS
  Users,       \* threads that run the client's loop
  Buckets,     \* the structs malloc can return
  MYTBF_MAX,   \* length of the table `job`
  CPS,         \* tokens added per refill
  BURST,       \* most tokens a bucket holds
  BUFSIZE,     \* tokens asked for per fetch
  NoBucket,    \* a NULL entry of `job`
  NoUser,      \* the owner of a free mutex
  Alarm,       \* the thread thr_alrm
  MaxRefills   \* bound: refills of a bucket that its history records

ASSUME BucketAssumption ==
  /\ MYTBF_MAX \in Nat
  /\ CPS \in Nat \ {0} /\ BURST \in Nat \ {0} /\ BUFSIZE \in Nat \ {0}
  /\ NoBucket \notin Buckets
  /\ Alarm \notin Users /\ NoUser \notin Users \cup {Alarm}
  /\ MaxRefills \in Nat

Pos == 0 .. MYTBF_MAX - 1

Min2(a, b) == IF a < b THEN a ELSE b

VARIABLES
  job,        \* the table
  mut_job,    \* the thread that holds mut_job
  token,      \* me->token
  heap,       \* "none", "live" (allocated) or "freed"
  waiting,    \* threads in pthread_cond_wait on the bucket's cond
  upc,        \* control of the client threads
  mine,       \* the client's tbf
  have,       \* tokens the client fetched, then bytes it has yet to write
  apc,        \* control of thr_alrm
  ai,         \* its loop variable
  epc,        \* control of exit and module_unload
  ei,         \* its loop variable
  refills,    \* history: refills of each bucket
  issued      \* history: tokens fetched from it and not given back

bucketVars == <<job, token, heap, waiting>>
userVars == <<upc, mine, have>>
alarmVars == <<apc, ai>>
exitVars == <<epc, ei>>
history == <<refills, issued>>
vars == <<bucketVars, mut_job, userVars, alarmVars, exitVars, history>>

Init ==
  /\ job = [p \in Pos |-> NoBucket]
  /\ mut_job = NoUser
  /\ token = [b \in Buckets |-> 0]
  /\ heap = [b \in Buckets |-> "none"]
  /\ waiting = [b \in Buckets |-> {}]
  /\ upc = [u \in Users |-> "start"]
  /\ mine = [u \in Users |-> NoBucket]
  /\ have = [u \in Users |-> 0]
  /\ apc = "none" /\ ai = 0
  /\ epc = "running" /\ ei = 0
  /\ refills = [b \in Buckets |-> 0]
  /\ issued = [b \in Buckets |-> 0]

Goto(u, from, to) ==
  /\ upc[u] = from
  /\ upc' = [upc EXCEPT ![u] = to]

-----------------------------------------------------------------------------
(* mytbf_init *)

\* pthread_once runs module_load; then malloc and the field assignments.
InitBucket(u) ==
  /\ Goto(u, "start", "place")
  /\ \E b \in Buckets :
       /\ heap[b] = "none"
       /\ heap' = [heap EXCEPT ![b] = "live"]
       /\ mine' = [mine EXCEPT ![u] = b]
  /\ apc' = IF apc = "none" THEN "lock" ELSE apc
  /\ UNCHANGED <<job, token, waiting, mut_job, have, ai, exitVars, history>>

FreePos == CHOOSE p \in Pos :
             /\ job[p] = NoBucket
             /\ \A q \in Pos : job[q] = NoBucket => p <= q

\* The critical section on mut_job; a full table frees the struct, and the
\* client exits.
Place(u) ==
  /\ upc[u] = "place"
  /\ mut_job = NoUser
  /\ IF \E p \in Pos : job[p] = NoBucket
       THEN /\ job' = [job EXCEPT ![FreePos] = mine[u]]
            /\ upc' = [upc EXCEPT ![u] = "fetch"]
            /\ UNCHANGED heap
       ELSE /\ heap' = [heap EXCEPT ![mine[u]] = "freed"]
            /\ upc' = [upc EXCEPT ![u] = "done"]
            /\ UNCHANGED job
  /\ UNCHANGED <<mut_job, token, waiting, mine, have, alarmVars, exitVars,
                 history>>

\* A client may also share a bucket another one made.
Share(u) ==
  /\ Goto(u, "start", "fetch")
  /\ \E p \in Pos : job[p] # NoBucket /\ mine' = [mine EXCEPT ![u] = job[p]]
  /\ UNCHANGED <<bucketVars, mut_job, have, alarmVars, exitVars, history>>

-----------------------------------------------------------------------------
(* The client's loop. *)

\* mytbf_fetchtoken when there is no token.
FetchWait(u) ==
  /\ upc[u] = "fetch"
  /\ u \notin waiting[mine[u]]
  /\ token[mine[u]] <= 0
  /\ waiting' = [waiting EXCEPT ![mine[u]] = @ \cup {u}]
  /\ UNCHANGED <<job, token, heap, mut_job, userVars, alarmVars, exitVars,
                 history>>

\* A history that stops keeps the state space finite.
Recording(b) == refills[b] < MaxRefills
Record(b, n) == issued' = [issued EXCEPT ![b] = IF Recording(b) THEN @ + n
                                                              ELSE @]

\* Mutant: a thread back from the wait does not test the tokens again.
FetchUntested(u) ==
  LET b == mine[u]
      n == Min2(token[b], BUFSIZE) IN
  /\ Goto(u, "fetch", "read")
  /\ u \notin waiting[b]
  /\ token' = [token EXCEPT ![b] = @ - n]
  /\ have' = [have EXCEPT ![u] = n]
  /\ Record(b, n)
  /\ UNCHANGED <<job, heap, waiting, mut_job, mine, alarmVars, exitVars,
                 refills>>

\* mytbf_fetchtoken when there is one, or after the wait.
Fetch(u) ==
  LET b == mine[u]
      n == Min2(token[b], BUFSIZE) IN
  /\ Goto(u, "fetch", "read")
  /\ u \notin waiting[b]
  /\ token[b] > 0
  /\ token' = [token EXCEPT ![b] = @ - n]
  /\ have' = [have EXCEPT ![u] = n]
  /\ Record(b, n)
  /\ UNCHANGED <<job, heap, waiting, mut_job, mine, alarmVars, exitVars,
                 refills>>

SpuriousWakeup ==
  /\ \E u \in Users, b \in Buckets :
       u \in waiting[b] /\ waiting' = [waiting EXCEPT ![b] = @ \ {u}]
  /\ UNCHANGED <<job, token, heap, mut_job, userVars, alarmVars, exitVars,
                 history>>

\* Mutant: after a short read all the tokens of the fetch are given back.
GiveBackAll(b, u, len) ==
  /\ token' = [token EXCEPT ![b] = IF len < have[u]
                                     THEN Min2(@ + have[u], BURST)
                                     ELSE @]
  /\ Record(b, len - have[u])

\* Mutant: mytbf_returntoken does not cut the tokens off at burst.
GiveBackUncut(b, u, len) ==
  /\ token' = [token EXCEPT ![b] = @ + have[u] - len]
  /\ Record(b, len - have[u])

\* mytbf_returntoken(size - len), not called when the difference is 0.
GiveBack(b, u, len) ==
  /\ token' = [token EXCEPT ![b] = IF len < have[u]
                                     THEN Min2(@ + have[u] - len, BURST)
                                     ELSE @]
  /\ Record(b, len - have[u])

\* read returns len bytes; the client keeps that many tokens.
Read(u) ==
  /\ Goto(u, "read", "write")
  /\ \E len \in 1 .. have[u] :
       /\ GiveBack(mine[u], u, len)
       /\ have' = [have EXCEPT ![u] = len]
  /\ UNCHANGED <<job, heap, waiting, mut_job, mine, alarmVars, exitVars,
                 refills>>

\* read fails or meets the end of the file: the tokens are not given back.
ReadEnds(u) ==
  /\ Goto(u, "read", "unlink")
  /\ have' = [have EXCEPT ![u] = 0]
  /\ UNCHANGED <<bucketVars, mut_job, mine, alarmVars, exitVars, history>>

\* One write, which may be partial.
Write(u) ==
  /\ upc[u] = "write"
  /\ \E k \in 1 .. have[u] :
       /\ have' = [have EXCEPT ![u] = @ - k]
       /\ upc' = [upc EXCEPT ![u] = IF k = have[u] THEN "fetch" ELSE "write"]
  /\ UNCHANGED <<bucketVars, mut_job, mine, alarmVars, exitVars, history>>

\* write fails: exit(1), the bucket is left to module_unload.
WriteFails(u) ==
  /\ Goto(u, "write", "done")
  /\ have' = [have EXCEPT ![u] = 0]
  /\ UNCHANGED <<bucketVars, mut_job, mine, alarmVars, exitVars, history>>

\* Clients keep the contract that a bucket is destroyed by its last user.
LastUser(u) ==
  \A v \in Users \ {u} : mine[v] = mine[u] => upc[v] = "done"

\* A client that is not the last one just stops using the bucket.
Abandon(u) ==
  /\ Goto(u, "unlink", "done")
  /\ ~LastUser(u)
  /\ UNCHANGED <<bucketVars, mut_job, mine, have, alarmVars, exitVars,
                 history>>

\* The slot of bucket b.
Unlinked(b) == [p \in Pos |-> IF job[p] = b THEN NoBucket ELSE job[p]]

\* Mutant: mytbf_destroy does not take mut_job.
UnlinkUnlocked(u) ==
  /\ Goto(u, "unlink", "free")
  /\ LastUser(u)
  /\ job' = Unlinked(mine[u])
  /\ UNCHANGED <<token, heap, waiting, mut_job, mine, have, alarmVars,
                 exitVars, history>>

\* mytbf_destroy: the critical section, ...
Unlink(u) ==
  /\ Goto(u, "unlink", "free")
  /\ LastUser(u)
  /\ mut_job = NoUser
  /\ job' = Unlinked(mine[u])
  /\ UNCHANGED <<token, heap, waiting, mut_job, mine, have, alarmVars,
                 exitVars, history>>

\* ... then the destruction of the mutex and the cond, and free.
Free(u) ==
  /\ Goto(u, "free", "done")
  /\ heap' = [heap EXCEPT ![mine[u]] = "freed"]
  /\ UNCHANGED <<job, token, waiting, mut_job, mine, have, alarmVars,
                 exitVars, history>>

User(u) ==
  \/ InitBucket(u) \/ Place(u) \/ Share(u)
  \/ FetchWait(u) \/ Fetch(u)
  \/ Read(u) \/ ReadEnds(u) \/ Write(u) \/ WriteFails(u)
  \/ Abandon(u) \/ Unlink(u) \/ Free(u)

-----------------------------------------------------------------------------
(* thr_alrm *)

AlarmLock ==
  /\ apc = "lock"
  /\ mut_job = NoUser
  /\ mut_job' = Alarm
  /\ apc' = "scan"
  /\ ai' = 0
  /\ UNCHANGED <<bucketVars, userVars, exitVars, history>>

AlarmScan ==
  /\ apc = "scan"
  /\ ai < MYTBF_MAX
  /\ IF job[ai] = NoBucket THEN ai' = ai + 1 /\ UNCHANGED apc
                           ELSE apc' = "refill" /\ UNCHANGED ai
  /\ UNCHANGED <<bucketVars, mut_job, userVars, exitVars, history>>

\* Mutant: signal instead of broadcast.
WakeOne(b) ==
  IF waiting[b] = {} THEN UNCHANGED waiting
  ELSE \E u \in waiting[b] : waiting' = [waiting EXCEPT ![b] = @ \ {u}]

\* pthread_cond_broadcast(&job[i]->cond)
WakeAll(b) == waiting' = [waiting EXCEPT ![b] = {}]

AlarmRefill ==
  LET b == job[ai] IN
  /\ apc = "refill"
  /\ b # NoBucket
  /\ token' = [token EXCEPT ![b] = Min2(@ + CPS, BURST)]
  /\ WakeAll(b)
  /\ refills' = [refills EXCEPT ![b] = IF Recording(b) THEN @ + 1 ELSE @]
  /\ issued' = [issued EXCEPT ![b] = IF refills'[b] < MaxRefills THEN @ ELSE 0]
  /\ apc' = "scan"
  /\ ai' = ai + 1
  /\ UNCHANGED <<job, heap, mut_job, userVars, exitVars>>

AlarmUnlock ==
  /\ apc = "scan"
  /\ ai = MYTBF_MAX
  /\ mut_job' = NoUser
  /\ apc' = "sleep"
  /\ UNCHANGED <<bucketVars, ai, userVars, exitVars, history>>

\* sleep(1) is the only point where a pending cancellation is acted on.
AlarmWake ==
  /\ apc = "sleep"
  /\ apc' = IF epc = "join" THEN "ended" ELSE "lock"
  /\ UNCHANGED <<bucketVars, mut_job, ai, userVars, exitVars, history>>

AlarmStep ==
  AlarmLock \/ AlarmScan \/ AlarmRefill \/ AlarmUnlock \/ AlarmWake

-----------------------------------------------------------------------------
(* exit and module_unload, when no client runs any more. *)

\* Mutant: module_unload does not wait for the thread it cancels.
ExitNoJoin ==
  /\ epc = "running"
  /\ apc # "none"
  /\ \A u \in Users : upc[u] = "done"
  /\ epc' = "unload"
  /\ UNCHANGED <<bucketVars, mut_job, userVars, alarmVars, ei, history>>

\* pthread_cancel(tid_alrm)
Exit ==
  /\ epc = "running"
  /\ apc # "none"
  /\ \A u \in Users : upc[u] = "done"
  /\ epc' = "join"
  /\ UNCHANGED <<bucketVars, mut_job, userVars, alarmVars, ei, history>>

UnloadJoin ==
  /\ epc = "join"
  /\ apc = "ended"
  /\ epc' = "unload"
  /\ UNCHANGED <<bucketVars, mut_job, userVars, alarmVars, ei, history>>

\* mytbf_destroy of what the clients left behind.
UnloadSlot ==
  /\ epc = "unload"
  /\ ei < MYTBF_MAX
  /\ IF job[ei] = NoBucket
       THEN UNCHANGED <<job, heap>>
       ELSE /\ mut_job = NoUser
            /\ job' = Unlinked(job[ei])
            /\ heap' = [heap EXCEPT ![job[ei]] = "freed"]
  /\ ei' = ei + 1
  /\ UNCHANGED <<token, waiting, mut_job, userVars, alarmVars, epc, history>>

\* pthread_mutex_destroy(&mut_job)
UnloadDone ==
  /\ epc = "unload"
  /\ ei = MYTBF_MAX
  /\ epc' = "over"
  /\ UNCHANGED <<bucketVars, mut_job, userVars, alarmVars, ei, history>>

Unload == Exit \/ UnloadJoin \/ UnloadSlot \/ UnloadDone

Next == AlarmStep \/ Unload \/ SpuriousWakeup \/ \E u \in Users : User(u)

Spec == Init /\ [][Next]_vars

\* Threads run; reads and writes end, but the file need not.
FairSpec ==
  /\ Spec
  /\ WF_vars(AlarmStep)
  /\ WF_vars(Unload)
  /\ \A u \in Users : WF_vars(User(u))

-----------------------------------------------------------------------------
TypeOK ==
  /\ job \in [Pos -> Buckets \cup {NoBucket}]
  /\ mut_job \in {NoUser, Alarm}
  /\ token \in [Buckets -> 0 .. BURST]
  /\ heap \in [Buckets -> {"none", "live", "freed"}]
  /\ waiting \in [Buckets -> SUBSET Users]
  /\ upc \in [Users -> {"start", "place", "fetch", "read", "write", "unlink",
                        "free", "done"}]
  /\ mine \in [Users -> Buckets \cup {NoBucket}]
  /\ have \in [Users -> 0 .. BUFSIZE]
  /\ apc \in {"none", "lock", "scan", "refill", "sleep", "ended"}
  /\ ai \in 0 .. MYTBF_MAX
  /\ epc \in {"running", "join", "unload", "over"}
  /\ ei \in 0 .. MYTBF_MAX
  /\ refills \in [Buckets -> 0 .. MaxRefills]
  /\ issued \in [Buckets -> Int]

\* The rate is kept: the tokens in the bucket and those the clients spent or
\* still hold never exceed what the refills put in, whatever is fetched, given
\* back and cut off at BURST in between.
RateBound ==
  \A b \in Buckets : Recording(b) => token[b] + issued[b] <= CPS * refills[b]

\* A fetch never returns 0 tokens: the client would ask read for 0 bytes and
\* take the answer for the end of the file.
FetchNonEmpty == \A u \in Users : upc[u] = "read" => have[u] > 0

\* The bucket thr_alrm is about to refill is allocated and still in the table,
\* although clients may destroy theirs at any moment and exit may unload the
\* module at any moment.
AlarmTouchesLive ==
  apc = "refill" => job[ai] # NoBucket /\ heap[job[ai]] = "live"

\* While somebody asks for tokens of a bucket, somebody gets some.
Served(b) == \E u \in Users : mine[u] = b /\ upc[u] = "read"
Asked(b) == \E u \in Users : mine[u] = b /\ upc[u] = "fetch"

Waits(u) == \E b \in Buckets : u \in waiting[b]

\* Everybody who waits for tokens is woken by a refill, whoever else waits for
\* the same bucket; a fetch returns; and unloading ends: the cancelled thread
\* never dies with mut_job in its hands.
NobodyHangs ==
  /\ \A u \in Users : Waits(u) ~> ~Waits(u)
  /\ \A b \in Buckets : Asked(b) ~> Served(b)
  /\ epc = "join" ~> epc = "over"

\* When the process is over, thr_alrm has ended, without mut_job in its hands
\* when it is destroyed, and every bucket has been freed.
CleanEnd ==
  epc = "over" => /\ apc = "ended" /\ mut_job = NoUser
                  /\ \A b \in Buckets : heap[b] # "live"
=============================================================================
