-------------------------- MODULE TokenBucketProofs --------------------------
(***************************************************************************)
(* Proofs about TokenBucket, for any number of clients and buckets, any    *)
(* rate, burst and request size, and a history of any length.              *)
(***************************************************************************)
EXTENDS TokenBucket, WellFoundedInduction, TLAPS

-----------------------------------------------------------------------------
(* The inductive invariant. *)

Working == {"place", "fetch", "read", "write", "unlink", "free"}

\* Who works in the library has a bucket, and it has been allocated.
Owners ==
  \A u \in Users :
    /\ upc[u] \in Working => mine[u] \in Buckets
    /\ mine[u] \in Buckets => heap[mine[u]] # "none"

\* The table holds live buckets only: not one that is about to be placed,
\* which nobody else knows yet, nor one that is about to be freed.
Table ==
  /\ \A p \in Pos : job[p] \in Buckets => heap[job[p]] = "live"
  /\ \A u \in Users : upc[u] \in {"place", "free"} =>
                        \A p \in Pos : job[p] # mine[u]
  /\ \A u \in Users : upc[u] = "place" =>
                        /\ heap[mine[u]] = "live"
                        /\ \A v \in Users \ {u} : mine[v] # mine[u]

\* thr_alrm holds mut_job exactly while it goes over the table, and what it
\* has found there stays.
Sweep ==
  /\ mut_job = Alarm <=> apc \in {"scan", "refill"}
  /\ apc = "refill" => ai \in Pos /\ job[ai] \in Buckets

BucketInv == TypeOK /\ Owners /\ Table /\ Sweep /\ RateBound /\ FetchNonEmpty

-----------------------------------------------------------------------------
\* The smaller of two numbers, and what it bounds.
LEMMA MinBounds ==
  ASSUME NEW a \in Int, NEW b \in Int
  PROVE  /\ Min2(a, b) \in {a, b}
         /\ Min2(a, b) <= a /\ Min2(a, b) <= b
BY DEF Min2

\* The history of one fetch, give-back or refill.
LEMMA RecordType ==
  ASSUME TypeOK, NEW b \in Buckets, NEW n \in Int, Record(b, n)
  PROVE  /\ issued' \in [Buckets -> Int]
         /\ \A c \in Buckets : c # b => issued'[c] = issued[c]
         /\ Recording(b) => issued'[b] = issued[b] + n
BY DEF TypeOK, Record

LEMMA BucketInit == Init => BucketInv
<1>. SUFFICES ASSUME Init PROVE BucketInv
  OBVIOUS
<1>. USE BucketAssumption DEF Init
<1>1. TypeOK
  <2>1. 0 \in 0 .. BURST /\ 0 \in 0 .. BUFSIZE /\ 0 \in 0 .. MYTBF_MAX
          /\ 0 \in 0 .. MaxRefills
    OBVIOUS
  <2>. QED
    BY <2>1 DEF TypeOK
<1>2. Owners /\ Table /\ Sweep /\ FetchNonEmpty
  BY DEF Owners, Table, Sweep, FetchNonEmpty, Working
<1>3. RateBound
  BY DEF RateBound
<1>. QED
  BY <1>1, <1>2, <1>3 DEF BucketInv

-----------------------------------------------------------------------------
(* Clients. *)

LEMMA UserTypes ==
  ASSUME BucketInv, NEW u \in Users, User(u)
  PROVE  TypeOK'
<1>. USE BucketAssumption
     DEF BucketInv, bucketVars, userVars, alarmVars, exitVars, history
<1>1. CASE InitBucket(u)
  BY <1>1 DEF InitBucket, Goto, TypeOK
<1>2. CASE Place(u)
  BY <1>2 DEF Place, TypeOK
<1>3. CASE Share(u)
  BY <1>3 DEF Share, Goto, TypeOK
<1>4. CASE FetchWait(u)
  <2>1. mine[u] \in Buckets
    BY <1>4 DEF FetchWait, Owners, Working
  <2>. QED
    BY <1>4, <2>1 DEF FetchWait, TypeOK
<1>5. CASE Fetch(u)
  <2>. DEFINE b == mine[u]
              n == Min2(token[b], BUFSIZE)
  <2>1. b \in Buckets
    BY <1>5 DEF Fetch, Goto, Owners, Working
  <2>2. token[b] \in 1 .. BURST
    BY <1>5, <2>1 DEF Fetch, TypeOK
  <2>3. n \in 1 .. BUFSIZE /\ token[b] - n \in 0 .. BURST
    BY <2>2 DEF Min2
  <2>4. /\ token' = [token EXCEPT ![b] = token[b] - n]
        /\ have' = [have EXCEPT ![u] = n]
        /\ Record(b, n)
    BY <1>5 DEF Fetch
  <2>5. issued' \in [Buckets -> Int]
    BY <2>1, <2>3, <2>4, RecordType
  <2>6. /\ upc' = [upc EXCEPT ![u] = "read"]
        /\ UNCHANGED <<job, heap, waiting, mut_job, mine, alarmVars, exitVars,
                       refills>>
    BY <1>5 DEF Fetch, Goto
  <2>7. token' \in [Buckets -> 0 .. BURST]
    BY <2>1, <2>3, <2>4 DEF TypeOK
  <2>8. have' \in [Users -> 0 .. BUFSIZE]
    BY <2>3, <2>4 DEF TypeOK
  <2>. QED
    BY <2>5, <2>6, <2>7, <2>8 DEF TypeOK
<1>6. CASE Read(u)
  <2>. DEFINE b == mine[u]
  <2>1. b \in Buckets
    BY <1>6 DEF Read, Goto, Owners, Working
  <2>2. PICK len \in 1 .. have[u] :
          GiveBack(b, u, len) /\ have' = [have EXCEPT ![u] = len]
    BY <1>6 DEF Read
  <2>3. have[u] \in 0 .. BUFSIZE /\ len \in 0 .. BUFSIZE
    BY <2>2 DEF TypeOK
  <2>4. issued' \in [Buckets -> Int]
    BY <2>1, <2>2, <2>3, RecordType DEF GiveBack
  <2>5. token' \in [Buckets -> 0 .. BURST]
    BY <2>1, <2>2, <2>3 DEF GiveBack, Min2, TypeOK
  <2>. QED
    BY <1>6, <2>2, <2>3, <2>4, <2>5 DEF Read, Goto, TypeOK
<1>7. CASE ReadEnds(u) \/ WriteFails(u)
  BY <1>7 DEF ReadEnds, WriteFails, Goto, TypeOK
<1>8. CASE Write(u)
  BY <1>8 DEF Write, TypeOK
<1>9. CASE Abandon(u) \/ Unlink(u) \/ Free(u)
  BY <1>9 DEF Abandon, Unlink, Free, Unlinked, Goto, TypeOK
<1>. QED
  BY <1>1, <1>2, <1>3, <1>4, <1>5, <1>6, <1>7, <1>8, <1>9 DEF User

\* A client changes the heap and the table only in InitBucket, Place, Unlink
\* and Free.
LEMMA QuietSteps ==
  ASSUME NEW u \in Users,
         FetchWait(u) \/ Fetch(u) \/ Read(u) \/ ReadEnds(u) \/ Write(u)
           \/ WriteFails(u) \/ Abandon(u)
  PROVE  /\ UNCHANGED <<job, heap, mut_job, mine, apc, ai, epc, ei, refills>>
         /\ upc[u] \in Working \ {"place", "free"}
         /\ \/ UNCHANGED upc
            \/ \E l \in {"fetch", "read", "write", "unlink", "done"} :
                 upc' = [upc EXCEPT ![u] = l]
BY DEF FetchWait, Fetch, Read, ReadEnds, Write, WriteFails, Abandon, Goto,
       Working, bucketVars, userVars, alarmVars, exitVars, history

LEMMA UserTable ==
  ASSUME BucketInv, NEW u \in Users, User(u)
  PROVE  Owners' /\ Table' /\ Sweep'
<1>. USE BucketAssumption
     DEF BucketInv, TypeOK, Owners, Table, Sweep, Working, bucketVars,
         userVars, alarmVars, exitVars, history
<1>1. CASE InitBucket(u)
  BY <1>1 DEF InitBucket, Goto
<1>2. CASE Place(u)
  <2>1. CASE \E p \in Pos : job[p] = NoBucket
    <3>1. /\ job' = [job EXCEPT ![FreePos] = mine[u]]
          /\ upc[u] = "place"
          /\ upc' = [upc EXCEPT ![u] = "fetch"]
          /\ mut_job = NoUser
          /\ UNCHANGED <<heap, mine, mut_job, apc, ai>>
      BY <1>2, <2>1 DEF Place
    <3>2. \A p \in Pos : job'[p] \in {job[p], mine[u]}
      BY <3>1
    <3>3. heap[mine[u]] = "live" /\ \A v \in Users \ {u} : mine[v] # mine[u]
      BY <3>1
    <3>4. Owners'
      BY <3>1, <3>3
    <3>5. Sweep'
      BY <3>1
    <3>6. Table'
      BY <3>1, <3>2, <3>3
    <3>. QED
      BY <3>4, <3>5, <3>6
  <2>2. CASE ~ \E p \in Pos : job[p] = NoBucket
    BY <1>2, <2>2 DEF Place
  <2>. QED
    BY <2>1, <2>2
<1>3. CASE Share(u)
  BY <1>3 DEF Share, Goto
<1>4. CASE \/ FetchWait(u) \/ Fetch(u) \/ Read(u) \/ ReadEnds(u) \/ Write(u)
           \/ WriteFails(u) \/ Abandon(u)
  BY <1>4, QuietSteps
<1>5. CASE Unlink(u)
  BY <1>5 DEF Unlink, Unlinked, Goto
<1>6. CASE Free(u)
  BY <1>6 DEF Free, Goto
<1>. QED
  BY <1>1, <1>2, <1>3, <1>4, <1>5, <1>6 DEF User

\* Fetching and giving back move tokens, and cutting off at BURST only loses
\* some.
LEMMA UserRate ==
  ASSUME BucketInv, NEW u \in Users, User(u)
  PROVE  RateBound'
<1>. USE BucketAssumption DEF BucketInv, RateBound, Recording
<1>1. CASE Fetch(u)
  <2>. DEFINE b == mine[u]
              n == Min2(token[b], BUFSIZE)
  <2>1. b \in Buckets
    BY <1>1 DEF Fetch, Goto, Owners, Working
  <2>2. n \in Int /\ token[b] \in Int
    BY <2>1 DEF TypeOK, Min2
  <2>3. token' = [token EXCEPT ![b] = token[b] - n] /\ Record(b, n)
          /\ refills' = refills
    BY <1>1 DEF Fetch
  <2>4. \A c \in Buckets : c # b =>
          token'[c] = token[c] /\ issued'[c] = issued[c]
    BY <2>1, <2>2, <2>3, RecordType DEF TypeOK
  <2>5. refills[b] < MaxRefills => token'[b] + issued'[b] = token[b] + issued[b]
    <3>. HIDE DEF n
    <3>1. refills[b] < MaxRefills => issued'[b] = issued[b] + n
      BY <2>1, <2>2, <2>3, RecordType
    <3>2. token'[b] = token[b] - n
      BY <2>1, <2>3 DEF TypeOK
    <3>3. issued[b] \in Int
      BY <2>1 DEF TypeOK
    <3>. QED
      BY <2>2, <3>1, <3>2, <3>3
  <2>. QED
    BY <2>3, <2>4, <2>5
<1>2. CASE Read(u)
  <2>. DEFINE b == mine[u]
  <2>1. b \in Buckets
    BY <1>2 DEF Read, Goto, Owners, Working
  <2>2. PICK len \in 1 .. have[u] : GiveBack(b, u, len)
    BY <1>2 DEF Read
  <2>3. refills' = refills
    BY <1>2 DEF Read
  <2>4. have[u] \in Nat /\ len \in Nat /\ len <= have[u]
    BY <2>2 DEF TypeOK
  <2>5. \A c \in Buckets : c # b =>
          token'[c] = token[c] /\ issued'[c] = issued[c]
    BY <2>1, <2>2, <2>4, RecordType DEF TypeOK, GiveBack
  <2>6. refills[b] < MaxRefills => issued'[b] = issued[b] + (len - have[u])
    BY <2>1, <2>2, <2>4, RecordType DEF GiveBack
  <2>7. token'[b] <= token[b] + (have[u] - len)
    BY <2>1, <2>2, <2>4 DEF GiveBack, TypeOK, Min2
  <2>8. /\ token[b] \in Int /\ token'[b] \in Int /\ issued[b] \in Int
        /\ CPS * refills[b] \in Int
    BY <2>1, UserTypes DEF TypeOK
  <2>9. refills[b] < MaxRefills => token'[b] + issued'[b] <= CPS * refills[b]
    BY <2>1, <2>4, <2>6, <2>7, <2>8
  <2>. QED
    BY <2>3, <2>5, <2>9
<1>3. CASE ~(Fetch(u) \/ Read(u))
  <2>1. UNCHANGED <<token, refills, issued>>
    BY <1>3 DEF User, InitBucket, Place, Share, FetchWait, ReadEnds, Write,
       WriteFails, Abandon, Unlink, Free, bucketVars, history
  <2>. QED
    BY <2>1
<1>. QED
  BY <1>1, <1>2, <1>3

LEMMA UserNonEmpty ==
  ASSUME BucketInv, NEW u \in Users, User(u)
  PROVE  FetchNonEmpty'
<1>. USE BucketAssumption DEF BucketInv, FetchNonEmpty
<1>1. CASE Fetch(u)
  <2>1. mine[u] \in Buckets
    BY <1>1 DEF Fetch, Goto, Owners, Working
  <2>2. Min2(token[mine[u]], BUFSIZE) > 0
    BY <1>1, <2>1 DEF Fetch, Min2, TypeOK
  <2>3. /\ have' = [have EXCEPT ![u] = Min2(token[mine[u]], BUFSIZE)]
        /\ upc' = [upc EXCEPT ![u] = "read"]
    BY <1>1 DEF Fetch, Goto
  <2>. QED
    BY <2>2, <2>3 DEF TypeOK
<1>2. CASE ~Fetch(u)
  <2>1. upc'[u] # "read" /\ \A v \in Users \ {u} :
                              upc'[v] = upc[v] /\ have'[v] = have[v]
    BY <1>2 DEF TypeOK, User, InitBucket, Place, Share, FetchWait, Read,
       ReadEnds, Write, WriteFails, Abandon, Unlink, Free, Goto, userVars
  <2>. QED
    BY <2>1
<1>. QED
  BY <1>1, <1>2

-----------------------------------------------------------------------------
(* thr_alrm, module_unload, and the wait's spurious wake-ups. *)

LEMMA AlarmKeepsInv ==
  ASSUME BucketInv, AlarmStep
  PROVE  BucketInv'
<1>. USE BucketAssumption
     DEF BucketInv, bucketVars, userVars, alarmVars, exitVars, history
<1>1. CASE AlarmRefill
  <2>. DEFINE b == job[ai]
  <2>1. b \in Buckets /\ ai \in Pos /\ b = job[ai]
    BY <1>1 DEF AlarmRefill, Sweep
  <2>2. token[b] + CPS \in Int
    BY <2>1 DEF TypeOK
  <2>3. /\ token' = [token EXCEPT ![b] = Min2(token[b] + CPS, BURST)]
        /\ refills' = [refills EXCEPT ![b] =
                         IF Recording(b) THEN refills[b] + 1 ELSE refills[b]]
        /\ waiting' = [waiting EXCEPT ![b] = {}]
        /\ apc' = "scan" /\ ai' = ai + 1
        /\ issued' = [issued EXCEPT ![b] =
                        IF refills'[b] < MaxRefills THEN issued[b] ELSE 0]
        /\ UNCHANGED <<job, heap, mut_job, userVars, exitVars>>
    BY <1>1 DEF AlarmRefill, WakeAll
  <2>. HIDE DEF b
  <2>4. token' \in [Buckets -> 0 .. BURST]
    BY <2>1, <2>3 DEF TypeOK, Min2
  <2>5. refills' \in [Buckets -> 0 .. MaxRefills]
    BY <2>1, <2>3 DEF TypeOK, Recording
  <2>6. ai' \in 0 .. MYTBF_MAX
    BY <2>1, <2>3 DEF Pos
  <2>7. TypeOK'
    <3>1. issued' \in [Buckets -> Int]
      BY <2>1, <2>3 DEF TypeOK
    <3>. QED
      BY <2>1, <2>3, <2>4, <2>5, <2>6, <3>1 DEF TypeOK
  <2>8. RateBound'
    <3>1. ASSUME NEW c \in Buckets, c # b
          PROVE  /\ token'[c] = token[c] /\ refills'[c] = refills[c]
                 /\ issued'[c] = issued[c]
      BY <2>1, <2>3, <3>1 DEF TypeOK
    <3>2. ASSUME refills'[b] < MaxRefills
          PROVE  token'[b] + issued'[b] <= CPS * refills'[b]
      <4>1. refills[b] < MaxRefills /\ refills'[b] = refills[b] + 1
        BY <2>1, <2>3, <3>2 DEF TypeOK, Recording
      <4>2. token'[b] <= token[b] + CPS
        BY <2>1, <2>2, <2>3, MinBounds DEF TypeOK
      <4>3. CPS * (refills[b] + 1) = CPS * refills[b] + CPS
        BY <2>1 DEF TypeOK
      <4>4. /\ token[b] \in Int /\ token'[b] \in Int /\ issued[b] \in Int
            /\ CPS * refills[b] \in Int
        BY <2>1, <2>7 DEF TypeOK
      <4>5. issued'[b] = issued[b]
        BY <2>1, <2>3, <3>2 DEF TypeOK
      <4>. QED
        BY <2>1, <4>1, <4>2, <4>3, <4>4, <4>5 DEF RateBound, Recording
    <3>. QED
      BY <3>1, <3>2 DEF RateBound, Recording
  <2>9. Sweep'
    BY <1>1, <2>3 DEF AlarmRefill, Sweep
  <2>10. Owners' /\ Table' /\ FetchNonEmpty'
    <3>1. UNCHANGED <<job, heap, upc, mine, have>>
      BY <2>3
    <3>. QED
      BY <3>1 DEF Owners, Table, FetchNonEmpty
  <2>. QED
    BY <2>7, <2>8, <2>9, <2>10
<1>2. CASE AlarmLock \/ AlarmScan \/ AlarmUnlock \/ AlarmWake
  <2>1. TypeOK'
    BY <1>2 DEF AlarmLock, AlarmScan, AlarmUnlock, AlarmWake, TypeOK
  <2>2. Sweep'
    BY <1>2 DEF AlarmLock, AlarmScan, AlarmUnlock, AlarmWake, Sweep, TypeOK,
       Pos
  <2>3. UNCHANGED <<job, heap, upc, mine, have, token, refills, issued>>
    BY <1>2 DEF AlarmLock, AlarmScan, AlarmUnlock, AlarmWake
  <2>. QED
    BY <2>1, <2>2, <2>3 DEF Owners, Table, RateBound, Recording,
       FetchNonEmpty
<1>. QED
  BY <1>1, <1>2 DEF AlarmStep

LEMMA UnloadKeepsInv ==
  ASSUME BucketInv, Unload \/ SpuriousWakeup
  PROVE  BucketInv'
<1>. USE BucketAssumption
     DEF BucketInv, bucketVars, userVars, alarmVars, exitVars, history
<1>1. CASE UnloadSlot
  <2>1. UNCHANGED <<token, waiting, mut_job, userVars, alarmVars, epc, history>>
    BY <1>1 DEF UnloadSlot
  <2>2. CASE job[ei] = NoBucket
    <3>1. UNCHANGED <<job, heap>>
      BY <1>1, <2>2 DEF UnloadSlot
    <3>2. TypeOK'
      BY <1>1, <2>1, <3>1 DEF UnloadSlot, TypeOK
    <3>. QED
      BY <2>1, <3>1, <3>2 DEF Owners, Table, Sweep, RateBound, Recording,
         FetchNonEmpty
  <2>3. CASE job[ei] # NoBucket
    <3>. DEFINE b == job[ei]
    <3>1. b \in Buckets /\ mut_job = NoUser
      BY <1>1, <2>3 DEF UnloadSlot, TypeOK, Pos
    <3>2. /\ job' = [p \in Pos |-> IF job[p] = b THEN NoBucket ELSE job[p]]
          /\ heap' = [heap EXCEPT ![b] = "freed"]
      BY <1>1, <2>3 DEF UnloadSlot, Unlinked
    <3>. HIDE DEF b
    <3>3. TypeOK'
      <4>1. ei \in 0 .. MYTBF_MAX /\ ei < MYTBF_MAX /\ ei' = ei + 1
        BY <1>1 DEF UnloadSlot, TypeOK
      <4>2. ei' \in 0 .. MYTBF_MAX
        BY <4>1
      <4>3. job' \in [Pos -> Buckets \cup {NoBucket}]
        BY <3>2 DEF TypeOK
      <4>4. heap' \in [Buckets -> {"none", "live", "freed"}]
        BY <3>2 DEF TypeOK
      <4>. QED
        BY <2>1, <4>2, <4>3, <4>4 DEF TypeOK
    <3>4. Owners'
      BY <2>1, <3>1, <3>2 DEF Owners, TypeOK
    <3>5. \E p \in Pos : job[p] = b
      BY <1>1 DEF UnloadSlot, TypeOK, Pos, b
    <3>6. Table'
      <4>1. UNCHANGED <<upc, mine>>
        BY <2>1
      <4>2. \A p \in Pos : job'[p] \in Buckets => heap'[job'[p]] = "live"
        BY <3>1, <3>2 DEF Table, TypeOK
      <4>3. \A u \in Users : upc[u] \in {"place", "free"} =>
                              mine[u] \in Buckets /\ mine[u] # b
        BY <3>5 DEF Owners, Working, Table
      <4>4. \A u \in Users : upc[u] \in {"place", "free"} =>
                              \A p \in Pos : job'[p] # mine[u]
        BY <3>2, <4>3 DEF Table
      <4>5. \A u \in Users : upc[u] = "place" => heap'[mine[u]] = "live"
        BY <3>2, <4>3 DEF Table, TypeOK
      <4>. QED
        BY <4>1, <4>2, <4>4, <4>5 DEF Table
    <3>7. Sweep'
      BY <2>1, <3>1 DEF Sweep
    <3>. QED
      BY <2>1, <3>3, <3>4, <3>6, <3>7 DEF RateBound, Recording, FetchNonEmpty
  <2>. QED
    BY <2>2, <2>3
<1>2. CASE Exit \/ UnloadJoin \/ UnloadDone \/ SpuriousWakeup
  <2>1. /\ UNCHANGED <<job, token, heap, mut_job, userVars, alarmVars, ei,
                       history>>
        /\ epc' \in {"running", "join", "unload", "over"}
        /\ waiting' \in [Buckets -> SUBSET Users]
    BY <1>2 DEF Exit, UnloadJoin, UnloadDone, SpuriousWakeup, TypeOK
  <2>. QED
    BY <2>1 DEF TypeOK, Owners, Table, Sweep, RateBound, Recording,
       FetchNonEmpty
<1>. QED
  BY <1>1, <1>2 DEF Unload

LEMMA BucketStep == BucketInv /\ [Next]_vars => BucketInv'
<1>. SUFFICES ASSUME BucketInv, [Next]_vars PROVE BucketInv'
  OBVIOUS
<1>1. ASSUME NEW u \in Users, User(u)
      PROVE  BucketInv'
  BY <1>1, UserTypes, UserTable, UserRate, UserNonEmpty DEF BucketInv
<1>2. CASE AlarmStep
  BY <1>2, AlarmKeepsInv
<1>3. CASE Unload \/ SpuriousWakeup
  BY <1>3, UnloadKeepsInv
<1>4. CASE UNCHANGED vars
  BY <1>4 DEF vars, bucketVars, userVars, alarmVars, exitVars, history,
     BucketInv, TypeOK, Owners, Table, Sweep, RateBound, Recording,
     FetchNonEmpty
<1>. QED
  BY <1>1, <1>2, <1>3, <1>4 DEF Next

THEOREM BucketInvariant == Spec => []BucketInv
BY BucketInit, BucketStep, PTL DEF Spec

\* No bucket ever holds more than `burst` tokens, or fewer than none.
THEOREM BucketTypeCorrect == Spec => []TypeOK
<1>1. BucketInv => TypeOK
  BY DEF BucketInv
<1>. QED
  BY <1>1, BucketInvariant, PTL

\* The clients of a bucket never spend more than cps per refill, for any
\* number of clients, refills, partial reads and returned tokens.
THEOREM BucketRateBound == Spec => []RateBound
<1>1. BucketInv => RateBound
  BY DEF BucketInv
<1>. QED
  BY <1>1, BucketInvariant, PTL

\* No fetch returns 0, which the client would take for the end of the file.
THEOREM BucketFetchNonEmpty == Spec => []FetchNonEmpty
<1>1. BucketInv => FetchNonEmpty
  BY DEF BucketInv
<1>. QED
  BY <1>1, BucketInvariant, PTL

\* thr_alrm never follows a pointer of `job` to a struct that was freed.
THEOREM BucketAlarmTouchesLive == Spec => []AlarmTouchesLive
<1>1. BucketInv => AlarmTouchesLive
  BY BucketAssumption DEF BucketInv, Sweep, Table, AlarmTouchesLive
<1>. QED
  BY <1>1, BucketInvariant, PTL
-----------------------------------------------------------------------------
(* The end of the process: nothing is left behind.                         *)

\* Every live bucket is in the table, or in the hands of the client that is
\* about to put it there or has just taken it out, and no bucket is in two
\* slots: module_unload, which goes over the table once, finds them all.
Tracked ==
  /\ \A p, q \in Pos : job[p] \in Buckets /\ job[p] = job[q] => p = q
  /\ \A b \in Buckets : heap[b] = "live" =>
       \/ \E p \in Pos : job[p] = b
       \/ \E u \in Users : upc[u] \in {"place", "free"} /\ mine[u] = b

\* exit waits for the clients, module_unload for thr_alrm; the slots it has
\* passed stay empty.
Unloading ==
  /\ epc # "running" => \A u \in Users : upc[u] = "done"
  /\ epc \in {"running", "join"} => ei = 0
  /\ epc \in {"unload", "over"} =>
       /\ apc = "ended"
       /\ \A p \in Pos : p < ei => job[p] = NoBucket
  /\ epc = "over" => ei = MYTBF_MAX

EndInv == BucketInv /\ Tracked /\ Unloading

\* The first free slot is a slot, and free.
LEMMA FreeSlot ==
  ASSUME NEW p \in Pos, job[p] = NoBucket
  PROVE  FreePos \in Pos /\ job[FreePos] = NoBucket
<1>. DEFINE S == {q \in Pos : job[q] = NoBucket}
<1>1. S \subseteq Nat /\ S # {}
  BY BucketAssumption DEF Pos
<1>2. /\ \A x \in S : x \in Pos /\ job[x] = NoBucket
      /\ \A y \in Pos : job[y] = NoBucket => y \in S
  OBVIOUS
<1>. HIDE DEF S
<1>3. \E x \in S : \A y \in S : ~(<<y, x>> \in OpToRel(<, Nat))
  BY <1>1, NatLessThanWellFounded, WFMin
<1>4. ASSUME NEW x \in S, NEW y \in S, y < x
      PROVE  <<y, x>> \in OpToRel(<, Nat)
  BY <1>1, <1>4 DEF OpToRel
<1>5. \A x, y \in Nat : ~(y < x) => x <= y
  OBVIOUS
<1>6. \E x \in S : \A y \in S : x <= y
  BY <1>1, <1>3, <1>4, <1>5, Zenon
<1>. QED
  BY <1>2, <1>6 DEF FreePos

LEMMA EndInit == Init => EndInv
<1>1. Init => Tracked /\ Unloading
  BY BucketAssumption DEF Init, Tracked, Unloading
<1>. QED
  BY <1>1, BucketInit DEF EndInv

\* No client takes a step once exit has begun.
LEMMA UserKeepsUnloading ==
  ASSUME EndInv, NEW u \in Users, User(u)
  PROVE  Unloading'
<1>1. upc[u] # "done" /\ UNCHANGED exitVars
  BY DEF User, InitBucket, Place, Share, FetchWait, Fetch, Read, ReadEnds,
     Write, WriteFails, Abandon, Unlink, Free, Goto
<1>2. epc = "running"
  BY <1>1 DEF EndInv, Unloading
<1>. QED
  BY <1>1, <1>2 DEF EndInv, exitVars, Unloading

LEMMA UserKeepsTracked ==
  ASSUME EndInv, NEW u \in Users, User(u)
  PROVE  Tracked'
<1>. USE BucketAssumption DEF EndInv, BucketInv, TypeOK
<1>1. CASE InitBucket(u)
  <2>1. PICK b \in Buckets : /\ heap[b] = "none"
                             /\ heap' = [heap EXCEPT ![b] = "live"]
                             /\ mine' = [mine EXCEPT ![u] = b]
    BY <1>1 DEF InitBucket
  <2>2. upc[u] = "start" /\ upc' = [upc EXCEPT ![u] = "place"] /\ job' = job
    BY <1>1 DEF InitBucket, Goto
  <2>3. upc'[u] = "place" /\ mine'[u] = b
    BY <2>1, <2>2
  <2>4. \A v \in Users : upc[v] \in {"place", "free"} =>
          upc'[v] = upc[v] /\ mine'[v] = mine[v]
    BY <2>1, <2>2
  <2>5. \A c \in Buckets : heap'[c] = "live" => c = b \/ heap[c] = "live"
    BY <2>1
  <2>. QED
    BY <2>2, <2>3, <2>4, <2>5 DEF Tracked
<1>2. CASE Place(u)
  <2>1. CASE \E p \in Pos : job[p] = NoBucket
    <3>1. FreePos \in Pos /\ job[FreePos] = NoBucket
      BY <2>1, FreeSlot
    <3>2. /\ job' = [job EXCEPT ![FreePos] = mine[u]]
          /\ upc[u] = "place" /\ upc' = [upc EXCEPT ![u] = "fetch"]
          /\ UNCHANGED <<heap, mine>>
      BY <1>2, <2>1 DEF Place
    <3>3. mine[u] \in Buckets /\ \A p \in Pos : job[p] # mine[u]
      BY <3>2 DEF Owners, Working, Table
    <3>4. job'[FreePos] = mine[u]
            /\ \A p \in Pos \ {FreePos} : job'[p] = job[p]
      BY <3>1, <3>2
    <3>. HIDE DEF FreePos
    <3>5. \A p, q \in Pos : job'[p] \in Buckets /\ job'[p] = job'[q] => p = q
      BY <3>3, <3>4 DEF Tracked
    <3>6. ASSUME NEW b \in Buckets, heap[b] = "live"
          PROVE  \/ \E p \in Pos : job'[p] = b
                 \/ \E v \in Users : upc'[v] \in {"place", "free"} /\ mine[v] = b
      <4>1. CASE \E p \in Pos : job[p] = b
        BY <3>1, <3>4, <4>1
      <4>2. CASE \E v \in Users : upc[v] \in {"place", "free"} /\ mine[v] = b
        BY <3>1, <3>2, <3>4, <4>2
      <4>. QED
        BY <3>6, <4>1, <4>2 DEF Tracked
    <3>. QED
      BY <3>2, <3>5, <3>6 DEF Tracked
  <2>2. CASE ~ \E p \in Pos : job[p] = NoBucket
    <3>1. /\ heap' = [heap EXCEPT ![mine[u]] = "freed"]
          /\ upc[u] = "place" /\ upc' = [upc EXCEPT ![u] = "done"]
          /\ UNCHANGED <<job, mine>>
      BY <1>2, <2>2 DEF Place
    <3>2. \A b \in Buckets : heap'[b] = "live" => heap[b] = "live" /\ b # mine[u]
      BY <3>1
    <3>. QED
      BY <3>1, <3>2 DEF Tracked
  <2>. QED
    BY <2>1, <2>2
<1>3. CASE Share(u)
  BY <1>3 DEF Share, Goto, Tracked, bucketVars
<1>4. CASE \/ FetchWait(u) \/ Fetch(u) \/ Read(u) \/ ReadEnds(u) \/ Write(u)
           \/ WriteFails(u) \/ Abandon(u)
  <2>1. /\ UNCHANGED <<job, heap, mine>>
        /\ \A v \in Users : upc[v] \in {"place", "free"} => upc'[v] = upc[v]
    BY <1>4, QuietSteps DEF Working
  <2>. QED
    BY <2>1 DEF Tracked
<1>5. CASE Unlink(u)
  <2>1. /\ job' = [p \in Pos |-> IF job[p] = mine[u] THEN NoBucket ELSE job[p]]
        /\ upc[u] = "unlink" /\ upc' = [upc EXCEPT ![u] = "free"]
        /\ UNCHANGED <<heap, mine>>
    BY <1>5 DEF Unlink, Unlinked, Goto
  <2>2. upc'[u] = "free"
    BY <2>1
  <2>3. \A p \in Pos : job[p] # mine[u] => job'[p] = job[p]
    BY <2>1
  <2>4. \A v \in Users : upc[v] \in {"place", "free"} => upc'[v] = upc[v]
    BY <2>1
  <2>5. \A p, q \in Pos : job'[p] \in Buckets /\ job'[p] = job'[q] => p = q
    BY <2>1 DEF Tracked
  <2>. QED
    BY <2>1, <2>2, <2>3, <2>4, <2>5 DEF Tracked
<1>6. CASE Free(u)
  <2>1. /\ heap' = [heap EXCEPT ![mine[u]] = "freed"]
        /\ upc[u] = "free" /\ upc' = [upc EXCEPT ![u] = "done"]
        /\ UNCHANGED <<job, mine>>
    BY <1>6 DEF Free, Goto
  <2>2. \A b \in Buckets : heap'[b] = "live" => heap[b] = "live" /\ b # mine[u]
    BY <2>1
  <2>. QED
    BY <2>1, <2>2 DEF Tracked
<1>. QED
  BY <1>1, <1>2, <1>3, <1>4, <1>5, <1>6 DEF User

LEMMA OthersKeepEnd ==
  ASSUME EndInv, AlarmStep \/ Unload \/ SpuriousWakeup
  PROVE  Tracked' /\ Unloading'
<1>. USE BucketAssumption
     DEF EndInv, BucketInv, TypeOK, bucketVars, userVars, alarmVars, exitVars
<1>1. CASE AlarmStep
  <2>1. UNCHANGED <<job, heap, upc, mine, epc, ei>> /\ apc # "ended"
    BY <1>1 DEF AlarmStep, AlarmLock, AlarmScan, AlarmRefill, AlarmUnlock,
       AlarmWake
  <2>. QED
    BY <2>1 DEF Tracked, Unloading
<1>2. CASE UnloadSlot /\ job[ei] = NoBucket
  <2>1. /\ UNCHANGED <<job, heap, upc, mine, apc, epc>>
        /\ ei' = ei + 1 /\ ei \in Pos /\ epc = "unload"
    BY <1>2 DEF UnloadSlot, Pos
  <2>2. \A p \in Pos : p < ei + 1 => p < ei \/ p = ei
    BY <2>1 DEF Pos
  <2>. QED
    BY <1>2, <2>1, <2>2 DEF Tracked, Unloading
<1>3. CASE UnloadSlot /\ job[ei] # NoBucket
  <2>. DEFINE b == job[ei]
  <2>1. /\ UNCHANGED <<upc, mine, apc, epc>>
        /\ ei' = ei + 1 /\ ei \in Pos /\ epc = "unload"
        /\ job' = [p \in Pos |-> IF job[p] = b THEN NoBucket ELSE job[p]]
        /\ heap' = [heap EXCEPT ![b] = "freed"]
    BY <1>3 DEF UnloadSlot, Unlinked, Pos
  <2>2. \A p \in Pos : p < ei + 1 => p < ei \/ p = ei
    BY <2>1 DEF Pos
  <2>3. \A p \in Pos : p < ei + 1 => job'[p] = NoBucket
    BY <2>1, <2>2 DEF Unloading
  <2>4. Unloading'
    BY <2>1, <2>3 DEF Unloading
  <2>5. \A p, q \in Pos : job'[p] \in Buckets /\ job'[p] = job'[q] => p = q
    BY <2>1 DEF Tracked
  <2>6. \A c \in Buckets : heap'[c] = "live" => heap[c] = "live" /\ c # b
    BY <2>1
  <2>7. \A p \in Pos : job[p] # b => job'[p] = job[p]
    BY <2>1
  <2>. HIDE DEF b
  <2>8. Tracked'
    BY <2>1, <2>5, <2>6, <2>7 DEF Tracked
  <2>. QED
    BY <2>4, <2>8
<1>4. CASE Exit \/ UnloadJoin \/ UnloadDone
  <2>1. UNCHANGED <<job, heap, upc, mine, apc, ei>>
    BY <1>4 DEF Exit, UnloadJoin, UnloadDone
  <2>2. Unloading'
    <3>1. CASE Exit
      BY <2>1, <3>1 DEF Exit, Unloading
    <3>2. CASE UnloadJoin
      <4>1. ei = 0 /\ epc' = "unload" /\ apc = "ended"
              /\ \A u \in Users : upc[u] = "done"
        BY <3>2 DEF UnloadJoin, Unloading
      <4>2. \A p \in Pos : ~(p < 0)
        BY DEF Pos
      <4>. QED
        BY <2>1, <4>1, <4>2 DEF Unloading
    <3>3. CASE UnloadDone
      BY <2>1, <3>3 DEF UnloadDone, Unloading
    <3>. QED
      BY <1>4, <3>1, <3>2, <3>3
  <2>. QED
    BY <2>1, <2>2 DEF Tracked
<1>5. CASE SpuriousWakeup
  BY <1>5 DEF SpuriousWakeup, Tracked, Unloading
<1>. QED
  BY <1>1, <1>2, <1>3, <1>4, <1>5 DEF Unload

THEOREM BucketEndInvariant == Spec => []EndInv
<1>1. EndInv /\ [Next]_vars => EndInv'
  <2>. SUFFICES ASSUME EndInv, [Next]_vars PROVE EndInv'
    OBVIOUS
  <2>1. ASSUME BucketInv'
        PROVE  EndInv'
    <3>1. ASSUME NEW u \in Users, User(u)
          PROVE  Tracked' /\ Unloading'
      BY <3>1, UserKeepsTracked, UserKeepsUnloading
    <3>2. CASE UNCHANGED vars
      BY <2>1, <3>2 DEF EndInv, Tracked, Unloading, vars, bucketVars, userVars,
         alarmVars, exitVars
    <3>. QED
      BY <2>1, <3>1, <3>2, OthersKeepEnd DEF Next, EndInv
  <2>2. BucketInv'
    BY BucketStep DEF EndInv
  <2>. QED
    BY <2>1, <2>2
<1>. QED
  BY <1>1, EndInit, PTL DEF Spec

\* When the process is over, thr_alrm has ended without mut_job in its hands
\* when it is destroyed, and every bucket any client allocated has been freed:
\* by its last user, by the client that found the table full, or by
\* module_unload.
THEOREM BucketCleanEnd == Spec => []CleanEnd
<1>1. EndInv => CleanEnd
  <2>. SUFFICES ASSUME EndInv, epc = "over" PROVE CleanEnd
    BY DEF CleanEnd
  <2>1. apc = "ended" /\ mut_job = NoUser
    BY BucketAssumption DEF EndInv, Unloading, BucketInv, Sweep, TypeOK
  <2>2. \A p \in Pos : job[p] = NoBucket
    BY BucketAssumption DEF EndInv, Unloading, Pos
  <2>3. \A u \in Users : upc[u] = "done"
    BY DEF EndInv, Unloading
  <2>. QED
    BY <2>1, <2>2, <2>3, BucketAssumption DEF EndInv, Tracked, CleanEnd
<1>. QED
  BY <1>1, BucketEndInvariant, PTL
=============================================================================
