--------------------------- MODULE AnyTimerProofs ---------------------------
(***************************************************************************)
(* Proofs about AnyTimer, for a table of any length and any delays.        *)
(***************************************************************************)
EXTENDS AnyTimer, WellFoundedInduction, TLAPS

-----------------------------------------------------------------------------
(* The inductive invariant. *)

Live(i) == job[i] # NoJob

\* Ticks handled and ticks left make up the delay of a running job.
Counted(i) ==
  /\ Live(i) =>
       /\ job[i].state = "running" /\ job[i].remain > 0 =>
            since[i] + job[i].remain = job[i].sec
       /\ job[i].state = "running" /\ ~job[i].repeat => i \notin called
       /\ job[i].state = "over" => ~job[i].repeat /\ i \in called
  /\ ~Live(i) => since[i] = 0 /\ i \notin called

Counting == \A i \in Ids : Counted(i)

\* The job that is called is due.
Calling ==
  hpc = "call" => /\ hi \in Ids /\ Live(hi)
                  /\ job[hi].state = "running"
                  /\ since[hi] = job[hi].sec

\* at_waitjob holds on to a job that nobody else frees.
Waiting ==
  /\ mpc \in {"test", "pause", "paused", "free", "null"} =>
       id \in Ids /\ Live(id) /\ ~job[id].repeat
  /\ mpc \in {"free", "null"} => job[id].state = "over"
  /\ freed # {} => mpc = "null" /\ freed = {id}
  /\ mpc = "cancel" => id \in Ids

\* Ticks need the module's action, from the first one to the last.
Ticking ==
  /\ armed \/ pending \/ mpc = "arm" => action = "ours"
  /\ mpc = "restore" => ~armed
  /\ mpc # "killed"

TimerInv == TimerTypeOK /\ Counting /\ Calling /\ Waiting /\ Ticking

-----------------------------------------------------------------------------
\* What a job is.
LEMMA JobFields ==
  ASSUME TimerTypeOK, NEW i \in Ids, Live(i)
  PROVE  /\ job[i] \in Jobs
         /\ job[i].state \in {"running", "over"}
         /\ job[i].sec \in 0 .. MaxSec
         /\ job[i].remain \in -1 .. MaxSec
         /\ job[i].repeat \in BOOLEAN
<1>1. job[i] \in Jobs
  BY DEF TimerTypeOK, Live
<1>2. Secs \subseteq 0 .. MaxSec
  BY TimerAssumption
<1>. QED
  BY <1>1, <1>2 DEF Jobs

\* get_free_pos finds an empty entry when there is one.
LEMMA FreeEntry ==
  ASSUME NEW k \in Ids, job[k] = NoJob
  PROVE  FreePos \in Ids /\ job[FreePos] = NoJob
<1>. DEFINE E == {i \in Ids : job[i] = NoJob}
<1>1. E \subseteq Nat /\ E # {}
  BY TimerAssumption DEF Ids
<1>2. \A x \in E : x \in Ids /\ job[x] = NoJob
  OBVIOUS
<1>3. \A y \in Ids : job[y] = NoJob => y \in E
  OBVIOUS
<1>. HIDE DEF E
<1>4. \E x \in E : \A y \in E : ~(<<y, x>> \in OpToRel(<, Nat))
  BY <1>1, NatLessThanWellFounded, WFMin
<1>5. ASSUME NEW x \in E, NEW y \in E, y < x
      PROVE  <<y, x>> \in OpToRel(<, Nat)
  BY <1>1, <1>5 DEF OpToRel
<1>6. \A x, y \in Nat : ~(y < x) => x <= y
  OBVIOUS
<1>7. \E x \in E : \A y \in E : x <= y
  BY <1>1, <1>4, <1>5, <1>6, Zenon
<1>. QED
  BY <1>2, <1>3, <1>7 DEF FreePos

LEMMA TimerInit == Init => TimerInv
<1>. SUFFICES ASSUME Init PROVE TimerInv
  OBVIOUS
<1>1. 0 \in 0 .. JOB_MAX /\ 0 \in 0 .. MaxSec /\ 0 \in 0 .. 2 /\ 0 \in Nat
  BY TimerAssumption
<1>2. TimerTypeOK
  BY <1>1 DEF Init, TimerTypeOK
<1>3. Counting /\ Calling /\ Waiting /\ Ticking
  BY DEF Init, Counting, Counted, Calling, Waiting, Ticking, Live
<1>. QED
  BY <1>2, <1>3 DEF TimerInv

-----------------------------------------------------------------------------
(* The timer and the handler. *)

LEMMA TickKeepsInv ==
  ASSUME TimerInv, Tick \/ Deliver \/ Return
  PROVE  TimerInv'
<1>. USE DEF TimerInv, timerVars, handlerVars, mainVars, history
<1>1. UNCHANGED <<job, freed, action, armed, id, since, called, canceled>>
  BY DEF Tick, Deliver, Return
<1>2. TimerTypeOK'
  <2>1. hi' \in {0, hi} /\ pending' \in {TRUE, FALSE, pending}
    BY DEF Tick, Deliver, Return
  <2>2. hi' \in 0 .. JOB_MAX
    BY <2>1, TimerAssumption DEF TimerTypeOK
  <2>3. hpc' \in {hpc, "scan", "idle"} /\ mpc' \in {mpc, "killed", "test"}
    BY DEF Tick, Deliver, Return
  <2>. QED
    BY <1>1, <2>1, <2>2, <2>3 DEF TimerTypeOK
<1>3. Counting'
  BY <1>1 DEF Counting, Counted, Live
<1>4. Calling'
  BY <1>1 DEF Calling, Live, Tick, Deliver, Return
<1>5. Ticking'
  BY <1>1 DEF Ticking, Tick, Deliver, Return
<1>6. Waiting'
  BY <1>1, <1>5 DEF Waiting, Live, Tick, Deliver, Return, Ticking
<1>. QED
  BY <1>2, <1>3, <1>4, <1>5, <1>6

\* The entry the handler looks at: a running job that is not due yet, one that
\* is, or no running job at all.
LEMMA ScanKeepsInv ==
  ASSUME TimerInv, Scan
  PROVE  TimerInv'
<1>. USE DEF TimerInv, timerVars, handlerVars, mainVars, history
<1>1. /\ hpc = "scan" /\ hi \in Ids
      /\ UNCHANGED <<freed, action, armed, pending, mpc, id, called, canceled>>
  BY DEF Scan
<1>2. hi \in 0 .. JOB_MAX /\ hi + 1 \in 0 .. JOB_MAX
  BY <1>1, TimerAssumption DEF Ids
<1>3. Ticking'
  BY <1>1 DEF Ticking
<1>4. CASE ~Running(hi)
  <2>1. hi' = hi + 1 /\ UNCHANGED <<job, since, hpc>>
    BY <1>4 DEF Scan
  <2>. QED
    BY <1>1, <1>2, <1>3, <2>1
       DEF TimerTypeOK, Counting, Counted, Calling, Waiting, Live
<1>5. CASE Running(hi)
  <2>. DEFINE r == job[hi].remain
              r1 == IF r < 0 THEN r ELSE r - 1
  <2>1. Live(hi) /\ job[hi].state = "running"
    BY <1>5 DEF Running, Live
  <2>2. /\ job[hi] \in Jobs /\ r \in -1 .. MaxSec
        /\ job[hi].sec \in 0 .. MaxSec
    BY <1>1, <2>1, JobFields
  <2>3. r1 \in -1 .. MaxSec
    BY <2>2, TimerAssumption
  <2>4. /\ job' = [job EXCEPT ![hi].remain = r1]
        /\ since' = [since EXCEPT ![hi] =
                       IF @ < MaxSec THEN @ + 1 ELSE @]
        /\ IF job'[hi].remain = 0 THEN hpc' = "call" /\ UNCHANGED hi
                                  ELSE hi' = hi + 1 /\ UNCHANGED hpc
    BY <1>5 DEF Scan
  <2>5. job'[hi] = [job[hi] EXCEPT !.remain = r1]
    BY <1>1, <2>4 DEF TimerTypeOK
  <2>6. /\ job'[hi] \in Jobs /\ job'[hi].remain = r1
        /\ job'[hi].state = job[hi].state /\ job'[hi].sec = job[hi].sec
        /\ job'[hi].repeat = job[hi].repeat
    BY <2>2, <2>3, <2>5 DEF Jobs
  <2>7. \A i \in Ids : i # hi => job'[i] = job[i] /\ since'[i] = since[i]
    BY <1>1, <2>4 DEF TimerTypeOK
  <2>8. since[hi] \in 0 .. MaxSec
    BY <1>1 DEF TimerTypeOK
  <2>9. since'[hi] = IF since[hi] < MaxSec THEN since[hi] + 1 ELSE since[hi]
    BY <1>1, <2>4 DEF TimerTypeOK
  <2>10. r > 0 => since'[hi] + r1 = job[hi].sec
    BY <1>1, <2>1, <2>2, <2>8, <2>9, TimerAssumption
       DEF Counting, Counted
  <2>11. job'[hi] # NoJob
    BY <2>6, NoJobAssumption
  <2>. HIDE DEF r1, r
  <2>12. TimerTypeOK'
    <3>1. since'[hi] \in 0 .. MaxSec
      BY <2>8, <2>9, TimerAssumption
    <3>2. since' \in [Ids -> 0 .. MaxSec]
      BY <1>1, <2>4, <2>7, <3>1 DEF TimerTypeOK
    <3>3. job' \in [Ids -> Jobs \cup {NoJob}]
      BY <1>1, <2>4, <2>6, <2>7 DEF TimerTypeOK
    <3>4. hi' \in 0 .. JOB_MAX /\ hpc' \in {"idle", "scan", "call"}
      BY <1>1, <1>2, <2>4
    <3>. QED
      BY <1>1, <3>2, <3>3, <3>4 DEF TimerTypeOK
  <2>13. r1 >= 0 => r > 0
    BY <2>2 DEF r1, r
  <2>14. Counting'
    <3>1. ASSUME NEW i \in Ids, i # hi
          PROVE  Counted(i)'
      BY <1>1, <2>7, <3>1 DEF Counting, Counted, Live
    <3>2. r1 > 0 => since'[hi] + r1 = job[hi].sec
      BY <2>3, <2>10, <2>13
    <3>3. ~job[hi].repeat => hi \notin called
      BY <1>1, <2>1 DEF Counting, Counted
    <3>4. ASSUME NEW i \in Ids, i = hi
          PROVE  Counted(i)'
      BY <1>1, <2>1, <2>6, <2>11, <3>2, <3>3, <3>4 DEF Counted, Live
    <3>. QED
      BY <3>1, <3>4 DEF Counting
  <2>15. Calling'
    <3>1. CASE r1 = 0
      <4>1. since'[hi] = job[hi].sec
        <5>1. r > 0 /\ since'[hi] \in Int /\ job[hi].sec \in Int
          BY <2>2, <2>8, <2>9, <2>13, <3>1
        <5>. QED
          BY <2>10, <3>1, <5>1
      <4>. QED
        BY <1>1, <2>1, <2>4, <2>6, <2>11, <3>1, <4>1 DEF Calling, Live
    <3>2. CASE r1 # 0
      BY <1>1, <2>4, <2>6, <3>2 DEF Calling
    <3>. QED
      BY <3>1, <3>2
  <2>16. Waiting'
    <3>1. \A i \in Ids : Live(i) => /\ job'[i] # NoJob
                                   /\ job'[i].repeat = job[i].repeat
                                   /\ job'[i].state = job[i].state
      BY <2>6, <2>7, <2>11 DEF Live
    <3>. QED
      BY <1>1, <3>1 DEF Waiting, Live
  <2>. QED
    BY <1>3, <2>12, <2>14, <2>15, <2>16
<1>. QED
  BY <1>4, <1>5

LEMMA CallKeepsInv ==
  ASSUME TimerInv, Call
  PROVE  TimerInv'
<1>. USE DEF TimerInv, timerVars, handlerVars, mainVars, history
<1>1. /\ hpc = "call" /\ hpc' = "scan" /\ hi' = hi + 1
      /\ UNCHANGED <<freed, action, armed, pending, mpc, id>>
      /\ called' = called \cup {hi} /\ canceled' = canceled \ {hi}
      /\ since' = [since EXCEPT ![hi] = 0]
      /\ job' = IF job[hi].repeat
                  THEN [job EXCEPT ![hi].remain = job[hi].sec]
                  ELSE [job EXCEPT ![hi].state = "over"]
  BY DEF Call
<1>2. hi \in Ids /\ Live(hi) /\ job[hi].state = "running"
  BY <1>1 DEF Calling
<1>3. /\ job[hi] \in Jobs /\ job[hi].sec \in 0 .. MaxSec
      /\ job[hi].repeat \in BOOLEAN
  BY <1>2, JobFields
<1>4. /\ job'[hi] \in Jobs
      /\ job'[hi].sec = job[hi].sec /\ job'[hi].repeat = job[hi].repeat
      /\ job[hi].repeat => job'[hi].state = "running"
                           /\ job'[hi].remain = job[hi].sec
      /\ ~job[hi].repeat => job'[hi].state = "over"
  <2>1. job[hi].sec \in -1 .. MaxSec
    BY <1>3
  <2>2. CASE job[hi].repeat
    <3>1. job'[hi] = [job[hi] EXCEPT !.remain = job[hi].sec]
      BY <1>1, <1>2, <2>2 DEF TimerTypeOK
    <3>. QED
      BY <1>2, <1>3, <2>1, <2>2, <3>1 DEF Jobs
  <2>3. CASE ~job[hi].repeat
    <3>1. job'[hi] = [job[hi] EXCEPT !.state = "over"]
      BY <1>1, <1>2, <2>3 DEF TimerTypeOK
    <3>. QED
      BY <1>3, <2>3, <3>1 DEF Jobs
  <2>. QED
    BY <1>3, <2>2, <2>3
<1>5. \A i \in Ids : i # hi => /\ job'[i] = job[i] /\ since'[i] = since[i]
                               /\ i \in called' <=> i \in called
  BY <1>1, <1>2 DEF TimerTypeOK
<1>6. hi \in called' /\ since'[hi] = 0
  BY <1>1, <1>2 DEF TimerTypeOK
<1>7. job'[hi] # NoJob
  BY <1>4, NoJobAssumption
<1>8. TimerTypeOK'
  <2>1. hi' \in 0 .. JOB_MAX /\ 0 \in 0 .. MaxSec
    BY <1>1, <1>2, TimerAssumption DEF Ids
  <2>2. since' \in [Ids -> 0 .. MaxSec]
    BY <1>1, <2>1 DEF TimerTypeOK
  <2>3. called' \subseteq Ids /\ canceled' \subseteq Ids
    BY <1>1, <1>2 DEF TimerTypeOK
  <2>4. job' \in [Ids -> Jobs \cup {NoJob}]
    <3>1. DOMAIN job' = Ids /\ job' = [i \in Ids |-> job'[i]]
      BY <1>1 DEF TimerTypeOK
    <3>. QED
      BY <1>4, <1>5, <3>1 DEF TimerTypeOK
  <2>. QED
    BY <1>1, <2>1, <2>2, <2>3, <2>4 DEF TimerTypeOK
<1>9. Counting'
  <2>1. ASSUME NEW i \in Ids, i # hi
        PROVE  Counted(i)'
    BY <1>5, <2>1 DEF Counting, Counted, Live
  <2>2. 0 + job[hi].sec = job[hi].sec
    BY <1>3
  <2>3. ASSUME NEW i \in Ids, i = hi
        PROVE  Counted(i)'
    BY <1>4, <1>6, <1>7, <2>2, <2>3 DEF Counted, Live
  <2>. QED
    BY <2>1, <2>3 DEF Counting
<1>10. Calling' /\ Ticking'
  BY <1>1 DEF Calling, Ticking
<1>11. Waiting'
  <2>1. \A i \in Ids : Live(i) => /\ job'[i] # NoJob
                                 /\ job'[i].repeat = job[i].repeat
    BY <1>4, <1>5, <1>7 DEF Live
  <2>2. \A i \in Ids : job[i].state = "over" => job'[i].state = "over"
    BY <1>2, <1>5
  <2>. QED
    BY <1>1, <2>1, <2>2 DEF Waiting, Live
<1>. QED
  BY <1>8, <1>9, <1>10, <1>11

-----------------------------------------------------------------------------
(* The main flow. *)

\* Steps that leave the table alone.
LEMMA QuietSteps ==
  ASSUME TimerInv,
         \/ Add \/ LoadAction \/ LoadTimer \/ NoPlace
         \/ Cancel \/ CancelReturn \/ Wait \/ WaitTest \/ WaitPause
         \/ Exit \/ StopTimer \/ Restore
  PROVE  TimerInv'
<1>. USE DEF TimerInv, timerVars, handlerVars, mainVars, history, Goto
<1>1. /\ UNCHANGED <<job, freed, hpc, hi, pending, since, called>>
      /\ hpc = "idle"
  BY DEF Add, LoadAction, LoadTimer, NoPlace, Cancel, CancelReturn, Wait,
     WaitTest, WaitPause, Exit, StopTimer, Restore
<1>2. Counting' /\ Calling'
  BY <1>1 DEF Counting, Counted, Calling, Live
<1>3. TimerTypeOK'
  <2>1. action' \in {action, "ours", "default"}
        /\ armed' \in {armed, TRUE, FALSE}
    BY DEF Add, LoadAction, LoadTimer, NoPlace, Cancel, CancelReturn, Wait,
       WaitTest, WaitPause, Exit, StopTimer, Restore
  <2>2. mpc' \in {"user", "load", "arm", "place", "cancel", "test", "pause",
                  "paused", "free", "unload", "restore", "exited"}
    BY DEF Add, LoadAction, LoadTimer, NoPlace, Cancel, CancelReturn, Wait,
       WaitTest, WaitPause, Exit, StopTimer, Restore
  <2>3. id' \in Ids \cup {id, 0}
    BY DEF Add, LoadAction, LoadTimer, NoPlace, Cancel, CancelReturn, Wait,
       WaitTest, WaitPause, Exit, StopTimer, Restore
  <2>6. id' \in Nat
    BY <2>3, TimerAssumption DEF Ids, TimerTypeOK
  <2>7. canceled' \subseteq Ids
    BY DEF TimerTypeOK, Waiting, Add, LoadAction, LoadTimer, NoPlace, Cancel,
       CancelReturn, Wait, WaitTest, WaitPause, Exit, StopTimer, Restore
  <2>. QED
    BY <1>1, <2>1, <2>2, <2>6, <2>7 DEF TimerTypeOK
<1>4. Ticking'
  BY <1>1 DEF Ticking, Add, LoadAction, LoadTimer, NoPlace, Cancel,
     CancelReturn, Wait, WaitTest, WaitPause, Exit, StopTimer, Restore
<1>5. Waiting'
  <2>1. CASE Wait
    BY <1>1, <2>1 DEF Waiting, Wait, Live
  <2>2. CASE WaitTest
    <3>1. job[id].state \in {"running", "over"}
      BY <2>2, JobFields DEF WaitTest, Waiting
    <3>. QED
      BY <1>1, <2>2, <3>1 DEF Waiting, WaitTest, Live
  <2>3. CASE ~Wait /\ ~WaitTest
    BY <1>1, <2>3 DEF Waiting, Live, Add, LoadAction, LoadTimer, NoPlace,
       Cancel, CancelReturn, WaitPause, Exit, StopTimer, Restore
  <2>. QED
    BY <2>1, <2>2, <2>3
<1>. QED
  BY <1>2, <1>3, <1>4, <1>5

LEMMA PlaceKeepsInv ==
  ASSUME TimerInv, Place
  PROVE  TimerInv'
<1>. USE DEF TimerInv, timerVars, handlerVars, mainVars, history
<1>. DEFINE p == FreePos
<1>1. p \in Ids /\ job[p] = NoJob
  BY FreeEntry DEF Place
<1>2. PICK s \in Secs, r \in BOOLEAN :
        job' = [job EXCEPT ![p] =
                  [state |-> "running", sec |-> s, remain |-> s, repeat |-> r]]
  BY DEF Place
<1>3. /\ mpc = "place" /\ mpc' = "user" /\ hpc = "idle"
      /\ UNCHANGED <<freed, action, armed, pending, hpc, hi, id, history>>
  BY DEF Place, Goto
<1>. HIDE DEF p
<1>4. s \in 0 .. MaxSec
  BY TimerAssumption
<1>5. /\ job'[p] \in Jobs /\ job'[p].state = "running" /\ job'[p].sec = s
      /\ job'[p].remain = s
      /\ since'[p] = 0 /\ p \notin called'
  <2>1. job'[p] = [state |-> "running", sec |-> s, remain |-> s,
                   repeat |-> r]
    BY <1>1, <1>2 DEF TimerTypeOK
  <2>2. s \in -1 .. MaxSec
    BY <1>4
  <2>. QED
    BY <1>1, <1>3, <2>1, <2>2 DEF Jobs, Counting, Counted, Live
<1>6. \A i \in Ids : i # p => /\ job'[i] = job[i] /\ since'[i] = since[i]
                              /\ i \in called' <=> i \in called
  BY <1>1, <1>2, <1>3 DEF TimerTypeOK
<1>7. TimerTypeOK'
  <2>1. since' \in [Ids -> 0 .. MaxSec]
    BY <1>3 DEF TimerTypeOK
  <2>3. job' \in [Ids -> Jobs \cup {NoJob}]
    BY <1>2, <1>5, <1>6 DEF TimerTypeOK
  <2>4. called' \subseteq Ids /\ canceled' \subseteq Ids
    BY <1>3 DEF TimerTypeOK
  <2>. QED
    BY <1>3, <2>1, <2>3, <2>4 DEF TimerTypeOK
<1>8. Counting'
  <2>1. ASSUME NEW i \in Ids, i # p
        PROVE  Counted(i)'
    BY <1>6, <2>1 DEF Counting, Counted, Live
  <2>2. 0 + s = s /\ job'[p] # NoJob
    BY <1>4, <1>5, NoJobAssumption
  <2>3. ASSUME NEW i \in Ids, i = p
        PROVE  Counted(i)'
    BY <1>5, <2>2, <2>3 DEF Counted, Live
  <2>. QED
    BY <2>1, <2>3 DEF Counting
<1>9. Calling' /\ Waiting' /\ Ticking'
  BY <1>3 DEF Calling, Waiting, Ticking
<1>. QED
  BY <1>7, <1>8, <1>9

LEMMA ReleaseKeepsInv ==
  ASSUME TimerInv, WaitFree \/ WaitNull
  PROVE  TimerInv'
<1>. USE DEF TimerInv, timerVars, handlerVars, mainVars, history, Goto
<1>1. CASE WaitFree
  <2>1. /\ mpc = "free" /\ mpc' = "null" /\ freed' = freed \cup {id}
        /\ UNCHANGED <<job, action, armed, pending, hpc, hi, id, history>>
        /\ hpc = "idle"
    BY <1>1 DEF WaitFree
  <2>. QED
    BY <2>1 DEF TimerTypeOK, Counting, Counted, Calling, Waiting, Ticking, Live
<1>2. CASE WaitNull
  <2>1. /\ mpc = "null" /\ mpc' = "user" /\ freed' = freed \ {id} /\ id' = 0
        /\ job' = [job EXCEPT ![id] = NoJob] /\ hpc = "idle"
        /\ since' = [since EXCEPT ![id] = 0]
        /\ called' = called \ {id} /\ canceled' = canceled \ {id}
        /\ UNCHANGED <<action, armed, pending, hpc, hi>>
    BY <1>2 DEF WaitNull
  <2>2. TimerTypeOK'
    <3>1. since' \in [Ids -> 0 .. MaxSec]
      <4>1. 0 \in 0 .. MaxSec
        BY TimerAssumption
      <4>. QED
        BY <2>1, <4>1 DEF TimerTypeOK
    <3>2. job' \in [Ids -> Jobs \cup {NoJob}]
      BY <2>1 DEF TimerTypeOK
    <3>. QED
      BY <2>1, <3>1, <3>2 DEF TimerTypeOK
  <2>3. Counting'
    <3>1. ASSUME NEW i \in Ids, i # id
          PROVE  Counted(i)'
      <4>1. /\ job'[i] = job[i] /\ since'[i] = since[i]
            /\ i \in called' <=> i \in called
        BY <2>1, <3>1 DEF TimerTypeOK
      <4>. QED
        BY <4>1 DEF Counting, Counted, Live
    <3>2. id \in Ids => job'[id] = NoJob /\ since'[id] = 0 /\ id \notin called'
      BY <2>1 DEF TimerTypeOK
    <3>3. ASSUME NEW i \in Ids, i = id
          PROVE  Counted(i)'
      BY <3>2, <3>3 DEF Counted, Live
    <3>. QED
      BY <3>1, <3>3 DEF Counting
  <2>4. Calling' /\ Ticking'
    BY <2>1 DEF Calling, Ticking
  <2>5. Waiting'
    BY <2>1 DEF Waiting
  <2>. QED
    BY <2>2, <2>3, <2>4, <2>5
<1>. QED
  BY <1>1, <1>2

-----------------------------------------------------------------------------
(* Theorems. *)

\* No step breaks the invariant, wherever in the main flow the handler runs.
LEMMA TimerStep == TimerInv /\ [Next]_vars => TimerInv'
<1>. SUFFICES ASSUME TimerInv, [Next]_vars PROVE TimerInv'
  OBVIOUS
<1>1. CASE UNCHANGED vars
  BY <1>1 DEF vars, TimerInv, TimerTypeOK, Counting, Counted, Calling,
     Waiting, Ticking, Live, timerVars, handlerVars, mainVars, history
<1>2. CASE Tick \/ Handler
  BY <1>2, TickKeepsInv, ScanKeepsInv, CallKeepsInv DEF Handler
<1>3. CASE Begin \/ Continue
  BY <1>3, QuietSteps, PlaceKeepsInv, ReleaseKeepsInv DEF Begin, Continue
<1>. QED
  BY <1>1, <1>2, <1>3 DEF Next

\* The inductive invariant, for every length of the table and all delays.
THEOREM TimerInvariant == Spec => []TimerInv
BY TimerInit, TimerStep, PTL DEF Spec
=============================================================================
