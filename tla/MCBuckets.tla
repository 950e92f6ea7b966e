------------------------------ MODULE MCBuckets ------------------------------
(***************************************************************************)
(* Programs that copy a file: at the rate of a token bucket that a signal  *)
(* handler fills (chapter 30, "signal") or a thread does (chapter 31, the  *)
(* bucket that spins, "spin"), or as fast as they can ("copy"); programs   *)
(* that read one line by line ("lines"), and programs that write rows of   *)
(* stars while the user interrupts ("stars").  Or the jobs of anytimer,    *)
(* another library on SIGALRM ("timer").  One of them runs.                *)
(***************************************************************************)
EXTENDS TokenBucketSignal, MyGetline, TimerParameters

CONSTANTS Users, Alarm, NoOne, MaxToken, BufLen, MaxLen,
          STARS, ROWS, MaxInts
ASSUME BusyAssumption ==
  /\ {MaxToken, BufLen, MaxLen, STARS, ROWS, MaxInts} \subseteq Nat
  /\ BURST <= MaxToken
  /\ Alarm \notin Users /\ NoOne \notin Users \cup {Alarm}

VARIABLES
  program,
  reloads, tokens, owner, pc, loaded, amount,     \* TokenBucketBusy
  copier, length, copyPC, offset, buf, position,  \* CopyLoop
  out, status, failed,
  stars, inherited, mask, interrupt, saveset,     \* StarRows
  oset, row, rows, starPC, sent, handled,
  job, freed, sigalrm, itimer, tick, hpc, hi,     \* AnyTimer
  flow, id, since, called, canceled

Busy == INSTANCE TokenBucketBusy WITH
          token <- tokens, seen <- loaded, n <- amount

Copy == INSTANCE CopyLoop

Star == INSTANCE StarRows WITH pending <- interrupt

Timer == INSTANCE AnyTimer WITH
           action <- sigalrm, armed <- itimer, pending <- tick, mpc <- flow

copyVars == <<copier, length, copyPC, offset, buf, position, out, status, failed>>
busyVars == <<reloads, tokens, owner, pc, loaded, amount>>
starVars == <<stars, inherited, mask, interrupt, saveset, oset, row, rows, starPC,
              sent, handled>>
jobVars == <<job, freed, sigalrm, itimer, tick, hpc, hi, flow, id, since, called,
             canceled>>
all == <<vars, program, busyVars, copyVars, lineVars, starVars, jobVars>>

\* A program that does not run has one initial state.
CopyIdle == copier = Copy!mycat /\ length = 0
LineIdle == reader = getline_3 /\ size = 0
StarIdle ==
  /\ stars = "block"
  /\ ~inherited /\ ~interrupt /\ ~saveset /\ ~oset

BucketsInit ==
  /\ program \in {"signal", "spin", "copy", "lines", "stars", "timer"}
  /\ prog \in IF program = "signal" THEN {mytab, mytfb_2, slowcat_2, slowcat}
                                    ELSE {mytab}
  /\ Init /\ Busy!Init /\ (program # "spin" => ~reloads)
  /\ Copy!Init /\ (program # "copy" => CopyIdle)
  /\ IF program = "lines" THEN TRUE ELSE LineIdle
  /\ LineInit
  /\ Star!Init /\ (program # "stars" => StarIdle)
  /\ Timer!Init

\* A step of the program that runs.
Signal(A) ==
  /\ program = "signal" /\ A
  /\ UNCHANGED <<program, busyVars, copyVars, lineVars, starVars, jobVars>>
Spin(A) ==
  /\ program = "spin" /\ A
  /\ UNCHANGED <<program, vars, copyVars, lineVars, starVars, jobVars>>
Plain(A) ==
  /\ program = "copy" /\ A
  /\ UNCHANGED <<program, vars, busyVars, lineVars, starVars, jobVars>>
Lines(A) ==
  /\ program = "lines" /\ A
  /\ UNCHANGED <<program, vars, busyVars, copyVars, starVars, jobVars>>
Stars(A) ==
  /\ program = "stars" /\ A
  /\ UNCHANGED <<program, vars, busyVars, copyVars, lineVars, jobVars>>
Times(A) ==
  /\ program = "timer" /\ A
  /\ UNCHANGED <<program, vars, busyVars, copyVars, lineVars, starVars>>

BucketsNext ==
  \/ Signal(Next) \/ Spin(Busy!Next) \/ Plain(Copy!Next) \/ Lines(LineNext)
  \/ Stars(Star!Next) \/ Times(Timer!Next)

\* The fairness of the programs that wait for something.
BucketsSpec ==
  /\ BucketsInit /\ [][BucketsNext]_all
  /\ WF_all(Signal(Tick)) /\ WF_all(Signal(Deliver)) /\ WF_all(Signal(Main))
  /\ \A u \in Users : WF_all(Spin(Busy!Fetch(u) \/ Busy!GiveBack(u)))
  /\ WF_all(Spin(Busy!Refill))
  /\ \A t \in Users \cup {Alarm} : SF_all(Spin(Busy!Locks(t)))
  /\ WF_all(Stars(Star!Main)) /\ WF_all(Stars(Star!Deliver))
  /\ WF_all(Times(Timer!Tick)) /\ WF_all(Times(Timer!Handler))
  /\ SF_all(Times(Timer!Continue))

-----------------------------------------------------------------------------
\* The types of all programs.
BucketsTypeOK ==
  /\ program = "signal" => TypeOK
  /\ program = "spin" => Busy!TypeOK
  /\ program = "copy" => Copy!TypeOK
  /\ program = "lines" => LineTypeOK
  /\ program = "stars" => Star!TypeOK

\* CopyLoop: short and interrupted calls neither lose nor repeat a byte.
CopyFaithful == program = "copy" => Copy!CopyFaithful

\* Who asks for tokens gets some, and more than none: pause that misses a tick is
\* interrupted by the next one, and spinning lets the refill in, though a build
\* that loads the number of tokens again may then find none.  An interrupt that
\* comes while suspend.c writes a row is not slept through.
EveryWaitEnds ==
  /\ mpc = "test" ~> mpc = "read" /\ n > 0
  /\ \A u \in Users :
       pc[u] = "test" ~> pc[u] = "read" /\ (reloads \/ amount[u] > 0)
  /\ Star!SuspendAnswers

\* StarRows: no interrupt is answered within a row.
RowsWhole == Star!RowsWhole

\* AnyTimer: the properties of the timer and its jobs.
TimerTypeOK == Timer!TimerTypeOK
Cadence == Timer!Cadence
Survives == Timer!Survives
WaitMeansCalled == Timer!WaitMeansCalled
Fires == Timer!Fires
WaitReturns == Timer!WaitReturns

\* AnyTimer: a job that has been canceled is not called.
CanceledNotCalled == Timer!CanceledNotCalled

\* TokenBucketBusy: the number of tokens does not exceed burst.
Ceiling == program = "spin" => Busy!Ceiling
=============================================================================
