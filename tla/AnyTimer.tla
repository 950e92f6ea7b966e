------------------------------- MODULE AnyTimer -------------------------------
(***************************************************************************)
(* The library anytimer.c: any number of timers on top of the one interval *)
(* timer of a process.  The handler alrm_action of SIGALRM counts every    *)
(* running job down and calls the ones that are due; at_addjob,            *)
(* at_canceljob and at_waitjob run in the main flow, which the handler may *)
(* interrupt between any two of their steps.  While the handler runs the   *)
(* main flow stands still and a tick is kept as one pending bit.           *)
(***************************************************************************)
EXTENDS TimerParameters

VARIABLES
  job,       \* the table of structs
  freed,     \* entries whose struct has been freed, not yet NULL
  action,    \* what SIGALRM does: "default" (end the process) or "ours"
  armed,     \* the interval timer runs
  pending,   \* SIGALRM is pending
  hpc,       \* the handler: "idle", "scan", "call" (in the job's function)
  hi,        \* its loop variable; 0 outside of it
  mpc,       \* the main flow
  id,        \* argument of at_canceljob, at_waitjob; 0 outside of them
  since,     \* history: ticks handled since the job was added or last called,
             \* 0 where there is no job
  called,    \* history: jobs of the table that have been called
  canceled   \* history: those for which at_canceljob has returned 0 since

timerVars == <<action, armed, pending>>
handlerVars == <<hpc, hi>>
mainVars == <<mpc, id>>
history == <<since, called, canceled>>
vars == <<job, freed, timerVars, handlerVars, mainVars, history>>

Init ==
  /\ job = [i \in Ids |-> NoJob]
  /\ freed = {}
  /\ action = "default" /\ armed = FALSE /\ pending = FALSE
  /\ hpc = "idle" /\ hi = 0
  /\ mpc = "user" /\ id = 0
  /\ since = [i \in Ids |-> 0]
  /\ called = {}
  /\ canceled = {}

-----------------------------------------------------------------------------
(* The interval timer and the handler. *)

\* A tick that finds one pending is lost.
Tick ==
  /\ armed /\ ~pending
  /\ pending' = TRUE
  /\ UNCHANGED <<job, freed, action, armed, handlerVars, mainVars, history>>

Alive == mpc \notin {"exited", "killed"}

Deliver ==
  /\ pending /\ hpc = "idle" /\ Alive
  /\ pending' = FALSE
  /\ IF action = "ours"
       THEN hpc' = "scan" /\ hi' = 0 /\ UNCHANGED mpc
       ELSE mpc' = "killed" /\ UNCHANGED handlerVars
  /\ UNCHANGED <<job, freed, action, armed, id, history>>

\* What is left of a freed struct is not a running job.
Running(i) == i \notin freed /\ job[i] # NoJob /\ job[i].state = "running"

\* Mutant: the job that is due is the one with a second left.
ScanEarly ==
  /\ hpc = "scan" /\ hi \in Ids
  /\ IF Running(hi)
       THEN /\ job' = [job EXCEPT ![hi].remain = IF @ < 0 THEN @ ELSE @ - 1]
            /\ since' = [since EXCEPT ![hi] = IF @ < MaxSec THEN @ + 1 ELSE @]
            /\ IF job'[hi].remain \in {0, 1} THEN hpc' = "call" /\ UNCHANGED hi
                                     ELSE hi' = hi + 1 /\ UNCHANGED hpc
       ELSE hi' = hi + 1 /\ UNCHANGED <<job, since, hpc>>
  /\ UNCHANGED <<freed, timerVars, mainVars, called, canceled>>

\* One entry of the table.  A time_remain below 0 stays below 0 for 2^31
\* seconds: it is kept at -1.
Scan ==
  /\ hpc = "scan" /\ hi \in Ids
  /\ IF Running(hi)
       THEN /\ job' = [job EXCEPT ![hi].remain = IF @ < 0 THEN @ ELSE @ - 1]
            /\ since' = [since EXCEPT ![hi] = IF @ < MaxSec THEN @ + 1 ELSE @]
            /\ IF job'[hi].remain = 0 THEN hpc' = "call" /\ UNCHANGED hi
                                     ELSE hi' = hi + 1 /\ UNCHANGED hpc
       ELSE hi' = hi + 1 /\ UNCHANGED <<job, since, hpc>>
  /\ UNCHANGED <<freed, timerVars, mainVars, called, canceled>>

\* Mutant: every job is rearmed.
CallRearms ==
  /\ hpc = "call"
  /\ called' = called \cup {hi}
  /\ canceled' = canceled \ {hi}
  /\ since' = [since EXCEPT ![hi] = 0]
  /\ job' = [job EXCEPT ![hi].remain = job[hi].sec]
  /\ hpc' = "scan" /\ hi' = hi + 1
  /\ UNCHANGED <<freed, timerVars, mainVars>>

\* Mutant: a job is rearmed one second late.
CallLate ==
  /\ hpc = "call"
  /\ called' = called \cup {hi}
  /\ canceled' = canceled \ {hi}
  /\ since' = [since EXCEPT ![hi] = 0]
  /\ job' = IF job[hi].repeat
              THEN [job EXCEPT ![hi].remain = job[hi].sec + 1]
              ELSE [job EXCEPT ![hi].state = "over"]
  /\ hpc' = "scan" /\ hi' = hi + 1
  /\ UNCHANGED <<freed, timerVars, mainVars>>

\* Mutant: the handler ends with the first job that is due.
CallOnly ==
  /\ hpc = "call"
  /\ called' = called \cup {hi}
  /\ canceled' = canceled \ {hi}
  /\ since' = [since EXCEPT ![hi] = 0]
  /\ job' = IF job[hi].repeat
              THEN [job EXCEPT ![hi].remain = job[hi].sec]
              ELSE [job EXCEPT ![hi].state = "over"]
  /\ hpc' = "scan" /\ hi' = JOB_MAX
  /\ UNCHANGED <<freed, timerVars, mainVars>>

\* The job's function returns; the job is rearmed or over.
Call ==
  /\ hpc = "call"
  /\ called' = called \cup {hi}
  /\ canceled' = canceled \ {hi}
  /\ since' = [since EXCEPT ![hi] = 0]
  /\ job' = IF job[hi].repeat
              THEN [job EXCEPT ![hi].remain = job[hi].sec]
              ELSE [job EXCEPT ![hi].state = "over"]
  /\ hpc' = "scan" /\ hi' = hi + 1
  /\ UNCHANGED <<freed, timerVars, mainVars>>

\* Mutant: at_waitjob pauses once instead of in a loop.
ReturnFrees ==
  /\ hpc = "scan" /\ hi = JOB_MAX
  /\ hpc' = "idle"
  /\ hi' = 0
  /\ mpc' = IF mpc = "paused" THEN "free" ELSE mpc
  /\ UNCHANGED <<job, freed, timerVars, id, history>>

\* The handler returns, and with it a pause it has interrupted.
Return ==
  /\ hpc = "scan" /\ hi = JOB_MAX
  /\ hpc' = "idle"
  /\ hi' = 0
  /\ mpc' = IF mpc = "paused" THEN "test" ELSE mpc
  /\ UNCHANGED <<job, freed, timerVars, id, history>>

Handler == Deliver \/ Scan \/ Call \/ Return

-----------------------------------------------------------------------------
(* The main flow, when the handler does not run. *)

Goto(from, to) == hpc = "idle" /\ mpc = from /\ mpc' = to

\* at_addjob and at_addjob_repeat, when the module is loaded or not.
Add ==
  /\ Goto("user", IF action = "ours" THEN "place" ELSE "load")
  /\ UNCHANGED <<job, freed, timerVars, handlerVars, id, history>>

LoadAction ==
  /\ Goto("load", "arm")
  /\ action' = "ours"
  /\ UNCHANGED <<job, freed, armed, pending, handlerVars, id, history>>

LoadTimer ==
  /\ Goto("arm", "place")
  /\ armed' = TRUE
  /\ UNCHANGED <<job, freed, action, pending, handlerVars, id, history>>

FreePos == CHOOSE i \in Ids :
             job[i] = NoJob /\ \A k \in Ids : job[k] = NoJob => i <= k

Place ==
  /\ Goto("place", "user")
  /\ \E i \in Ids : job[i] = NoJob
  /\ \E s \in Secs, r \in BOOLEAN :
       job' = [job EXCEPT ![FreePos] =
                 [state |-> "running", sec |-> s, remain |-> s, repeat |-> r]]
  /\ UNCHANGED <<freed, timerVars, handlerVars, id, history>>

\* -ENOSPC
NoPlace ==
  /\ Goto("place", "user")
  /\ \A i \in Ids : job[i] # NoJob
  /\ UNCHANGED <<job, freed, timerVars, handlerVars, id, history>>

\* at_canceljob of a job that is neither canceled nor over.
Cancel ==
  /\ Goto("user", "cancel")
  /\ \E i \in Ids : Running(i) /\ id' = i
  /\ UNCHANGED <<job, freed, timerVars, handlerVars, history>>

\* The new state is compared, not assigned; 0 is returned all the same.
CancelReturn ==
  /\ Goto("cancel", "user")
  /\ canceled' = canceled \cup {id}
  /\ id' = 0
  /\ UNCHANGED <<job, freed, timerVars, handlerVars, since, called>>

\* at_waitjob of a job that does not repeat.
Wait ==
  /\ Goto("user", "test")
  /\ \E i \in Ids : job[i] # NoJob /\ ~job[i].repeat /\ id' = i
  /\ UNCHANGED <<job, freed, timerVars, handlerVars, history>>

\* The loop.  A tick between the test and pause is not the one pause waits for.
WaitTest ==
  /\ Goto("test", IF job[id].state = "running" THEN "pause" ELSE "free")
  /\ UNCHANGED <<job, freed, timerVars, handlerVars, id, history>>

WaitPause ==
  /\ Goto("pause", "paused")
  /\ UNCHANGED <<job, freed, timerVars, handlerVars, id, history>>

WaitFree ==
  /\ Goto("free", "null")
  /\ freed' = freed \cup {id}
  /\ UNCHANGED <<job, timerVars, handlerVars, id, history>>

WaitNull ==
  /\ Goto("null", "user")
  /\ job' = [job EXCEPT ![id] = NoJob]
  /\ freed' = freed \ {id}
  /\ since' = [since EXCEPT ![id] = 0]
  /\ called' = called \ {id}
  /\ canceled' = canceled \ {id}
  /\ id' = 0
  /\ UNCHANGED <<timerVars, handlerVars>>

\* exit, with module_unload registered or not.
Exit ==
  /\ Goto("user", IF action = "ours" THEN "unload" ELSE "exited")
  /\ UNCHANGED <<job, freed, timerVars, handlerVars, id, history>>

\* Mutant: the old action is restored while the timer still runs.
RestoreFirst ==
  /\ Goto("unload", "restore")
  /\ action' = "default"
  /\ UNCHANGED <<job, freed, armed, pending, handlerVars, id, history>>

StopTimer ==
  /\ Goto("unload", "restore")
  /\ armed' = FALSE
  /\ UNCHANGED <<job, freed, action, pending, handlerVars, id, history>>

\* A signal that is pending when setitimer returns is handled first.
Restore ==
  /\ Goto("restore", "exited")
  /\ ~pending
  /\ action' = "default"
  /\ UNCHANGED <<job, freed, armed, pending, handlerVars, id, history>>

Begin == Add \/ Cancel \/ Wait \/ Exit
Continue ==
  \/ LoadAction \/ LoadTimer \/ Place \/ NoPlace
  \/ CancelReturn
  \/ WaitTest \/ WaitPause \/ WaitFree \/ WaitNull
  \/ StopTimer \/ Restore

Next == Tick \/ Handler \/ Begin \/ Continue

Spec == Init /\ [][Next]_vars

\* The timer goes on, handlers run and return (the jobs' functions end), and
\* the main flow runs on inside a call, however often the handler interrupts
\* it; what it calls next is its own affair.
FairSpec ==
  /\ Spec
  /\ WF_vars(Tick)
  /\ WF_vars(Handler)
  /\ SF_vars(Continue)

-----------------------------------------------------------------------------
TimerTypeOK ==
  /\ job \in [Ids -> Jobs \cup {NoJob}]
  /\ freed \subseteq Ids
  /\ action \in {"default", "ours"}
  /\ armed \in BOOLEAN
  /\ pending \in BOOLEAN
  /\ hpc \in {"idle", "scan", "call"}
  /\ hi \in 0 .. JOB_MAX
  /\ mpc \in {"user", "load", "arm", "place", "cancel", "test", "pause",
              "paused", "free", "null", "unload", "restore", "exited", "killed"}
  /\ id \in Nat
  /\ since \in [Ids -> 0 .. MaxSec]
  /\ called \subseteq Ids
  /\ canceled \subseteq Ids

\* A job is called when exactly `sec` ticks have been handled since it was
\* added or last called, never earlier or later, and a job that does not
\* repeat is called once: whatever else is added, freed and called meanwhile.
Cadence ==
  hpc = "call" =>
    job[hi] # NoJob /\ since[hi] = job[hi].sec /\ (hi \in called => job[hi].repeat)

\* The process is not ended by its own timer: SIGALRM never finds the default
\* action, neither while the module is loaded nor while exit unloads it.
Survives == mpc # "killed"

\* at_waitjob only lets go of a job that has been called: what it frees is
\* over, although the handler may run between its test and its pause.
WaitMeansCalled == mpc \in {"free", "null"} => id \in called

\* A job runs its function after some seconds, unless it is canceled or the
\* process exits; a job of 0 seconds, which at_addjob accepts, is counted past 0
\* and never runs.
Fires ==
  \A i \in Ids :
    Running(i) /\ job[i].sec > 0 ~> (i \in called \cup canceled \/ ~Alive)

\* The claim of the state "canceled" in anytimer.h: once at_canceljob has
\* returned 0 for a job, its function is not called.
CanceledNotCalled == hpc = "call" => hi \notin canceled

\* at_waitjob returns, for a job that can run: a tick it misses between its test
\* and its pause delays it until the next one.
WaitReturns ==
  mpc \in {"test", "pause", "paused"} /\ job[id].sec > 0 ~> mpc = "user"
=============================================================================
