-------------------------- MODULE TokenBucketSignal --------------------------
(***************************************************************************)
(* The programs of chapter 30 whose tokens come from the handler of        *)
(* SIGALRM: slowcat.c and slowcat_2.c, which keep them in a global, and the*)
(* libraries mytab/mytbf.c and mytfb_2/mytbf.c with their client main.c.   *)
(* All of them wait for a token with pause, take some, read and write.     *)
(*                                                                         *)
(* The handler runs to completion between two steps of the main flow.  How *)
(* many instructions `token -= n` takes is the compiler's choice: it is one*)
(* step or a load and a store.                                             *)
(***************************************************************************)
EXTENDS Integers

CONSTANTS
  CPS, BURST, BUFSIZE,   \* as main.c passes them to mytbf_init
  MaxTicks               \* bound: ticks that the history records

ASSUME SignalAssumption ==
  /\ CPS \in Nat \ {0} /\ BURST \in Nat \ {0} /\ BUFSIZE \in Nat \ {0}
  /\ MaxTicks \in Nat

Min2(a, b) == IF a < b THEN a ELSE b

\* What a program adds per tick, up to which limit, and takes at most; whether
\* it has a library that gives back tokens and is unloaded at exit; whether the
\* handler has to start the next alarm.
mytab     == [cps |-> CPS, burst |-> BURST, size |-> BUFSIZE,
              library |-> TRUE, oneshot |-> FALSE]
mytfb_2   == [mytab EXCEPT !.oneshot = TRUE]
slowcat_2 == [cps |-> 1, burst |-> BURST, size |-> 1,
              library |-> FALSE, oneshot |-> TRUE]
slowcat   == [slowcat_2 EXCEPT !.burst = 1]    \* token is its flag `loop`

VARIABLES
  prog,     \* the program that runs, one of the four
  token,    \* me->token, token, loop
  seen,     \* the value of token that is in a register
  n,        \* tokens taken; then those to give back
  mpc,      \* the main flow
  action,   \* what SIGALRM does: "default" (end the process) or "ours"
  armed,    \* the alarm or the interval timer runs
  pending,  \* SIGALRM is pending
  ticks,    \* history: refills of the bucket
  issued    \* history: tokens taken, less those the client had no use for

signalVars == <<action, armed, pending>>
history == <<ticks, issued>>
vars == <<prog, token, seen, n, mpc, signalVars, history>>

Init ==
  /\ prog \in {mytab, mytfb_2, slowcat_2, slowcat}
  /\ token = 0 /\ seen = 0 /\ n = 0
  /\ mpc = "load"
  /\ action = "default" /\ armed = FALSE /\ pending = FALSE
  /\ ticks = 0 /\ issued = 0

-----------------------------------------------------------------------------
(* The alarm and the handler. *)

\* A tick that finds one pending is lost.
Tick ==
  /\ armed /\ ~pending
  /\ pending' = TRUE
  /\ armed' = ~prog.oneshot
  /\ UNCHANGED <<prog, token, seen, n, mpc, action, history>>

\* job[0] is not NULL: from mytbf_init to mytbf_destroy.
Placed == ~prog.library \/ mpc \notin {"load", "arm", "place", "free", "unload",
                                       "disarm"}

Recording == ticks < MaxTicks

\* The handler; with it a pause it has interrupted returns.
Refill ==
  /\ token' = IF Placed THEN Min2(token + prog.cps, prog.burst) ELSE token
  /\ ticks' = IF Placed /\ Recording THEN ticks + 1 ELSE ticks
  /\ mpc' = IF mpc = "paused" THEN "test" ELSE mpc
  /\ armed' = TRUE
  /\ UNCHANGED issued

Deliver ==
  /\ pending /\ mpc \notin {"exited", "killed"}
  /\ pending' = FALSE
  /\ IF action = "ours" THEN Refill
                        ELSE mpc' = "killed" /\ UNCHANGED <<token, armed, history>>
  /\ UNCHANGED <<prog, seen, n, action>>

-----------------------------------------------------------------------------
(* Loading. *)

Goto(from, to) == mpc = from /\ mpc' = to

LoadAction ==
  /\ Goto("load", "arm")
  /\ action' = "ours"
  /\ UNCHANGED <<prog, token, seen, n, armed, pending, history>>

LoadTimer ==
  /\ Goto("arm", "place")
  /\ armed' = TRUE
  /\ UNCHANGED <<prog, token, seen, n, action, pending, history>>

Quiet == UNCHANGED <<prog, token, seen, n, signalVars, history>>

\* The rest of mytbf_init: the only bucket gets its place in the table.
Place == Goto("place", "open") /\ Quiet

Exits == IF prog.library THEN "unload" ELSE "exited"

\* open, tried again when interrupted; an error ends the program.
Open == Goto("open", "test") /\ Quiet
OpenFails == Goto("open", Exits) /\ Quiet

-----------------------------------------------------------------------------
(* mytbf_fetchtoken, and what stands for it in slowcat. *)

\* A tick between the test and pause is not the one pause waits for.
Wait == Goto("pause", "paused") /\ Quiet

Test == Goto("test", IF token <= 0 THEN "pause" ELSE "min") /\ Quiet

\* n = min(me->token, size)
Min ==
  /\ Goto("min", "sub")
  /\ n' = Min2(token, prog.size)
  /\ UNCHANGED <<prog, token, seen, signalVars, history>>

Issue(k) == issued' = IF Recording THEN issued + k ELSE issued

\* token -= n, at once or as a load and a store
SubAtOnce ==
  /\ Goto("sub", "read")
  /\ token' = token - n
  /\ Issue(n)
  /\ UNCHANGED <<prog, seen, n, signalVars, ticks>>

SubLoad ==
  /\ Goto("sub", "store")
  /\ seen' = token
  /\ UNCHANGED <<prog, token, n, signalVars, history>>

SubStore ==
  /\ Goto("store", "read")
  /\ token' = seen - n
  /\ seen' = 0
  /\ Issue(n)
  /\ UNCHANGED <<prog, n, signalVars, ticks>>

-----------------------------------------------------------------------------
(* The client's loop. *)

\* Mutant: the client gives back everything it took.
ReadReturnsAll ==
  /\ mpc = "read"
  /\ \E len \in 1 .. n :
       /\ n' = IF prog.library /\ len < n THEN n ELSE 0
       /\ mpc' = IF n' > 0 THEN "add" ELSE "write"
       /\ IF prog.library THEN Issue(len - n) ELSE UNCHANGED issued
  /\ UNCHANGED <<prog, token, seen, signalVars, ticks>>

\* read returns len bytes: the tokens in excess go back to a library's bucket.
\* A read that is interrupted is made again.
Read ==
  /\ mpc = "read"
  /\ \E len \in 1 .. n :
       /\ n' = IF prog.library THEN n - len ELSE 0
       /\ mpc' = IF n' > 0 THEN "add" ELSE "write"
       /\ IF prog.library THEN Issue(len - n) ELSE UNCHANGED issued
  /\ UNCHANGED <<prog, token, seen, signalVars, ticks>>

\* read fails or meets the end of the file.
ReadEnds ==
  /\ Goto("read", IF prog.library THEN "destroy" ELSE "exited")
  /\ n' = 0
  /\ UNCHANGED <<prog, token, seen, signalVars, history>>

\* mytbf_returntoken: token += size, at once or as a load and a store; ...
AddAtOnce ==
  /\ Goto("add", "cut")
  /\ token' = token + n
  /\ n' = 0
  /\ UNCHANGED <<prog, seen, signalVars, history>>

AddLoad ==
  /\ Goto("add", "added")
  /\ seen' = token
  /\ UNCHANGED <<prog, token, n, signalVars, history>>

AddStore ==
  /\ Goto("added", "cut")
  /\ token' = seen + n
  /\ seen' = 0 /\ n' = 0
  /\ UNCHANGED <<prog, signalVars, history>>

\* ... then the test against burst and the assignment.
CutTest == Goto("cut", IF token > prog.burst THEN "clip" ELSE "write") /\ Quiet

Clip ==
  /\ Goto("clip", "write")
  /\ token' = prog.burst
  /\ UNCHANGED <<prog, seen, n, signalVars, history>>

\* The writes, which may be short or interrupted; one that fails ends the
\* program.
Write == Goto("write", "test") /\ Quiet

WriteFails == Goto("write", Exits) /\ Quiet

-----------------------------------------------------------------------------
(* mytbf_destroy, exit and module_unload. *)

\* The table entry first, then the struct.
Destroy == Goto("destroy", "free") /\ Quiet

Free == Goto("free", "unload") /\ Quiet

\* The old action is restored, and then the timer stopped.
UnloadAction ==
  /\ Goto("unload", "disarm")
  /\ action' = "default"
  /\ UNCHANGED <<prog, token, seen, n, armed, pending, history>>

\* A signal that is pending when setitimer or alarm returns is handled first.
UnloadTimer ==
  /\ Goto("disarm", "exited")
  /\ ~pending
  /\ armed' = FALSE
  /\ UNCHANGED <<prog, token, seen, n, action, pending, history>>

Load == LoadAction \/ LoadTimer \/ Place \/ Open \/ OpenFails
Fetch == Test \/ Wait \/ Min \/ SubAtOnce \/ SubLoad \/ SubStore
Serve == Read \/ ReadEnds \/ Write \/ WriteFails
GiveBack == AddAtOnce \/ AddLoad \/ AddStore \/ CutTest \/ Clip
Leave == Destroy \/ Free \/ UnloadAction \/ UnloadTimer
Main == Load \/ Fetch \/ Serve \/ GiveBack \/ Leave

Next == Tick \/ Deliver \/ Main

Spec == Init /\ [][Next]_vars

\* The alarm rings, signals are delivered, and the main flow runs on.
FairSpec == Spec /\ WF_vars(Tick) /\ WF_vars(Deliver) /\ WF_vars(Main)

-----------------------------------------------------------------------------
TypeOK ==
  /\ prog \in {mytab, mytfb_2, slowcat_2, slowcat}
  /\ token \in 0 .. BURST + BUFSIZE
  /\ seen \in 0 .. BURST
  /\ n \in 0 .. BUFSIZE
  /\ mpc \in {"load", "arm", "place", "open", "test", "pause", "paused", "min",
              "sub", "store", "read", "add", "added", "cut", "clip", "write",
              "destroy", "free", "unload", "disarm", "exited", "killed"}
  /\ action \in {"default", "ours"}
  /\ armed \in BOOLEAN /\ pending \in BOOLEAN
  /\ ticks \in 0 .. MaxTicks
  /\ issued \in Int

\* The rate is kept, whatever the handler does between a load and its store:
\* a refill may be lost there, none is gained.
RateBound == Recording => token + issued <= prog.cps * ticks

\* A fetch never returns 0 tokens, which main.c would take for the end of the
\* file: read is asked for that many bytes.
FetchNonEmpty == mpc = "read" => n > 0

\* Who asks for tokens gets some, even if pause misses a tick.
FetchReturns == mpc = "test" ~> mpc = "read"

\* Unloading stops the alarm and restores the old action: the program is not
\* ended by its own alarm while it exits.
NeverKilled == mpc # "killed"
=============================================================================
