----------------------------- MODULE DynamicPool -----------------------------
(***************************************************************************)
(* The pre-forking time server of chapter 36 (server.c).  A parent keeps a *)
(* table `serverpool` in memory shared with the processes it forks.  Each  *)
(* child publishes in its slot whether it waits in accept or serves a      *)
(* client, and sends SIG_NOTIFY to the parent after every change.  The     *)
(* parent sleeps in sigsuspend, and on every wake-up recounts the table    *)
(* and forks or kills children to keep the number of idle ones between     *)
(* MINSPARESERVER and MAXSPARESERVER.                                      *)
(*                                                                         *)
(* kill(SIGTERM) only sends the signal.  The process it is meant for goes  *)
(* on until the signal reaches it, so for a while it may store its state   *)
(* in a slot that is out of the table, or that a new child was forked into.*)
(* `child` is the process of a slot, `victim` the one sent SIGTERM before. *)
(***************************************************************************)
EXTENDS Integers, FiniteSets

CONSTANTS
  MINSPARESERVER,  \* fewest idle children the parent tolerates
  MAXSPARESERVER,  \* most idle children the parent tolerates
  MAXCLIENTS,      \* number of slots of serverpool
  MaxBacklog,      \* bound: connections that wait to be accepted (the code
                   \* passes 100 to listen)
  MaxVictims,      \* bound: processes that were sent SIGTERM and still run
  AcceptMayFail,   \* may the first accept of a child fail?  (raddr_len is
                   \* passed uninitialised: a negative value is EINVAL)
  ForkMayFail,     \* may fork return -1?
  LoadsTwice       \* does the build load serverpool[i].state once per test
                   \* in scan_pool (an unoptimised build does)?

ASSUME PoolAssumption ==
  /\ MINSPARESERVER \in Nat
  /\ MAXSPARESERVER \in Nat
  /\ MAXCLIENTS \in Nat
  /\ MINSPARESERVER <= MAXSPARESERVER
  /\ MAXSPARESERVER <= MAXCLIENTS
  /\ MaxBacklog \in Nat
  /\ MaxVictims \in Nat \ {0}
  /\ {AcceptMayFail, ForkMayFail, LoadsTwice} \subseteq BOOLEAN

Slots == 0 .. MAXCLIENTS - 1

ParentPC == {"fill", "suspended", "scan", "reload", "del", "pick", "kill",
             "add", "aborted"}

\* "gone" is a slot without a running process; the other values name the
\* statement of server_job the child executes next.
ChildPC == {"gone", "storeIdle", "tellIdle", "accept", "storeBusy",
            "tellBusy", "serve"}

\* What a process that was sent SIGTERM may still do: store and tell the
\* parent, tell the parent, or take a connection.
VictimPC == {"gone", "storeIdle", "storeBusy", "tell", "accept"}

VARIABLES
  occupied,    \* slots whose pid is not -1
  state,       \* serverpool[s].state, shared with the children
  child,       \* where the process of each slot is
  victim,      \* what the process of a slot that was sent SIGTERM may still do
  forkFailed,  \* history: a fork has failed since the parent woke up
  fresh,       \* slots whose child has not completed an accept yet
  pending,     \* SIG_NOTIFY is pending for the parent (one bit, not a queue)
  backlog,     \* connections completed by the kernel and not accepted yet
  pc,          \* control of the parent
  i,           \* loop variable of main's for loops
  cur,         \* loop variable of scan_pool and del_1_server, 0 outside
  idle, busy,  \* locals of scan_pool, 0 outside
  idle_count, busy_count

tableVars == <<occupied, state>>
countVars == <<idle_count, busy_count>>
scanVars == <<idle, busy>>
lateVars == <<victim, forkFailed>>
vars == <<tableVars, child, lateVars, fresh, pending, backlog, pc,
          i, cur, scanVars, countVars>>

-----------------------------------------------------------------------------
Init ==
  /\ occupied = {}
  /\ state = [s \in Slots |-> "IDEL"]
  /\ child = [s \in Slots |-> "gone"]
  /\ victim = [s \in Slots |-> "gone"]
  /\ forkFailed = FALSE
  /\ fresh = {}
  /\ pending = FALSE
  /\ backlog = 0
  /\ pc = "fill"
  /\ i = 0
  /\ cur = 0
  /\ idle = 0 /\ busy = 0
  /\ idle_count = 0 /\ busy_count = 0

\* A client's connection reaches the listening socket.
Connect ==
  /\ backlog < MaxBacklog
  /\ backlog' = backlog + 1
  /\ UNCHANGED <<tableVars, child, lateVars, fresh, pending, pc, i, cur,
                 scanVars, countVars>>

-----------------------------------------------------------------------------
(* The child: server_job(s). *)

StoreIdle(s) ==
  /\ child[s] = "storeIdle"
  /\ state' = [state EXCEPT ![s] = "IDEL"]
  /\ child' = [child EXCEPT ![s] = "tellIdle"]
  /\ UNCHANGED <<occupied, victim, forkFailed, fresh, pending, backlog, pc, i,
                 cur, scanVars, countVars>>

StoreBusy(s) ==
  /\ child[s] = "storeBusy"
  /\ state' = [state EXCEPT ![s] = "BUSY"]
  /\ child' = [child EXCEPT ![s] = "tellBusy"]
  /\ UNCHANGED <<occupied, victim, forkFailed, fresh, pending, backlog, pc, i,
                 cur, scanVars, countVars>>

\* Mutant: SIG_NOTIFY is not blocked while the parent works, so a handler
\* that runs outside sigsuspend swallows the signal.
RaiseUnblocked == pending' = (pending \/ pc = "suspended")

\* SIG_NOTIFY is a standard signal: while one is pending another is absorbed.
Raise == pending' = (pending \/ pc # "aborted")

\* kill(ppid, SIG_NOTIFY)
Notify(s, from, to) ==
  /\ child[s] = from
  /\ child' = [child EXCEPT ![s] = to]
  /\ Raise
  /\ UNCHANGED <<tableVars, lateVars, fresh, backlog, pc, i, cur, scanVars,
                 countVars>>

TellIdle(s) == Notify(s, "tellIdle", "accept")

\* Mutant: a child tells the parent only that it is idle.
TellBusySilent(s) ==
  /\ child[s] = "tellBusy"
  /\ child' = [child EXCEPT ![s] = "serve"]
  /\ UNCHANGED <<tableVars, lateVars, fresh, pending, backlog, pc, i, cur,
                 scanVars, countVars>>

TellBusy(s) == Notify(s, "tellBusy", "serve")

Accept(s) ==
  /\ child[s] = "accept"
  /\ backlog > 0
  /\ backlog' = backlog - 1
  /\ child' = [child EXCEPT ![s] = "storeBusy"]
  /\ fresh' = fresh \ {s}
  /\ UNCHANGED <<tableVars, lateVars, pending, pc, i, cur, scanVars,
                 countVars>>

\* accept returns -1 and the child exits: errno # EINTR \/ errno # EAGAIN is
\* always true.  SIGCHLD is ignored, so nobody is told.  Only the first call
\* can fail so: a successful one leaves a valid length in raddr_len.
AcceptError(s) ==
  /\ AcceptMayFail
  /\ child[s] = "accept"
  /\ s \in fresh
  /\ backlog > 0
  /\ backlog' = backlog - 1
  /\ child' = [child EXCEPT ![s] = "gone"]
  /\ fresh' = fresh \ {s}
  /\ UNCHANGED <<tableVars, lateVars, pending, pc, i, cur, scanVars,
                 countVars>>

\* Mutant: the child leaves its loop after one client.
ServeOnce(s) ==
  /\ child[s] = "serve"
  /\ child' = [child EXCEPT ![s] = "gone"]
  /\ UNCHANGED <<tableVars, lateVars, fresh, pending, backlog, pc, i, cur,
                 scanVars, countVars>>

\* send, sleep(5), close.
Serve(s) ==
  /\ child[s] = "serve"
  /\ child' = [child EXCEPT ![s] = "storeIdle"]
  /\ UNCHANGED <<tableVars, lateVars, fresh, pending, backlog, pc, i, cur,
                 scanVars, countVars>>

Child(s) ==
  \/ StoreIdle(s) \/ TellIdle(s)
  \/ Accept(s) \/ AcceptError(s)
  \/ StoreBusy(s) \/ TellBusy(s) \/ Serve(s)

-----------------------------------------------------------------------------
(* A process of slot s that was sent SIGTERM.  A pending signal is taken   *)
(* on the way back to user mode, so the process ends, at the latest, when  *)
(* its next system call returns.  Until then it goes on.                   *)

\* The store hits the slot although its pid is -1, or another child's by now.
VictimStores(s) ==
  /\ \/ /\ victim[s] = "storeIdle"
        /\ state' = [state EXCEPT ![s] = "IDEL"]
     \/ /\ victim[s] = "storeBusy"
        /\ state' = [state EXCEPT ![s] = "BUSY"]
  /\ victim' = [victim EXCEPT ![s] = "tell"]
  /\ UNCHANGED <<occupied, child, forkFailed, fresh, pending, backlog, pc, i,
                 cur, scanVars, countVars>>

VictimTells(s) ==
  /\ victim[s] = "tell"
  /\ victim' = [victim EXCEPT ![s] = "gone"]
  /\ Raise
  /\ UNCHANGED <<tableVars, child, forkFailed, fresh, backlog, pc, i, cur,
                 scanVars, countVars>>

\* accept returns a connection; nobody will serve it.
VictimAccepts(s) ==
  /\ victim[s] = "accept"
  /\ backlog > 0
  /\ backlog' = backlog - 1
  /\ victim' = [victim EXCEPT ![s] = "gone"]
  /\ UNCHANGED <<tableVars, child, forkFailed, fresh, pending, pc, i, cur,
                 scanVars, countVars>>

\* SIGTERM reaches the process, wherever it is.
Die(s) ==
  /\ victim[s] # "gone"
  /\ victim' = [victim EXCEPT ![s] = "gone"]
  /\ UNCHANGED <<tableVars, child, forkFailed, fresh, pending, backlog, pc, i,
                 cur, scanVars, countVars>>

VictimRuns(s) == VictimStores(s) \/ VictimTells(s) \/ VictimAccepts(s) \/ Die(s)

-----------------------------------------------------------------------------
(* add_1_server. The parent alone reads and writes pid and the counts.  It *)
(* stores STATE_IDEL before the fork, so bookkeeping and fork are one step.*)

FreeSlot == CHOOSE s \in Slots \ occupied :
              \A t \in Slots \ occupied : s <= t

HasRoom == idle_count + busy_count < MAXCLIENTS /\ occupied # Slots

ForkOK ==
  /\ HasRoom
  /\ state' = [state EXCEPT ![FreeSlot] = "IDEL"]
  /\ child' = [child EXCEPT ![FreeSlot] = "storeIdle"]
  /\ fresh' = fresh \cup {FreeSlot}
  /\ occupied' = occupied \cup {FreeSlot}
  /\ idle_count' = idle_count + 1
  /\ UNCHANGED forkFailed

ForkError ==
  /\ ForkMayFail
  /\ HasRoom
  /\ state' = [state EXCEPT ![FreeSlot] = "IDEL"]
  /\ forkFailed' = TRUE
  /\ UNCHANGED <<child, fresh, occupied, idle_count>>

PoolFull ==
  /\ ~HasRoom
  /\ UNCHANGED <<state, child, fresh, forkFailed, occupied, idle_count>>

add_1_server == ForkOK \/ ForkError \/ PoolFull

\* One iteration of the for loop that forks the initial children.
Fill ==
  /\ pc = "fill"
  /\ i < MINSPARESERVER
  /\ i' = i + 1
  /\ add_1_server
  /\ UNCHANGED <<victim, pending, backlog, pc, cur, scanVars, busy_count>>

FillDone ==
  /\ pc = "fill"
  /\ i >= MINSPARESERVER
  /\ pc' = "suspended"
  /\ UNCHANGED <<tableVars, child, lateVars, fresh, pending, backlog, i, cur,
                 scanVars, countVars>>

\* sigsuspend unblocks SIG_NOTIFY, takes it, and blocks it again, atomically.
Suspend ==
  /\ pc = "suspended"
  /\ pending
  /\ pending' = FALSE
  /\ forkFailed' = FALSE
  /\ pc' = "scan"
  /\ UNCHANGED <<tableVars, child, victim, fresh, backlog, i, cur, scanVars,
                 countVars>>

-----------------------------------------------------------------------------
(* scan_pool: one step per slot, because the children write `state` while  *)
(* the loop runs.                                                          *)

ScanVacant ==
  /\ pc = "scan"
  /\ cur \in Slots \ occupied
  /\ cur' = cur + 1
  /\ UNCHANGED <<tableVars, child, lateVars, fresh, pending, backlog, pc, i,
                 scanVars, countVars>>

\* Mutant: a vanished child is skipped and its slot never released.
ScanDeadKeepsPid ==
  /\ pc = "scan"
  /\ cur \in occupied
  /\ child[cur] = "gone"
  /\ cur' = cur + 1
  /\ UNCHANGED <<tableVars, child, lateVars, fresh, pending, backlog, pc, i,
                 scanVars, countVars>>

\* kill(pid, 0) fails: the child is gone (SA_NOCLDWAIT, so not a zombie).
ScanDead ==
  /\ pc = "scan"
  /\ cur \in occupied
  /\ child[cur] = "gone"
  /\ occupied' = occupied \ {cur}
  /\ cur' = cur + 1
  /\ UNCHANGED <<state, child, victim, forkFailed, fresh, pending, backlog,
                 pc, i, scanVars, countVars>>

CountIdle ==
  /\ state[cur] = "IDEL"
  /\ idle' = idle + 1
  /\ cur' = cur + 1
  /\ UNCHANGED <<busy, pc>>

CountBusy ==
  /\ state[cur] = "BUSY"
  /\ IF LoadsTwice
       THEN pc' = "reload" /\ UNCHANGED <<busy, cur>>
       ELSE busy' = busy + 1 /\ cur' = cur + 1 /\ UNCHANGED pc
  /\ UNCHANGED idle

ScanLive ==
  /\ pc = "scan"
  /\ cur \in occupied
  /\ child[cur] # "gone"
  /\ CountIdle \/ CountBusy
  /\ UNCHANGED <<tableVars, child, lateVars, fresh, pending, backlog, i,
                 countVars>>

\* The second test loads the field again: a child that went idle in between
\* passes neither test, and the parent aborts.
ScanReload ==
  /\ pc = "reload"
  /\ IF state[cur] = "BUSY"
       THEN busy' = busy + 1 /\ cur' = cur + 1 /\ pc' = "scan"
       ELSE pc' = "aborted" /\ UNCHANGED <<busy, cur>>
  /\ UNCHANGED <<tableVars, child, lateVars, fresh, pending, backlog, i, idle,
                 countVars>>

\* The loop that prints the table ends main's round, and leaves i at MAXCLIENTS.
Report == pc' = "suspended" /\ i' = MAXCLIENTS

\* scan_pool publishes its counts and returns; main chooses the loop to run.
ScanReturns ==
  /\ pc = "scan"
  /\ cur = MAXCLIENTS
  /\ cur' = 0
  /\ idle_count' = idle
  /\ busy_count' = busy
  /\ \/ idle > MAXSPARESERVER /\ pc' = "del" /\ i' = 0
     \/ idle < MINSPARESERVER /\ pc' = "add" /\ i' = 0
     \/ idle \in MINSPARESERVER .. MAXSPARESERVER /\ Report
  /\ UNCHANGED <<tableVars, child, lateVars, fresh, pending, backlog>>

\* Mutant: scan_pool's locals are static, and not reset by a call.
ScanDoneKeepsTally == ScanReturns /\ UNCHANGED scanVars

ScanDone == ScanReturns /\ idle' = 0 /\ busy' = 0

-----------------------------------------------------------------------------
(* The loop over del_1_server.  Its bound is evaluated again each time.    *)

DelCall ==
  /\ pc = "del"
  /\ i < idle_count - MAXSPARESERVER
  /\ i' = i + 1
  /\ IF idle_count = 0
       THEN UNCHANGED pc
       ELSE pc' = "pick"
  /\ UNCHANGED <<tableVars, child, lateVars, fresh, pending, backlog, cur,
                 scanVars, countVars>>

DelDone ==
  /\ pc = "del"
  /\ i >= idle_count - MAXSPARESERVER
  /\ Report
  /\ UNCHANGED <<tableVars, child, lateVars, fresh, pending, backlog, cur,
                 scanVars, countVars>>

IsVictim(s) == s \in occupied /\ state[s] = "IDEL"

Pick ==
  /\ pc = "pick"
  /\ IF cur = MAXCLIENTS
       THEN pc' = "del" /\ cur' = 0
       ELSE IF IsVictim(cur)
              THEN pc' = "kill" /\ UNCHANGED cur
              ELSE cur' = cur + 1 /\ UNCHANGED pc
  /\ UNCHANGED <<tableVars, child, lateVars, fresh, pending, backlog, i,
                 scanVars, countVars>>

\* What is left to do for a process at p.  A send or a sleep is its last call.
Remains(p) == CASE p \in {"tellIdle", "tellBusy"} -> "tell"
                [] p = "serve" -> "gone"
                [] OTHER -> p

\* kill(pid, SIGTERM): sent, not yet taken.  A child that is dead already is
\* left alone.  Bound: at most MaxVictims run on at a time, one of a slot; the
\* parent waits until one more may.
Victims == {s \in Slots : victim[s] # "gone"}

Terminate(s) ==
  /\ \/ child[s] = "gone" /\ UNCHANGED victim
     \/ /\ child[s] # "gone"
        /\ s \notin Victims /\ Cardinality(Victims) < MaxVictims
        /\ victim' = [victim EXCEPT ![s] = Remains(child[s])]
  /\ child' = [child EXCEPT ![s] = "gone"]
  /\ fresh' = fresh \ {s}

\* kill(pid, SIGTERM); pid = -1; idle_count--.
Kill ==
  /\ pc = "kill"
  /\ Terminate(cur)
  /\ occupied' = occupied \ {cur}
  /\ idle_count' = idle_count - 1
  /\ pc' = "del"
  /\ cur' = 0
  /\ UNCHANGED <<state, forkFailed, pending, backlog, i, scanVars, busy_count>>

(* The loop over add_1_server, its bound evaluated again each time.        *)
AddCall ==
  /\ pc = "add"
  /\ i < MINSPARESERVER - idle_count
  /\ i' = i + 1
  /\ add_1_server
  /\ UNCHANGED <<victim, pending, backlog, pc, cur, scanVars, busy_count>>

AddDone ==
  /\ pc = "add"
  /\ i >= MINSPARESERVER - idle_count
  /\ Report
  /\ UNCHANGED <<tableVars, child, lateVars, fresh, pending, backlog, cur,
                 scanVars, countVars>>

Parent ==
  \/ Fill \/ FillDone \/ Suspend
  \/ ScanVacant \/ ScanDead \/ ScanLive \/ ScanReload \/ ScanDone
  \/ DelCall \/ DelDone \/ Pick \/ Kill
  \/ AddCall \/ AddDone

Next == Connect \/ Parent \/ \E s \in Slots : Child(s) \/ VictimRuns(s)

Spec == Init /\ [][Next]_vars

\* The scheduler runs every process that can run.  Nothing is assumed about
\* clients: they need not come, and a client may be served for ever.
Prompt(s) == StoreIdle(s) \/ TellIdle(s) \/ Accept(s) \/ StoreBusy(s)
               \/ TellBusy(s)

FairSpec ==
  /\ Spec
  /\ WF_vars(Parent)
  /\ \A s \in Slots : WF_vars(Prompt(s)) /\ WF_vars(Die(s))

-----------------------------------------------------------------------------
TypeOK ==
  /\ occupied \subseteq Slots
  /\ state \in [Slots -> {"IDEL", "BUSY"}]
  /\ child \in [Slots -> ChildPC]
  /\ victim \in [Slots -> VictimPC]
  /\ forkFailed \in BOOLEAN
  /\ fresh \subseteq Slots
  /\ pending \in BOOLEAN
  /\ backlog \in 0 .. MaxBacklog
  /\ pc \in ParentPC
  /\ i \in Nat
  /\ cur \in 0 .. MAXCLIENTS
  /\ idle \in 0 .. MAXCLIENTS
  /\ busy \in 0 .. MAXCLIENTS
  /\ idle_count \in 0 .. MAXCLIENTS
  /\ busy_count \in 0 .. MAXCLIENTS

\* The counters main steers by add up to the table: outside scan_pool every
\* slot in use is counted exactly once, however the children, the deaths the
\* parent is never told of, and the loops over add_1_server and del_1_server
\* interleave.
Accounting ==
  pc \notin {"scan", "reload", "aborted"} =>
    idle_count + busy_count = Cardinality(occupied)

\* What a child's state says of it, once it has been stored.
Published(s) ==
  /\ child[s] \in {"accept", "storeBusy", "tellIdle"} => state[s] = "IDEL"
  /\ child[s] \in {"tellBusy", "serve"} => state[s] = "BUSY"

\* The parent may count a child idle that has gone on to serve, but then a
\* signal is pending and it will look again: with none pending, idle_count is
\* at most the number of slots whose child does not serve, or whose state says
\* so (a victim's store).  A dead child is among them: nobody is told of it.
NotServing(S) == {s \in S : child[s] = "serve" => state[s] = "IDEL"}

NeverOvercounted ==
  pc \notin {"scan", "reload", "aborted"} /\ ~pending =>
    idle_count <= Cardinality(NotServing(occupied))

IdleServers == {s \in occupied : child[s] # "gone" /\ state[s] = "IDEL"}

\* The parent sleeps, no signal is pending and no child is about to send one.
Quiescent ==
  /\ pc = "suspended"
  /\ ~pending
  /\ \A s \in Slots : child[s] \in {"gone", "accept", "serve"}

\* Nothing has happened that the code tells nobody of: no child in the table
\* is dead, none has its state overwritten by a victim, every fork since the
\* parent last woke up has succeeded, and the parent has not aborted.
Undisturbed ==
  /\ \A s \in occupied : child[s] # "gone" /\ Published(s)
  /\ ~forkFailed
  /\ pc # "aborted"

EnoughSpare == Cardinality(IdleServers) >= MINSPARESERVER \/ occupied = Slots

\* No notification is lost: whenever the pool comes to rest, MINSPARESERVER
\* children stand by or the table is full, although SIG_NOTIFY is not queued
\* and the loop that forks stops half way (its bound shrinks as it runs).  A
\* death, an overwritten state or a failed fork is an exception only while it
\* lasts: once the parent has been woken again, the pool is as it should be.
StandbyAtRest == Quiescent /\ Undisturbed => EnoughSpare

\* The same as progress, for the load the pool is meant for: when clients come
\* and none of them leaves, the parent goes on forking until MINSPARESERVER
\* children stand by for good or the table is full.  (Without "none leaves" it
\* does not hold: scan_pool is no snapshot, so two children that alternate
\* can each be counted idle although they never are so together.)
HoldsClient(s) == child[s] \in {"storeBusy", "tellBusy", "serve"}
ClientLeaves == (\E s \in Slots : Serve(s)) \/ (Kill /\ HoldsClient(cur))
Standby == <>[]Undisturbed /\ <>[][~ClientLeaves]_vars => <>[]EnoughSpare

\* While clients queue, accepts keep happening, if every client's send, sleep
\* and close end: the parent never kills or starves the pool into one that
\* serves nobody.
ServingEnds == \A s \in Slots : WF_vars(Serve(s))
Progress ==
  ServingEnds => []<>(backlog = 0 \/ \E s \in Slots : child[s] = "storeBusy")

\* The claim of "#define MAXSPARESERVER 10": once the pool comes to rest, and
\* whoever was sent SIGTERM is gone, at most MAXSPARESERVER children are idle.
SpareBounded ==
  Quiescent /\ Victims = {} => Cardinality(IdleServers) <= MAXSPARESERVER

\* The claim of the loop over del_1_server, that it kills surplus idle
\* children: a child that has taken a client's connection is never killed.
KillsIdleOnly == [][Kill => ~HoldsClient(cur)]_vars

=============================================================================
