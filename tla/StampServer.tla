----------------------------- MODULE StampServer -----------------------------
(***************************************************************************)
(* The time servers of chapter 35 and their clients.  All send a stamp to  *)
(* whoever connects and close the connection: one client after the other   *)
(* ("iterative"), in a process for each ("concurrent"), or in PROCNUM      *)
(* processes that all wait in accept ("pool", the static one).             *)
(*                                                                         *)
(* The client's format ends in white space, so fscanf returns only at the  *)
(* end of the stream: when no process of the server holds the connection.  *)
(***************************************************************************)
EXTENDS Integers, Sequences, FiniteSets

CONSTANTS
  Clients,
  Children,  \* processes the server may have besides its first, dead ones
             \* that nobody has waited for included
  Parent,    \* its first process
  PROCNUM,   \* size of the pool
  Nobody

VARIABLES
  server,    \* the program that runs
  backlog,   \* completed connections, oldest first
  client,    \* [Clients -> ...]
  stamped,   \* clients whose socket holds a stamp
  proc,      \* the statement each process executes next
  newsd,     \* the client each process holds a connection to
  started,   \* main's i: processes of the pool that it has forked
  waited,    \* main's second i
  failed     \* history: the kinds of call that failed

netVars == <<backlog, client, stamped>>
serverVars == <<server, netVars, proc, newsd, started, waited, failed>>

Processes == Children \cup {Parent}

\* socket to listen.
Init ==
  /\ server \in {"iterative", "concurrent", "pool"}
  /\ backlog = << >> /\ stamped = {}
  /\ client = [c \in Clients |-> "out"]
  /\ proc = [q \in Processes |-> IF q # Parent THEN "none"
                                 ELSE IF server = "pool" THEN "spawn" ELSE "accept"]
  /\ newsd = [q \in Processes |-> Nobody]
  /\ started = 0 /\ waited = 0 /\ failed = {}

Dead == {"none", "zombie", "exited"}

\* The processes that hold the listening socket: a child of the concurrent
\* server closes it first.
Listeners ==
  {q \in Processes : proc[q] \notin Dead
                       /\ (server = "concurrent" /\ q # Parent => proc[q] = "born")}

Go(q, pc) == proc' = [proc EXCEPT ![q] = pc]

-----------------------------------------------------------------------------
(* The client. *)

Connect(c) ==
  /\ client[c] = "out"
  /\ Listeners # {}
  /\ client' = [client EXCEPT ![c] = "reading"]
  /\ backlog' = Append(backlog, c)
  /\ UNCHANGED <<server, stamped, proc, newsd, started, waited, failed>>

\* The user interrupts the client.
Quit(c) ==
  /\ client[c] = "reading"
  /\ client' = [client EXCEPT ![c] = "quit"]
  /\ UNCHANGED <<server, backlog, stamped, proc, newsd, started, waited, failed>>

InBacklog(c) == \E k \in 1 .. Len(backlog) : backlog[k] = c
Closed(c) ==
  /\ \A q \in Processes : newsd[q] # c
  /\ InBacklog(c) => Listeners = {}

\* fscanf finds a stamp, or "Bad format!".
EndOfStream(c) ==
  /\ client[c] = "reading"
  /\ Closed(c)
  /\ client' = [client EXCEPT ![c] = IF c \in stamped THEN "stamp" ELSE "bad"]
  /\ UNCHANGED <<server, backlog, stamped, proc, newsd, started, waited, failed>>

Client(c) == Connect(c) \/ Quit(c) \/ EndOfStream(c)

-----------------------------------------------------------------------------
(* What the servers share. *)

\* exit closes what the process holds; a child of a living parent stays in the
\* process table until that waits for it.
Exit(q) ==
  /\ Go(q, IF q = Parent THEN "exited" ELSE "zombie")
  /\ newsd' = [newsd EXCEPT ![q] = Nobody]

Accept(q) ==
  /\ proc[q] = "accept"
  /\ backlog # << >>
  /\ newsd' = [newsd EXCEPT ![q] = Head(backlog)]
  /\ backlog' = Tail(backlog)
  /\ Go(q, IF server = "concurrent" THEN "fork" ELSE "send")
  /\ UNCHANGED <<server, client, stamped, started, waited, failed>>

\* accept reports the client that has reset its connection: exit(1).
AcceptFails(q) ==
  /\ proc[q] = "accept"
  /\ backlog # << >> /\ client[Head(backlog)] = "quit"
  /\ backlog' = Tail(backlog)
  /\ Exit(q)
  /\ failed' = failed \cup {"accept"}
  /\ UNCHANGED <<server, client, stamped, started, waited>>

\* server_job: also to a client that is gone, if that is not known yet.
Send(q) ==
  /\ proc[q] = "send"
  /\ stamped' = stamped \cup {newsd[q]}
  /\ Go(q, "close")
  /\ UNCHANGED <<server, backlog, client, newsd, started, waited, failed>>

\* send returns -1, or SIGPIPE ends the process.
SendFails(q) ==
  /\ proc[q] = "send"
  /\ client[newsd[q]] = "quit"
  /\ Exit(q)
  /\ failed' = failed \cup {"send"}
  /\ UNCHANGED <<server, netVars, started, waited>>

\* close(newsd), then the next accept; a child of the concurrent server exits.
Close(q) ==
  /\ proc[q] = "close"
  /\ IF server = "concurrent" /\ q # Parent
       THEN Exit(q)
       ELSE Go(q, "accept") /\ newsd' = [newsd EXCEPT ![q] = Nobody]
  /\ UNCHANGED <<server, netVars, started, waited, failed>>

Serving(q) == Accept(q) \/ AcceptFails(q) \/ Send(q) \/ SendFails(q) \/ Close(q)

-----------------------------------------------------------------------------
(* The concurrent server. *)

\* Mutant: close(newsd) is forgotten in the parent.
ForkHolds(k) ==
  /\ proc[Parent] = "fork" /\ proc[k] = "none"
  /\ proc' = [proc EXCEPT ![Parent] = "accept", ![k] = "born"]
  /\ newsd' = [newsd EXCEPT ![k] = newsd[Parent]]
  /\ UNCHANGED <<server, netVars, started, waited, failed>>

\* Mutant: the parent serves the client itself, and the child exits.
ForkSwapped(k) ==
  /\ proc[Parent] = "fork" /\ proc[k] = "none"
  /\ proc' = [proc EXCEPT ![Parent] = "send", ![k] = "zombie"]
  /\ UNCHANGED <<server, netVars, newsd, started, waited, failed>>

\* The child has a copy of both descriptors; the parent goes on to close.
Fork(k) ==
  /\ proc[Parent] = "fork" /\ proc[k] = "none"
  /\ proc' = [proc EXCEPT ![Parent] = "close", ![k] = "born"]
  /\ newsd' = [newsd EXCEPT ![k] = newsd[Parent]]
  /\ UNCHANGED <<server, netVars, started, waited, failed>>

\* The process table is full of children that nobody waits for: exit(1).
ForkFails ==
  /\ proc[Parent] = "fork"
  /\ Exit(Parent)
  /\ failed' = failed \cup {"fork"}
  /\ UNCHANGED <<server, netVars, started, waited>>

\* The child closes the listening socket.
CloseListening(k) ==
  /\ server = "concurrent" /\ proc[k] = "born"
  /\ Go(k, "send")
  /\ UNCHANGED <<server, netVars, newsd, started, waited, failed>>

-----------------------------------------------------------------------------
(* The static pool. *)

Spawn(k) ==
  /\ proc[Parent] = "spawn" /\ started < PROCNUM
  /\ proc[k] = "none"
  /\ Go(k, "accept")
  /\ started' = started + 1
  /\ UNCHANGED <<server, netVars, newsd, waited, failed>>

\* exit(1): the processes that it has forked go on.
SpawnFails ==
  /\ proc[Parent] = "spawn" /\ started < PROCNUM
  /\ Exit(Parent)
  /\ failed' = failed \cup {"fork"}
  /\ UNCHANGED <<server, netVars, started, waited>>

SpawnDone ==
  /\ proc[Parent] = "spawn" /\ started = PROCNUM
  /\ Go(Parent, "wait")
  /\ UNCHANGED <<server, netVars, newsd, started, waited, failed>>

\* wait(NULL)
Wait(k) ==
  /\ proc[Parent] = "wait" /\ waited < PROCNUM
  /\ proc[k] = "zombie"
  /\ Go(k, "none")
  /\ waited' = waited + 1
  /\ UNCHANGED <<server, netVars, newsd, started, failed>>

WaitDone ==
  /\ proc[Parent] = "wait" /\ waited = PROCNUM
  /\ Exit(Parent)
  /\ UNCHANGED <<server, netVars, started, waited, failed>>

-----------------------------------------------------------------------------
ParentSteps ==
  \/ Serving(Parent)
  \/ ForkFails \/ SpawnFails \/ SpawnDone \/ WaitDone
  \/ \E k \in Children : Fork(k) \/ Spawn(k) \/ Wait(k)

ChildSteps(k) == CloseListening(k) \/ Serving(k)

Next ==
  \/ \E c \in Clients : Client(c)
  \/ ParentSteps
  \/ \E k \in Children : ChildSteps(k)

\* Every process runs, the clients too.
Spec ==
  /\ Init /\ [][Next]_serverVars
  /\ WF_serverVars(ParentSteps)
  /\ \A k \in Children : WF_serverVars(ChildSteps(k))
  /\ \A c \in Clients : WF_serverVars(EndOfStream(c))

-----------------------------------------------------------------------------
TypeOK ==
  /\ server \in {"iterative", "concurrent", "pool"}
  /\ backlog \in Seq(Clients)
  /\ client \in [Clients -> {"out", "reading", "quit", "stamp", "bad"}]
  /\ stamped \subseteq Clients
  /\ proc \in [Processes -> Dead \cup {"accept", "send", "close", "fork", "born",
                                       "spawn", "wait"}]
  /\ newsd \in [Processes -> Clients \cup {Nobody}]
  /\ started \in 0 .. PROCNUM /\ waited \in 0 .. started
  /\ failed \subseteq {"accept", "send", "fork"}

Quitters == {c \in Clients : client[c] = "quit"}

\* Who is turned away without a stamp, and why: in the iterative server a single
\* client that quits may cost all others theirs; in the concurrent one a send
\* that fails harms nobody else; the pool goes on until as many clients have
\* quit as it has processes.
TurnedAway ==
  (\E c \in Clients : client[c] = "bad") =>
    /\ server = "iterative" => Quitters # {}
    /\ server = "concurrent" => failed \cap {"fork", "accept"} # {}
    /\ server = "pool" => Cardinality(Quitters) >= started

\* Every client gets its stamp, or at least the end of the stream: no process
\* of the server keeps a connection open for ever.
ClientsEnd == \A c \in Clients : client[c] = "reading" ~> client[c] # "reading"
=============================================================================
