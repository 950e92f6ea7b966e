--------------------------- MODULE MCThreadPrograms ---------------------------
(***************************************************************************)
(* Small programs of threads or processes, one of which runs: two users of *)
(* one semaphore, threads that each take and give back as many units as    *)
(* they like ("threads") and the program of mysem/main.c ("primes"); two   *)
(* programs that print letters in turn ("abcd", "abcd_cond"); the ones that*)
(* count in a file ("counter"); and the time servers with their clients    *)
(* ("server").  The first four share the set of threads asleep on the      *)
(* condition variable.                                                     *)
(***************************************************************************)
EXTENDS MySem

CONSTANTS MIN, MAX, Main, THRNUM, Adders, Nobody, Clients, Children, PROCNUM
ASSUME ProgramAssumption ==
  /\ MIN \in Nat /\ MIN > 1 /\ MAX \in Nat /\ MIN <= MAX
  /\ N > 0 /\ Main \in Threads
  /\ THRNUM \in Nat \ {0}
  /\ IsFiniteSet(Adders) /\ Adders # {} /\ Nobody \notin Adders \cup Clients
  /\ Main \notin Children /\ PROCNUM \in Nat /\ PROCNUM <= Cardinality(Children)

VARIABLES
  program,
  mainPC, next, threadPC, printed,                \* PrimeSem
  created, locked, num, letterPC, last,           \* Turns
  counter, file, holder, adderPC, line, joined,   \* SharedCounter
  server, backlog, client, stamped, proc, newsd,  \* StampServer
  started, waited, failed

Primes == INSTANCE PrimeSem
Letters == INSTANCE Turns
Counters == INSTANCE SharedCounter
Server == INSTANCE StampServer WITH Parent <- Main

users == <<need, held>>
primeVars == <<mainPC, next, threadPC, printed>>
turnVars == <<created, locked, num, letterPC, last>>
counterVars == <<counter, file, holder, adderPC, line, joined>>
serverVars == <<server, backlog, client, stamped, proc, newsd, started, waited,
                failed>>
all == <<program, semVars, users, primeVars, turnVars, counterVars, serverVars>>

Turning == {"abcd", "abcd_cond"}

ProgramsInit ==
  /\ Init /\ Primes!Init /\ Letters!Init /\ Counters!Init /\ Server!Init
  /\ program \in {"threads", "primes", "counter", "server"} \cup Turning
  /\ program # "counter" => counter = Counters!mutex
  /\ program # "server" => server = "pool"

\* A step of the one program that runs.
Free(A) ==
  /\ program = "threads" /\ A
  /\ UNCHANGED <<program, primeVars, turnVars, counterVars, serverVars>>
Prog(A) ==
  /\ program = "primes" /\ A
  /\ UNCHANGED <<program, users, turnVars, counterVars, serverVars>>
Show(A) ==
  /\ program \in Turning /\ A
  /\ UNCHANGED <<program, value, users, primeVars, counterVars, serverVars>>
Count(A) ==
  /\ program = "counter" /\ A
  /\ UNCHANGED <<program, semVars, users, primeVars, turnVars, serverVars>>
Serve(A) ==
  /\ program = "server" /\ A
  /\ UNCHANGED <<program, semVars, users, primeVars, turnVars, counterVars>>

ProgramsNext ==
  \/ Free(Next) \/ Prog(Primes!Next) \/ Show(Letters!Next)
  \/ Count(Counters!Next) \/ Serve(Server!Next)

\* Every thread runs, and the threads that use the semaphore give back what
\* they hold.  A thread of abcd that waits for its mutex gets it: nobody else
\* locks it.
ProgramsSpec ==
  /\ ProgramsInit /\ [][ProgramsNext]_all
  /\ \A t \in Threads :
        WF_all(Free(Wait(t) \/ Take(t))) /\ WF_all(Free(GiveBack(t)))
  /\ WF_all(Prog(Primes!MainSteps))
  /\ \A i \in Primes!Numbers : WF_all(Prog(Primes!ThreadSteps(i)))
  /\ WF_all(Show(Letters!MainSteps))
  /\ \A n \in Letters!Letters : WF_all(Show(Letters!Letter(n)))
  /\ WF_all(Serve(Server!ParentSteps))
  /\ \A k \in Children : WF_all(Serve(Server!ChildSteps(k)))
  /\ \A c \in Clients : WF_all(Serve(Server!EndOfStream(c)))

-----------------------------------------------------------------------------
\* The types of all programs.
ProgramsTypeOK ==
  /\ program = "threads" => TypeOK
  /\ program = "primes" => Primes!TypeOK
  /\ program \in Turning => Letters!TypeOK
  /\ program = "counter" => Counters!TypeOK
  /\ program = "server" => Server!TypeOK

\* The semaphore: nobody is asleep through units enough for it.
NoneStalled ==
  /\ program = "threads" => NeverStalled
  /\ program = "primes" => Primes!Sem!NeverStalled

\* PrimeSem: at most N threads work at a time, and no unit is lost or made;
\* when main destroys the semaphore no thread can use it any more, and exactly
\* the primes are printed.
CleanEnd == program = "primes" => Primes!Units /\ Primes!CleanEnd

\* The semaphore: somebody who asks gets units, and main of PrimeSem never
\* sleeps through one that is given back, so that the program ends.
SemaphoreServes ==
  /\ Served
  /\ program = "primes" ~> mainPC = "destroyed"

\* Turns: the letters come in turn, from the first one on.
LettersInTurn == Letters!InTurn

\* Turns: every letter is followed by the next one.
LettersGoOn ==
  \A n \in Letters!Letters :
    program \in Turning /\ last = n ~> last = Letters!next(n)

\* SharedCounter: no addition is lost under any of the three locks.
Counted == program = "counter" => Counters!Counted

\* StampServer: who is turned away without a stamp, and what must have happened.
TurnedAway == Server!TurnedAway

\* StampServer: no client waits for ever for the end of the stream.
ClientsEnd == Server!ClientsEnd
=============================================================================
