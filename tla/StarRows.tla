------------------------------- MODULE StarRows -------------------------------
(***************************************************************************)
(* block.c, block_2.c, suspend.c and real_signal.c of chapter 30 write rows*)
(* of stars with SIGINT blocked, and a "!" from its handler for the user's *)
(* interrupts: after each row, or, in the last two, once the program has   *)
(* gone to sleep at the end of the row.                                    *)
(***************************************************************************)
EXTENDS Integers

CONSTANTS
  STARS,    \* in a row (5)
  ROWS,     \* rows (1000)
  MaxInts   \* bound: interrupts of the user

VARIABLES
  stars,       \* the program that runs
  inherited,   \* SIGINT was blocked when it was started
  mask,        \* SIGINT is blocked
  pending,     \* SIGINT is pending
  saveset,     \* as mask, what the program means to restore when it ends
  oset,        \* as mask, what suspend.c sleeps with
  row,         \* stars in the row that has not ended
  rows,        \* rows begun
  starPC,
  sent,        \* interrupts of the user
  handled      \* runs of the handler

maskVars == <<mask, saveset, oset>>
starVars == <<stars, inherited, maskVars, pending, row, rows, starPC, sent, handled>>

\* After signal or sigaction.  The sets are not initialised.
Init ==
  /\ stars \in {"block", "block_2", "suspend", "real_signal"}
  /\ inherited \in BOOLEAN /\ mask = inherited /\ pending \in BOOLEAN
  /\ saveset \in BOOLEAN /\ oset \in BOOLEAN
  /\ row = 0 /\ rows = 0
  /\ starPC = "save"
  /\ sent = 0 /\ handled = 0

-----------------------------------------------------------------------------
(* The signal. *)

\* SIGINTs do not queue.
Interrupt ==
  /\ sent < MaxInts /\ starPC # "exited"
  /\ sent' = sent + 1
  /\ pending' = TRUE
  /\ UNCHANGED <<stars, inherited, maskVars, row, rows, starPC, handled>>

Deliverable == pending /\ ~mask

\* The handler, with SIGINT blocked while it runs.  pause and sigsuspend return
\* after it, and sigsuspend restores the mask.
Deliver ==
  /\ Deliverable /\ starPC # "exited"
  /\ pending' = FALSE
  /\ handled' = handled + 1
  /\ CASE starPC = "paused"    -> starPC' = "row" /\ UNCHANGED mask
       [] starPC = "suspended" -> starPC' = "row" /\ mask' = TRUE
       [] OTHER                -> UNCHANGED <<starPC, mask>>
  /\ UNCHANGED <<stars, inherited, saveset, oset, row, rows, sent>>

-----------------------------------------------------------------------------
(* main.  A call that unblocks a pending signal lets its handler run before *)
(* it returns, as does every return from the kernel.                        *)

At(pc) == starPC = pc /\ ~Deliverable
Goto(pc) == starPC' = pc

\* sigprocmask(SIG_UNBLOCK, &set, &saveset)
Save ==
  /\ At("save") /\ stars # "real_signal"
  /\ mask' = FALSE /\ saveset' = mask
  /\ Goto(IF stars = "suspend" THEN "block" ELSE "row")
  /\ UNCHANGED <<stars, inherited, pending, oset, row, rows, sent, handled>>

\* real_signal.c passes saveset as the set: it unblocks what happens to be in
\* there, and saves nothing.
SaveNothing ==
  /\ At("save") /\ stars = "real_signal"
  /\ mask' = (mask /\ ~saveset)
  /\ Goto("row")
  /\ UNCHANGED <<stars, inherited, pending, saveset, oset, row, rows, sent, handled>>

\* suspend.c blocks SIGINT once, before its loop.
BlockOnce ==
  /\ At("block")
  /\ mask' = TRUE /\ oset' = mask
  /\ Goto("row")
  /\ UNCHANGED <<stars, inherited, pending, saveset, row, rows, sent, handled>>

\* Mutant: SIGINT is not blocked in the loop.
BlockNot ==
  /\ At("row") /\ row = 0 /\ rows < ROWS
  /\ rows' = rows + 1
  /\ row' = 1
  /\ Goto("star")
  /\ UNCHANGED <<stars, inherited, maskVars, pending, sent, handled>>

\* The loop: sigprocmask(SIG_BLOCK, &set, NULL); in suspend.c it is blocked.
Block ==
  /\ At("row") /\ row = 0 /\ rows < ROWS
  /\ rows' = rows + 1
  /\ mask' = TRUE
  /\ Goto("star")
  /\ UNCHANGED <<stars, inherited, saveset, oset, pending, row, sent, handled>>

Star ==
  /\ At("star") /\ row < STARS
  /\ row' = row + 1
  /\ UNCHANGED <<stars, inherited, maskVars, pending, rows, starPC, sent, handled>>

Newline ==
  /\ At("star") /\ row = STARS
  /\ row' = 0
  /\ Goto(IF stars = "suspend" THEN "suspend" ELSE "unblock")
  /\ UNCHANGED <<stars, inherited, maskVars, pending, rows, sent, handled>>

Unblock ==
  /\ At("unblock")
  /\ mask' = FALSE
  /\ Goto(IF stars = "real_signal" THEN "pause" ELSE "row")
  /\ UNCHANGED <<stars, inherited, saveset, oset, pending, row, rows, sent, handled>>

Pause ==
  /\ At("pause")
  /\ Goto("paused")
  /\ UNCHANGED <<stars, inherited, maskVars, pending, row, rows, sent, handled>>

\* Mutant: sigsuspend(&set).
SuspendSet ==
  /\ At("suspend")
  /\ mask' = TRUE
  /\ Goto("suspended")
  /\ UNCHANGED <<stars, inherited, saveset, oset, pending, row, rows, sent, handled>>

\* sigsuspend(&oset) unblocks and sleeps in one step.
Suspend ==
  /\ At("suspend")
  /\ mask' = oset
  /\ Goto("suspended")
  /\ UNCHANGED <<stars, inherited, saveset, oset, pending, row, rows, sent, handled>>

\* sigprocmask(SIG_SETMASK, &saveset, NULL)
Leave ==
  /\ At("row") /\ row = 0 /\ rows = ROWS
  /\ mask' = saveset
  /\ Goto("left")
  /\ UNCHANGED <<stars, inherited, saveset, oset, pending, row, rows, sent, handled>>

Exit ==
  /\ At("left")
  /\ Goto("exited")
  /\ UNCHANGED <<stars, inherited, maskVars, pending, row, rows, sent, handled>>

Main ==
  \/ Save \/ SaveNothing \/ BlockOnce
  \/ Block \/ Star \/ Newline \/ Unblock \/ Pause \/ Suspend \/ Leave \/ Exit

Next == Interrupt \/ Deliver \/ Main

\* The program runs and pending signals are delivered; nobody need interrupt.
Spec ==
  /\ Init /\ [][Next]_starVars
  /\ WF_starVars(Main) /\ WF_starVars(Deliver)

-----------------------------------------------------------------------------
TypeOK ==
  /\ stars \in {"block", "block_2", "suspend", "real_signal"}
  /\ {inherited, mask, pending, saveset, oset} \subseteq BOOLEAN
  /\ row \in 0 .. STARS /\ rows \in 0 .. ROWS
  /\ starPC \in {"save", "block", "row", "star", "unblock", "pause", "paused",
                 "suspend", "suspended", "left", "exited"}
  /\ sent \in 0 .. MaxInts /\ handled \in 0 .. sent + 1

\* No "!" within a row, whenever the user interrupts, whatever mask the program
\* was started with, and however often SIGINT is blocked and unblocked.
RowsWhole == [][handled' # handled => row = 0]_starVars

\* An interrupt that comes while suspend.c writes a row has it write the next,
\* however close it comes to the sigsuspend: real_signal.c may sleep through it.
SuspendAnswers ==
  \A r \in 1 .. ROWS - 1 :
    stars = "suspend" /\ rows = r /\ pending ~> rows > r
=============================================================================
