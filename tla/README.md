# Formal models of the APUE course programs

The repository is a course notebook: some 130 small C programs, ordered by the
chapters of *Advanced Programming in the UNIX Environment*.  Most show one
library call.  A dozen are systems in their own right: a pre-forking server,
four generations of a token-bucket library, a timer library on top of the one
interval timer of a process, a counting semaphore, pools of worker threads and
processes, time servers, a line reader.
This directory holds TLA+ models of those, TLC configurations that check them on
small instances, and proofs that TLAPS checks for every size.

    DynamicPool                      36.项目实例/动态进程池/server.c
    PrimePool  <- PrimePoolCond      31.线程专题/primer_1_pool_cond.c
               <- PrimePoolBusy      31.线程专题/primer_1_pool.c (= primer_1_pool_busy.c)
               -> WorkDistribution   (abstract: what both pools implement)
    MySem      <- PrimeSem           31.线程专题/mysem/mysem.c, main.c
    TokenBucket                      31.线程专题/mytbf_thread_cond/mytbf.c, main.c
    TokenBucketBusy                  31.线程专题/mytfb_thread_busy/mytbf.c
    TokenBucketSignal                30.信号专题/mytab, mytfb_2, slowcat.c, slowcat_2.c
    AnyTimer  -> TimerParameters     30.信号专题/anytimer/anytimer.c
    Turns                            31.线程专题/abcd.c, abcd_cond.c
    SharedCounter                    31.线程专题/conflict.c, mutex.c, 32.高级IO/add.c,
                                     34.进、线程通信专题/add_semarr.c
    PrimeForks                       29.进程专题/primer1.c to primer3.c,
                                     31.线程专题/primer_1.c
    StampServer                      35.网络编程专题/流式套接字, 流式套接字_并发版, 静态进程池
    StarRows                         30.信号专题/block.c, block_2.c, suspend.c, real_signal.c
    MyGetline                        25.标准IO/getline_1.c, getline_3.c to getline_5.c
    CopyLoop                         25.标准IO/mycp_1.c, 26.系统调用IO/mycp_2.c to mycp_4.c,
                                     30.信号专题/mycp_SysIO.c, mycat.c
    *Proofs                          theorems about the module of the same name, or about
                                     the programs of MCPrimePools, MCBuckets, MCThreadPrograms
    MC*                              instances for TLC; the .cfg files say which

`PROJECT.json` maps every definition to its source lines, lists the runs with
their properties, the mutants that show a property can fail, the hazards and the
theorems.

## 1. Inventory

| component | state | operations | interacts with | what is hard |
|---|---|---|---|---|
| dynamic process pool (ch. 36) | table `serverpool` in shared memory, `idle_count`, `busy_count`, signal mask | `server_job` in the children; `add_1_server`, `del_1_server`, `scan_pool` and the loop of `main` in the parent | children and parent share the table and the listening socket; SIG_NOTIFY, SIGTERM, `kill(pid, 0)` | the scan is no snapshot, signals merge, children die silently or go on after SIGTERM, two loops change their own bound |
| prime pools (ch. 31) | the slot `num`, a mutex, a condition variable | main's loop, the workers' loop | slot, wait set, join | one wait set for two conditions, end marker in the slot, destruction after join |
| semaphore `mysem` (ch. 31) | value, mutex, condition variable | `mysem_sub`, `mysem_add`, `mysem_destroy` | used by main and its threads | waiters want different amounts; units must not be lost |
| token bucket with condition variables (ch. 31) | `job[]` under `mut_job`, a bucket with its own mutex and cond | init, fetch, return, destroy, `thr_alrm`, `module_load`, `module_unload` | refill thread, clients, `exit` | two levels of locks, destruction against the refill, cancellation, returned tokens |
| token bucket that spins (ch. 31) | the same, no cond | the same | the same | the mutex is unlocked twice |
| `anytimer` (ch. 30) | `job[]` without any lock, SIGALRM action, interval timer | add, cancel, wait, the handler, load, unload | the handler interrupts the main flow everywhere | handler against every statement, `pause` race, exit |
| token buckets driven by SIGALRM, `slowcat`, `slowcat_2` (ch. 30) | `job[]`, `token`, `loop` | as above, the refill is the handler | handler against fetch and return | read-modify-write against the handler, exit with the timer running |
| `mypipe` (ch. 32, 33) | ring buffer, counts of readers and writers | register, unregister, read; write is an empty stub | readers and writers rendezvous | not modelled: unfinished, does not compile |
| printing in turn (`abcd`, `abcd_cond`) | a chain of mutexes; `num` and a cond | the four threads, main's `alarm` | each thread wakes the next | mutexes unlocked by another thread |
| shared counter in a file (`conflict`, `mutex`, `add`, `add_semarr`) | the file | read, add one, write, under no lock, a mutex, `lockf`, a semaphore array | threads or processes | lost updates |
| time servers (ch. 35): iterative, concurrent, static pool | listening socket, one connection per process | accept, send the time, close; fork per client; fork at start and wait | the kernel's queue, clients that leave, wait | who holds which descriptor, zombies, processes that die and are not replaced |
| primes with processes or a thread per number (ch. 29, 31) | stdout's buffer in each process | fork, test, exit, wait | a fork copies the buffer; wait | output written twice, forks that fail |
| rows of stars (ch. 30): `block`, `block_2`, `suspend`, `real_signal` | signal mask, pending SIGINT | block, write, unblock, pause or `sigsuspend` | the user's interrupts | a signal between unblocking and sleeping |
| line reading (ch. 25): `getline_1`, `_3`, `_4`, `_5` | a buffer, its size, the file's offset | fgets, scan, double or read again | fgets, malloc, realloc | the NUL in the middle, the end of the file on a boundary, memory the caller owns |
| copying a file (`mycp_*`, `mycat`; ch. 25, 26, 30) | offsets, a buffer | the loop of reads and writes | signals interrupt calls | short and interrupted calls |
| earlier versions of the pool, datagram and message programs, utilities | local variables | straight-line code around one call | none or a pipe | short reads and writes, EINTR |

Correctness, component by component, is what the properties below state.  The
lines that are hard to test are the hazards of `PROJECT.json`, each with the
properties that would notice it going wrong, or the reason why none does.

## 2. Plan

1. *Done:* the dynamic pool, the prime pools with their abstract specification,
   the semaphore and its program, the token buckets of chapters 30 and 31, the
   timer, the programs that print in turn, count in a file, copy a file, read
   lines, write rows of stars, test primes in processes, and the time servers.
2. *Left:* the drafts of the dynamic pool (`server_test.c`, twice) as a module
   that extends DynamicPool and replaces what differs: the parent stores IDEL
   after the fork, when the child may have stored BUSY already, and
   `del_1_server` tests slot 0 in every iteration but kills the slot it has
   counted to, whose pid may be -1.
3. *Proofs:* every safety invariant and action property of the passing runs is a
   theorem.  Left for the proofs is what follows item 2: in those
   drafts a child that serves need not have published it (`Published`), on which
   the proof of StandbyAtRest rests.

Programs that share a promise share a run: a module such as `MCPrimePools` takes
one specification as its base, brings the others in with INSTANCE, and lets the
initial state choose which one of them runs.  A program that does not run stays
in one initial state.

## 3. What is modelled, and how

### DynamicPool

A child is identified with its slot.  Its control points (`child[s]`) are the
statements of `server_job` between which the parent can look: store `IDEL`, tell
the parent, `accept`, store `BUSY`, tell, serve.  The parent's are those of
`main` (`pc`), with `scan_pool` as one step per slot and each iteration of the
loops over `add_1_server` and `del_1_server` as a step (`pick` and `kill` apart:
the test of the state and the signal are two moments).  Decisions:

- SIG_NOTIFY is a standard signal: one pending bit.  It is blocked except in
  `sigsuspend`, so it is consumed by `Suspend` alone.
- `kill(SIGTERM)` (`server.c:146`) only sends the signal.  A pending signal is
  taken on the way back to user mode, so the process goes on until its next
  system call returns at the latest: it may still store a state, tell the
  parent, or take a connection.  By then its slot may be out of the table, or
  belong to a child forked since, whose state the store overwrites.  `child[s]`
  is the process the table knows of, `victim[s]` what the one that was sent
  SIGTERM before it may still do (VictimRuns), and Die the arrival of the signal.
  Bounds: at most MaxVictims such processes at a time, one of a slot; the parent
  waits until one more may run.  A child that is dead already is not signalled.
- The reuse of process ids and SIGPIPE are not modelled.
- `accept` gets an uninitialised `raddr_len`, so the first call of a child may
  fail (AcceptMayFail); the child then exits and tells nobody, because the
  parent ignores SIGCHLD.
- `state` is shared and not volatile: a build may load it once or twice in
  `scan_pool` (LoadsTwice).  Loaded twice, a child that changes in between
  passes neither test and the parent aborts (`server.c:175-181`).
- The kernel's queue of connections is bounded by MaxBacklog.

Two invariants relate the parent's count to what the children do.
NeverOvercounted: with no signal pending, `idle_count` is at most the number of
slots whose child does not serve (or is dead, of which nobody is told, or has
its state overwritten).  StandbyAtRest: at rest there are enough spare children,
unless something has happened that the code tells nobody of (Undisturbed): a
child in the table is dead or has its state overwritten, or a fork has failed
since the parent woke up (`forkFailed`).  Each excuse holds only while it lasts,
so the failures are part of the run and of the theorem.

Fairness: the parent runs, children run up to the service of a client, and
SIGTERM arrives.  That a service ends is *not* assumed, except inside the property Progress.  The
system may idle for ever, hence no deadlock check.

`36.项目实例/动态进程/server.c` is the same program but for a `continue` that is
never reached.

### PrimePool, PrimePoolCond, PrimePoolBusy, WorkDistribution

`PrimePool` holds what the two programs share.  With a condition variable, a
critical section (lock, or return of the wait, up to unlock or the next wait) is
one step: `num` is never touched outside.  Spurious wake-ups are steps.  In the
program that spins the mutex is explicit, since who holds it over `sched_yield`
is the question.  `WorkDistribution` says what the pools promise: items are
taken one at a time by one worker each and then done.  The mapping takes the
numbers not yet put or in the slot for the items to do.

Fairness: threads run (weak).  For the program that spins, a thread that wants
the mutex gets it (strong): the assumption under which spinning with
`sched_yield` works at all; POSIX promises no more than that it yields.

### MySem, PrimeSem

`MySem` under threads that take between one and MaxUnits units and give back
what they took; `PrimeSem` is `main.c`, with `mysem_sub` called by main alone.
The result of `pthread_create` is ignored in the code; it is taken to succeed.

### Turns

In `abcd` each thread locks its own mutex and unlocks the next thread's: locks,
writes and unlocks are steps of their own, and threads run while main still
initialises the mutexes of the others.  A mutex unlocked by a thread that does
not own it is undefined in general; glibc's default mutex has no owner to check
and is simply free.  In `abcd_cond` a critical section is one step.  The alarm
that ends the process after five seconds is left out: it may come between any
two steps, and the properties are about every step.

### SharedCounter

Four programs that differ in the lock they take and in what happens when: a
record per program says whether it locks, whether it flushes before it unlocks,
and whether the lock really goes at the unlock or at the close.  The last is for
`lockf` (`add.c:34`), which unlocks from the current offset on: after the flush
the offset is behind the number, so the number's bytes stay locked until
`fclose`.  What `fprintf` has left in the stream's buffer is in the file after
the flush or the close only.  `conflict.c` has no lock and loses additions, as
its name says.

### TokenBucket

The bucket's own critical sections are one step; `mut_job` is explicit, because
`thr_alrm` holds it over the whole table.  `malloc` picks any struct not used
before (addresses are not reused).  Clients run `main.c`, and may share a bucket
on the condition that the last user destroys it; read and write may be short and
may fail.  `exit` is taken when the clients are done: the thread is cancelled,
which acts at `sleep(1)` only, joined, and the table is emptied.  The history
variables `refills` and `issued` record tokens per bucket; at MaxRefills the
history stops (`issued` is cleared), and the program goes on.

Fairness: every thread runs; the file need not end.

### TokenBucketBusy

One bucket, its refill thread and its client.  `mytbf_fetchtoken` unlocks,
yields and unlocks *again* (`mytbf.c:162`) where it should lock: unlocking a
mutex one does not hold is undefined, and with glibc's normal mutex it becomes
free.  Hence every load and store of `token` is a step of its own, and `reloads`
says whether the build loads it again for every use after the test; a build that
does may subtract more than there is.  Numbers of tokens saturate at MaxToken.
Module handling is that of TokenBucket and not repeated.

### TokenBucketSignal

Four programs in which the handler of SIGALRM adds the tokens: a record per
program says how many per tick and up to which limit, whether it is a library
(with tokens given back, and an exit hook), and whether the handler must start
the next alarm itself.  The handler may run between any two steps of the main
flow; `token -= n` and `token += size` are one step or a load and a store, as
the compiler likes.  One bit says that SIGALRM is pending, one what its action
is; unloading restores the action and then stops the timer, as the code does
(`mytab/mytbf.c:52` and `:59`), and the default action ends the process.  Reads,
writes and `open` are tried again when interrupted; short writes end in the
whole being written or in an error.  `mytab/mytbf.c:73` calls `sigempty`, which
does not exist; it is read as `sigemptyset`.

Fairness: the alarm rings, signals are delivered, the main flow runs.

### CopyLoop

Six programs, with a record per program: whether it opens the file it writes,
whether it makes interrupted calls again, and whether it writes through a
stream.  A source is the sequence of its positions, so that a byte lost,
repeated or misplaced shows in the output.  Reads and writes take any part of
what they may; a call that is repeated is a stuttering step.  A read that fails
ends all of these programs with exit status 0, and `mycp_1` does not look at the
result of `fclose`: `failed` records it, and CopyFaithful excepts it.  `mycp_1`
repeats a failing `fwrite` for ever.

### MyGetline

A file is the sequence of its positions, some of which are newlines, so that a
character lost, repeated or misplaced shows in the buffer; -1 is what is in fresh
memory.  A record per program says what the caller's buffer is, whether the main
reads on, and whether a buffer that is too small is given up and the line read
again (`getline_4.c:76-85`).  `capacity` is how much memory there is and
`bufsize` what the program takes it for.  fgets takes as much as it may; any
allocation may fail.  Three things of these programs are states of their own,
which WithinMemory says when to expect: `realloc` of an array (`getline_3.c:106`,
the C library aborts; the header of `getline_4.c` says that it mends this), a
memset that runs over the end of the memory (only after the first malloc of
`getline_5.c:143` has failed: bufsize is then 10 while mygetline allocates 4),
and the end of the main's loop.

### StarRows

A mask bit and a pending bit for SIGINT; a signal that is pending and not
blocked is handled before main takes its next step, and what unblocks a pending
signal returns after the handler.  `sigsuspend` unblocks and sleeps in one step,
while `real_signal.c` unblocks and then calls pause, with a step of the user in
between: it may sleep through the interrupt, and SuspendAnswers (a part of
EveryWaitEnds) is stated of `suspend.c` alone.  The sets the programs save to are
not initialised, and the mask they inherit may block SIGINT.  `real_signal.c:22`
passes `saveset` as the set to unblock.

Fairness: the program runs and the kernel delivers; the user need not interrupt.

### PrimeForks

Each process has a buffer: the heading that main writes before it forks, and the
primes found; a fork copies what main's holds, and exit writes it.  On a terminal
every line is written at once.  The threads of `primer_1.c` share one buffer.  A
fork may fail at any number: nobody looks at the result (`primer3.c:23` compares
the address of the function), the number is not tested, and main then waits more
often than it has children, which returns at once.  The numbers start above 4,
since `j < i/2` finds no divisor of 4.

Fairness: processes and threads run, and the sleeps of `primer1` and `primer2`
end.

### StampServer

The three servers and the clients that connect to them, which may leave at any
moment.  A client reads to the end of the stream, because the format ends in
white space (`proto.h`): it returns when no process of the server holds its
connection, queued ones included.  So the descriptors that a fork copies are
state, and so is who has the listening socket.  accept and send may fail once the
client has left.  Children that have exited keep their place in the process table
(Children bounds it) until the parent waits, which the concurrent server never
does: its fork fails in the end and the server exits.

Fairness: the processes of the server run, and a client whose stream has ended
returns.

### AnyTimer

`AnyTimer` is run as one of the programs of `MCBuckets`, which is why its
constants stand in a module of their own, `TimerParameters`.  The handler runs to
completion while the main flow stands still, between any two statements of it.
A tick is one pending bit; it is delivered before a system call returns;
`at_waitjob`'s test of the state and its `pause` are two steps, so a tick in
between is one that `pause` misses.  A job's function neither calls the library
nor exits.  Refused calls change nothing and are left out.  A `time_remain`
below 0 stays below 0 for 2^31 seconds and is kept at -1.  A freed struct
(between `free(job[id])` and `job[id] = NULL`, `anytimer.c:218-219`) is read by
the handler, which is undefined: it is taken for a job that does not run.

`at_canceljob` does what the code does: it changes nothing and returns 0.  The
history `canceled` holds the jobs this has happened to.  CanceledNotCalled, which
the header promises of them, is violated; Fires says nothing about them.  Cadence
counts the ticks the handler has seen: it says nothing of the time of day, and
the first of the seconds of a job may be shorter than a second, since the timer
is already running when the job is added.

Fairness: the timer ticks, handlers return, and the main flow goes on inside a
call however often it is interrupted (strong).

## 4. Runs

| run | instance | shows |
|---|---|---|
| `pool_safety` | 3 slots, 2 spare, failures of accept and fork, one process that runs on after SIGTERM | the counters agree with the table (Accounting); with no signal pending the parent does not take a child that serves for a spare one (NeverOvercounted); at rest enough children stand by (StandbyAtRest) |
| `pool_live` | 2 slots, 1 spare, no failures, two loads | the pool comes to have enough children standing by if clients stay (Standby); queued clients are accepted (Progress) |
| `pool_spare` | 4 slots, 1 spare | **violation**: too many spare children at rest |
| `pool_kill` | 3 slots, 1 spare | **violation**: a child that holds a client is killed as idle |
| `prime_pools` | numbers 2 to 7, 4 workers, either pool; or the numbers 5 to 9 in processes or threads, forks that fail, 3 processes in `primer3` | the pools implement WorkDistribution and print exactly the primes; in neither is everybody asleep or waiting for a mutex whose holder has left (PoolsNeverStall); the forking programs write each prime and the heading once (ForkedPrimes); all end (AllEnd) |
| `thread_programs` | 3 threads, 3 units, requests of 1 to 3; or 8 numbers; or 4 letters; or 3 adders; or 3 clients of a time server, room for 2 children, a pool of 2 | nobody sleeps through enough units, units conserved and the semaphore outlives its users (CleanEnd), whoever asks is served and its program ends (SemaphoreServes); letters in turn, for ever; no addition lost under a lock; who is turned away without a stamp, and why (TurnedAway); nobody's connection stays open (ClientsEnd) |
| `bucket` | 2 clients, 2 buckets, table of 2, history of 4 refills | rate, non-empty fetch, refill touches live buckets only, clean end; every waiter woken, fetch and exit return (NobodyHangs) |
| `buckets` | four programs with a handler, 2 tokens per tick, burst 3, requests of 4, 4 ticks recorded; or the bucket that spins, in a build that loads `token` once or again; or six copy programs, files of up to 5 bytes read 3 at a time; or four line readers, a buffer of 3, blocks of 2, files of up to 7 characters with newlines anywhere; or rows of stars, 3 of 3, with 4 interrupts; or the timer with 2 entries and delays of 0, 1 and 2 | the rate is kept, a fetch returns with tokens and an interrupt of `suspend.c` is answered (EveryWaitEnds); what is written is what was read; every line is whole and fits its memory; no interrupt is answered within a row; jobs are called on time and once, and at all unless canceled (Fires), the process is not killed by its own timer (Survives), a wait returns and frees only what was called |
| `spin_ceiling` | the same | **violation**: more than `burst` tokens in the bucket that spins |
| `alarm_kills` | the same | **violation**: `exit` is ended by the library's own alarm |
| `line_tail` | the same | **violation**: a last line that just fills the buffer is lost |
| `timer_cancel` | the same | **violation**: a job is called after it has been canceled |

Why the bounds are enough.  *Pool:* with 3 slots the scan meets a change behind
it and before it, and the table fills; with two spare children the loop that
forks stops half way, the case StandbyAtRest is about, and the loop that kills
leaves a process that may store into a slot forked into again.  `pool_live` asks
for progress only, and has a child that serves beside the spare one.
*Pools:* four workers and six numbers have every worker idle while main
waits, and composites among the numbers in flight at the end.  *Semaphore:*
requests of 1, 2 and 3 units wait together, so one addition may serve two
waiters or the wrong one.  *Bucket:* two clients on one bucket or on two, a
bucket destroyed while the other is refilled; CPS 1 with BURST 2 and requests of
2 meet partial fetches and the cut, and MaxRefills = 4 is more than the BURST /
CPS + 1 refills after which a bucket is full and cut, so that both, and what is
given back of a part, lie in the recorded part of a run.  The full table is met
by the theorems only.
*Timer:* two jobs due at the same tick or not, entries reused, 0 included.
*Buckets:* main.c has one client per bucket; a burst that is no multiple of the
refill makes the cut and partial fetches happen, and a request above the burst
lets a client of the spinning bucket take all there is.  *Lines:* a buffer of 3 is doubled to 6 within 7
characters, and one of 2 (given none) to 4 and 8, so a line may end before, on
and after each boundary, at a newline or at the end of the file.  *Stars:* three
rows have a first, a middle and a last; four interrupts leave one pending while
another comes.  *Servers:* three clients and two processes have one client wait
in the queue while the others quit or are served.  *Forks:* five numbers and
three processes give two processes two numbers and one process one, with primes
and composites in each part.  *Letters and adders:* the code
has 4 and 20; three adders have one that waits while another overtakes.  CHECK_DEADLOCK is off because
programs end, servers idle, and a process that exits stops.

### Disagreements found

- **More spare children than MAXSPARESERVER** (`server.c:281`): `i <
  idle_count - MAXSPARESERVER` is evaluated again after every kill, so half of
  the surplus stays.  The mirror image at `:287` forks only half of what is
  missing, but there the new children's signals bring the parent back:
  StandbyAtRest holds.
- **A busy child is killed** (`server.c:146`): the child stores BUSY after
  `accept` has returned.
- **More than `burst` tokens** (`mytfb_thread_busy/mytbf.c:162`).
- **Ended by its own alarm** (`mytab/mytbf.c:52`): `module_unload` restores the
  default action of SIGALRM before it stops the timer; a tick in between ends
  the process that is exiting.  `anytimer.c:61-82`, written later, does it the
  other way round, and Survives is proved of it.
- **The last line is lost** (`getline_5.c:82`): the end of the line is looked for
  in `begin..end-2`.  A last line without a newline whose characters fill just
  these places has none; the buffer grows, the next fgets meets the end of the
  file, and mygetline returns -1 with the line in the buffer.

- **A canceled job is called** (`anytimer.c:202`): the line compares the state
  with STATE_CANCELED (`==`) where it should assign it.  at_canceljob returns 0,
  which `anytimer.h:18` calls success, and -ECANCELED (`:21`) is never returned.

Seen while modelling, without a run of its own: `getline_3.c:106` passes an array to realloc; `primer3.c:23` compares the
address of fork with 0; `real_signal.c` may sleep through an interrupt, and
restores a mask it has never saved (`:22`, `:45`), although its comment at `:21`
says that it saves it; the concurrent server never waits for its children; a job of 0 seconds is accepted
and never called (`anytimer.c:43-44` counts before it tests; Fires and WaitReturns
are stated for positive delays); the first id is 0 while `anytimer.h:9` announces
a positive one; the handler may read a freed struct (`anytimer.c:218`); a child
whose `accept` fails leaves the pool short without anybody noticing
(`server.c:67`); an unoptimised build of the pool may abort (`server.c:175`); a
process that was sent SIGTERM may overwrite the state of the child forked into
its slot (`server.c:147` frees the slot at once); the first second of a job of
the timer may be short (`anytimer.c:103` starts the timer with the first job, and
not again);
`add_semarr.c:28` joins two inequalities with `||`, so an interrupted `semop`
ends the process instead of being tried again (nothing interrupts it here); a
build of the bucket that spins which loads `token` again after its test may hand
out 0 tokens or fewer, which main.c takes for the end of the file
(`mytfb_thread_busy/mytbf.c:165-167`; main.c asks for 1024 of at most 100, and
the store of a refill may lie between the loads).

## 5. Proofs

All theorems hold for every value of the constants that satisfies the named
assumptions of their modules (PoolAssumption, PrimeAssumption, PoolsAssumption,
ForksAssumption, BucketAssumption, SignalAssumption, BusyAssumption,
LineAssumption, TimerAssumption, NoJobAssumption, SemAssumption and
ProgramAssumption), which TLC evaluates on every run.  They say that sizes are
natural numbers or positive, that distinct things have distinct names, and that
the saturation bounds of the model lie above what the code can reach (BURST <=
MaxToken).

Where an MC module composes several programs, its invariant is the conjunction of
each program's own, and a step of one leaves the variables of the others at what
they were: the theorems are about the specification that TLC runs.
AnyTimerProofs is about `AnyTimer` alone; BucketsProofs takes its invariant over
for the timer of `MCBuckets` with INSTANCE ... WITH.

- **DynamicPoolProofs.**  Type, Accounting, NeverOvercounted, StandbyAtRest.
  Accounting is not inductive: while `scan_pool` runs the counters are stale, so the
  invariant says that `idle + busy` counts exactly the used slots below the loop
  variable (`Seen(cur)`), and that outside the scan the two counts make up the
  table; the lemmas on `Seen` say what one more slot, a released one and the end
  of the table change.
  StandbyAtRest is the argument that no notification is lost, although the scan
  is no snapshot, signals merge, accepts and forks fail, and processes run on
  after SIGTERM and store into slots that are no longer theirs.  While no signal
  is pending, no child has passed from accept to serve since the parent woke up,
  so a child counted as idle does not serve, unless its state says so
  (CountedIdle): that is NeverOvercounted.  A victim that has not stored yet has
  overwritten nothing: its slot is free, or the child in it has its own state
  stored (NotYetOverwritten).  The loop that kills stops before
  it is below the maximum (Surplus), and the loop that forks half of what is
  missing leaves a table that is not calm: a new child has still to signal.  So a
  pool that rests and is undisturbed has forked none, and missed none (Missing).
- **PrimePoolsProofs.**  For the pool with a condition variable four parts:
  copies (a number is in one worker's hands at most, and no longer in the slot),
  phases (what main's progress allows), sleepers (main sleeps only on a full
  slot, not all workers then, nobody after the end: the argument against a lost
  wake-up), results (printed are the primes among the numbers done).  From
  these: NeverStalled of this pool, AllPrimesPrinted, Distribution by a step-by-step
  refinement of WorkDistribution, and through it that no number is taken twice
  (PrimeTakenOnce, from WorkExactlyOnce).  The pool that spins is shown to refine
  the one with a condition variable (PoolsImplementCond): who holds the mutex is
  at the slot (Held), so a take or a put is a critical section of the other pool,
  and locking, yielding and looking in vain are stutters; the results and the
  refinement then hold of it.  That it does not stall is a statement of its own,
  about the mutex: who owns it is in a critical section that unlocks it, from
  Held, and some thread finds the slot as it wants it, from the phases
  (PoolsNeverStalled).  ForkedPrimes of the programs with a process or a thread per
  number: main has waits enough left for the children there are, although each
  wait that finds none is spent as well (Waited); a child goes through First + k,
  First + k + s, ... in order (Courses), and no two share a number (lemma
  MineAlone); what a child has found is in its buffer or has been written, once
  (Outcomes).  Lemma HalfDivision shows that the divisors `j < i/2` decide
  primality from 5 on.
- **TokenBucketProofs.**  Type, RateBound, FetchNonEmpty, AlarmTouchesLive,
  CleanEnd.  The strengthening says that the table holds live buckets only
  (Table), that a bucket between allocation and placement is known to its maker
  alone (Owners) and that the refill thread holds mut_job exactly while it looks
  at the table (Sweep).  RateBound is proved for a history of any length.  For
  CleanEnd every live bucket is in one slot or with the client that is about to
  place it or has just taken it out (Tracked), and the slots that module_unload
  has passed stay empty, since exit comes after the clients (Unloading).
- **BucketsProofs.**  For the four programs whose handler refills: the handler
  runs between any two steps of the main flow, so what a step has tested (Knows:
  `token > 0` before a fetch, `n <= token` before the subtraction) must not be
  spoilt by a refill, and the rate (Rate) also counts the tokens on their way
  back and the value that is about to be stored over the bucket.  For the bucket
  that spins: what a client that loads `token` once has tested stays in its own
  hands (Fetching), so it is never given nothing, whoever has its mutex
  (SpinFetchNonEmpty); its Ceiling is violated and not proved.  For the copies:
  the buffer is the last piece read and the output everything before what is left
  of it (CopyInv), so what is written is a beginning of the source, and all of it
  at an exit with status 0 without a failed call.  For the rows: a row is only
  written with SIGINT blocked (StarInv).
- **AnyTimerProofs.**  The invariant of the timer, from which BucketsProofs has
  TimerTypeOK, Cadence, Survives and WaitMeansCalled.  Counting:
  ticks handled and ticks left make up the delay of every running job.  Waiting:
  the job a wait holds on to is not freed by anybody else.  Ticking: while the
  timer runs or a tick is pending the handler is installed, the reason for the
  order of `module_unload`.
- **MyGetlineProofs.**  Type, LineIntact, WithinMemory, for buffers and files of
  any size and with any allocation failing.  Sized relates what `bufsize` says to
  the memory between two calls; Round says what each round of doubling starts
  from (the line's characters up to `begin` stand in their places, none of them
  is a newline, and fgets will write on the NUL of the round before); Scanned
  what fgets has left and why it has stopped there.  A buffer without an end of
  line is full (FullBuffer), so a round that doubles it hands all of it on.
- **ThreadProgramsProofs.**  A thread sleeps in the semaphore only while it asks
  for more units than there are (SemInv): an addition empties the wait set, and a
  taken unit only lowers the value.  For `mysem/main.c` the units of the
  semaphore and those that threads hold make up N, and the threads main has
  passed in its join loop have ended (PrimesInv), so nobody uses the semaphore
  when it is destroyed (CleanEnd).  For the letters, the
  one free mutex, or the thread that has taken it, goes round (Ring).  For the
  adders with a lock the number in the file is the number of adders that have
  written theirs, and what one has read is still true when it writes (Locked);
  without one it is between 1 and that in the end (Unlocked).  For the time
  servers a client has one connection, in the queue or with a process
  (Connections); one that reads has its stamp or has it coming, unless a fork has
  failed (StampOnTheWay); and every process the pool has lost took with it a
  client of its own that had quit (OnePerQuitter), which is how many it takes to
  turn somebody away.
- **WorkDistribution.**  No item is held twice or taken again (WorkExactlyOnce).

Only model-checked: what needs fairness, that is the liveness properties Standby,
Progress, AllEnd, SemaphoreServes, LettersGoOn, ClientsEnd, NobodyHangs, Fires,
WaitReturns and EveryWaitEnds, which the prover cannot reach (it knows neither
ENABLED nor the rules for WF and SF).  The six claims that the code violates are
refuted by TLC's counterexamples.

## 6. Not modelled

The earlier versions of the dynamic pool (`server_test.c`, `server3.c`);
`mypipe`, which is unfinished: it uses names it does not declare
(`33.管道实例/mypipe/mypipe.c:45`, `:56`, `:137`) and its write does nothing;
`mygetline` of `getline_1.c`, which does not compile (`:63`), and `getline_2.c`,
which calls the C library's; the drafts of the token buckets, which do not
compile or are superseded; single-call exercises and utilities, whose state is
local and whose only behaviour is that of the call they show.  In the modelled
programs: messages and formatting, command-line handling, refused arguments,
failures of `malloc` (but in the line readers) and of `pthread_create`.
