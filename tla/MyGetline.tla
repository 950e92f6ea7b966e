------------------------------ MODULE MyGetline ------------------------------
(***************************************************************************)
(* Reading lines of any length into a buffer that grows: the main of       *)
(* getline_1.c, and mygetline of getline_3.c, getline_4.c and getline_5.c  *)
(* with the mains that call it until it returns -1 (chapter 25).  All let  *)
(* fgets fill what is left of the buffer, look for the end of the line in  *)
(* it, and double the buffer when there is none.                           *)
(*                                                                         *)
(* A character of the file is its position, from 1 on, so that no two are  *)
(* alike; some of them are newlines.                                       *)
(***************************************************************************)
EXTENDS Integers

CONSTANTS
  BLOCKSIZE,  \* the first allocation (4; BEGINSIZE in two of the programs)
  LINESIZE,   \* linesize as the mains set it (10)
  MaxFile     \* bound: the longest file

ASSUME LineAssumption ==
  /\ BLOCKSIZE \in Nat /\ BLOCKSIZE >= 2
  /\ LINESIZE \in Nat /\ LINESIZE >= 2
  /\ MaxFile \in Nat

\* What linebuf is at first; whether the main goes on to the next line; whether
\* a buffer that is too small is given up, and the line read again.
getline_1 == [first |-> "null",  loops |-> FALSE, rereads |-> FALSE]
getline_3 == [first |-> "stack", loops |-> TRUE,  rereads |-> FALSE]
getline_4 == [first |-> "stack", loops |-> TRUE,  rereads |-> TRUE]
getline_5 == [first |-> "heap",  loops |-> TRUE,  rereads |-> FALSE]

NUL == 0
Junk == -1   \* in memory that has just been allocated

VARIABLES
  reader,     \* the program that runs
  size,       \* characters in the file
  newlines,   \* which of them are newlines
  fpos,       \* characters read so far, moved back by fseek
  p,          \* linebuf: "null", "stack" or "heap"
  linebuf,    \* the memory it points to, from index 0 on
  capacity,   \* its size
  bufsize,    \* what the program takes it for
  begin, end, \* fgets may write from begin to end - 1
  trying,     \* getline_4 reads into the buffer of its caller
  start,   \* fpos when the call began
  ii,         \* where the end of the line was found
  given,      \* what the call returned
  linePC,
  noMemory    \* history: an allocation has failed

fileVars == <<reader, size, newlines>>
bufVars == <<p, linebuf, capacity, bufsize>>
lineVars == <<fileVars, fpos, bufVars, begin, end, trying, start, ii, given,
              linePC, noMemory>>

\* Memory of n bytes that starts with what memory f of k bytes holds.
Memory(f, k, n) == [j \in 0 .. n - 1 |-> IF j < k THEN f[j] ELSE Junk]
Fresh(n) == [j \in 0 .. n - 1 |-> Junk]

\* The main up to its loop.  getline_5 does not test what malloc returns.
LineInit ==
  /\ reader \in {getline_1, getline_3, getline_4, getline_5}
  /\ size \in 0 .. MaxFile /\ newlines \in SUBSET (1 .. size)
  /\ fpos = 0
  /\ \/ p = reader.first /\ noMemory = FALSE
     \/ reader = getline_5 /\ p = "null" /\ noMemory = TRUE
  /\ capacity = IF p = "null" THEN 0 ELSE LINESIZE
  /\ linebuf = Fresh(capacity)
  /\ bufsize = IF reader = getline_1 THEN 0 ELSE LINESIZE
  /\ begin = 0 /\ end = 0 /\ trying = FALSE /\ start = 0
  /\ ii = 0 /\ given = 0
  /\ linePC = "call"

-----------------------------------------------------------------------------
\* The beginning of mygetline, when it is given a buffer.
Enter ==
  /\ linePC = "call" /\ p # "null"
  /\ begin' = 0 /\ end' = bufsize
  /\ trying' = reader.rereads
  /\ start' = fpos
  /\ linePC' = "fgets"
  /\ UNCHANGED <<fileVars, fpos, bufVars, ii, given, noMemory>>

\* The same when it is given none; or the first round of getline_1.
EnterNull ==
  /\ linePC = "call" /\ p = "null"
  /\ begin' = 0 /\ end' = BLOCKSIZE
  /\ p' = "heap" /\ capacity' = BLOCKSIZE /\ linebuf' = Fresh(BLOCKSIZE)
  /\ start' = fpos
  /\ linePC' = "fgets"
  /\ UNCHANGED <<fileVars, fpos, bufsize, trying, ii, given, noMemory>>

\* mygetline returns -1 and the main leaves its loop; or exits.
GiveUp == linePC' = "exited" /\ UNCHANGED <<fileVars, fpos, begin, end, trying,
                                            start, ii, given>>

EnterNoMemory ==
  /\ linePC = "call" /\ p = "null"
  /\ GiveUp
  /\ noMemory' = TRUE
  /\ UNCHANGED bufVars

-----------------------------------------------------------------------------
\* What fgets may take into room bytes, the last of which is for the NUL:
\* nothing beyond the end of the file or of a line.
Chunks(room) ==
  {m \in 0 .. room - 1 :
     fpos + m <= size /\ \A c \in fpos + 1 .. fpos + m - 1 : c \notin newlines}

\* memset, then m characters.
Fill(m) ==
  [k \in 0 .. capacity - 1 |->
     IF k < begin \/ k >= end THEN linebuf[k]
     ELSE IF k < begin + m THEN fpos + 1 + (k - begin) ELSE NUL]

\* memset and fgets, which takes as much as it may.
Fgets ==
  /\ linePC = "fgets" /\ end <= capacity
  /\ \E m \in Chunks(end - begin) :
       /\ \A k \in Chunks(end - begin) : k <= m
       /\ m > 0
       /\ linebuf' = Fill(m)
       /\ fpos' = fpos + m
  /\ linePC' = "scan"
  /\ UNCHANGED <<fileVars, p, capacity, bufsize, begin, end, trying, start,
                 ii, given, noMemory>>

AtEOF == linePC = "fgets" /\ end <= capacity /\ fpos = size

\* fgets returns NULL and leaves the buffer alone: mygetline returns -1.
FgetsNull ==
  /\ AtEOF /\ reader.loops
  /\ linebuf' = Fill(0)
  /\ GiveUp
  /\ UNCHANGED <<p, capacity, bufsize, noMemory>>

\* getline_1 does not look at what fgets returns.
FgetsNothing ==
  /\ AtEOF /\ ~reader.loops
  /\ linebuf' = Fill(0)
  /\ linePC' = "scan"
  /\ UNCHANGED <<fileVars, fpos, p, capacity, bufsize, begin, end, trying,
                 start, ii, given, noMemory>>

\* memset runs over the end of the memory.
Overrun ==
  /\ linePC = "fgets" /\ end > capacity
  /\ linePC' = "overrun"
  /\ UNCHANGED <<fileVars, fpos, bufVars, begin, end, trying, start, ii,
                 given, noMemory>>

-----------------------------------------------------------------------------
\* Where a line may end: at a newline or where the file has.
Ends == {k \in begin .. end - 2 : linebuf[k] \in newlines \cup {NUL}}

\* The end of the line is in the buffer.  mygetline raises bufsize if it has
\* left the caller's buffer, and counts the newline.
Return ==
  /\ linePC = "scan"
  /\ reader.loops
  /\ \E k \in Ends :
       /\ \A l \in Ends : k <= l
       /\ ii' = k
       /\ given' = IF linebuf[k] = NUL THEN k ELSE k + 1
  /\ bufsize' = IF ~trying /\ bufsize < end THEN end ELSE bufsize
  /\ linePC' = "got"
  /\ UNCHANGED <<fileVars, fpos, p, linebuf, capacity, begin, end, trying,
                 start, noMemory>>

\* getline_1 cuts the newline off.
ReturnCut ==
  /\ linePC = "scan"
  /\ ~reader.loops
  /\ \E k \in Ends :
       /\ \A l \in Ends : k <= l
       /\ ii' = k /\ given' = k
       /\ linebuf' = [linebuf EXCEPT ![k] = NUL]
  /\ linePC' = "got"
  /\ UNCHANGED <<fileVars, fpos, p, capacity, bufsize, begin, end, trying,
                 start, noMemory>>

\* The main prints the line.
Again ==
  /\ linePC = "got"
  /\ linePC' = IF reader.loops THEN "call" ELSE "exited"
  /\ UNCHANGED <<fileVars, fpos, bufVars, begin, end, trying, start, ii,
                 given, noMemory>>

TooSmall == linePC = "scan" /\ Ends = {}

\* Mutant: the next round starts behind the NUL.
GrowKeepsBegin ==
  /\ TooSmall /\ ~trying /\ p = "heap"
  /\ capacity' = 2 * end /\ linebuf' = Memory(linebuf, end, 2 * end)
  /\ begin' = end /\ end' = 2 * end
  /\ linePC' = "fgets"
  /\ UNCHANGED <<fileVars, fpos, p, bufsize, trying, start, ii, given,
                 noMemory>>

\* The buffer is doubled; the next round starts at the NUL of this one.
Grow ==
  /\ TooSmall /\ ~trying /\ p = "heap"
  /\ capacity' = 2 * end /\ linebuf' = Memory(linebuf, end, 2 * end)
  /\ begin' = end - 1 /\ end' = 2 * end
  /\ linePC' = "fgets"
  /\ UNCHANGED <<fileVars, fpos, p, bufsize, trying, start, ii, given,
                 noMemory>>

\* Mutant: malloc(*bufsize), before the size is doubled.
RestartSmall ==
  /\ TooSmall /\ trying
  /\ p' = "heap"
  /\ capacity' = bufsize /\ linebuf' = Fresh(bufsize)
  /\ end' = 2 * bufsize
  /\ fpos' = start
  /\ trying' = FALSE
  /\ linePC' = "fgets"
  /\ UNCHANGED <<fileVars, bufsize, begin, start, ii, given, noMemory>>

\* getline_4 leaves the caller's buffer and reads the line again.
Restart ==
  /\ TooSmall /\ trying
  /\ p' = "heap"
  /\ capacity' = 2 * bufsize /\ linebuf' = Fresh(2 * bufsize)
  /\ end' = 2 * bufsize
  /\ fpos' = start
  /\ trying' = FALSE
  /\ linePC' = "fgets"
  /\ UNCHANGED <<fileVars, bufsize, begin, start, ii, given, noMemory>>

\* malloc or realloc returns NULL, which is stored in *p.
GrowNoMemory ==
  /\ TooSmall /\ (trying \/ p = "heap")
  /\ p' = "null" /\ noMemory' = TRUE
  /\ GiveUp
  /\ UNCHANGED <<linebuf, capacity, bufsize>>

\* realloc of an array that malloc has not returned: the C library aborts.
GrowAborts ==
  /\ TooSmall /\ ~trying /\ p = "stack"
  /\ linePC' = "aborted"
  /\ UNCHANGED <<fileVars, fpos, bufVars, begin, end, trying, start, ii,
                 given, noMemory>>

LineNext ==
  \/ Enter \/ EnterNull \/ EnterNoMemory
  \/ Fgets \/ FgetsNull \/ FgetsNothing \/ Overrun
  \/ Return \/ ReturnCut \/ Again
  \/ Grow \/ Restart \/ GrowNoMemory \/ GrowAborts

LineSpec == LineInit /\ [][LineNext]_lineVars

-----------------------------------------------------------------------------
LineTypeOK ==
  /\ reader \in {getline_1, getline_3, getline_4, getline_5}
  /\ size \in 0 .. MaxFile /\ newlines \subseteq 1 .. size
  /\ fpos \in 0 .. size /\ start \in 0 .. size
  /\ p \in {"null", "stack", "heap"}
  /\ capacity \in Nat /\ bufsize \in Nat
  /\ linebuf \in [0 .. capacity - 1 -> Junk .. size]
  /\ begin \in Nat /\ end \in Nat
  /\ trying \in BOOLEAN /\ noMemory \in BOOLEAN
  /\ ii \in Nat /\ given \in Nat
  /\ linePC \in {"call", "fgets", "scan", "got", "exited", "aborted", "overrun"}

\* What a call returns is the next line of the file, whole: its characters, each
\* once and in its place however often the buffer was doubled or the line read
\* again, up to the first newline or the end of the file, and then a NUL.
LineIntact ==
  linePC = "got" =>
    /\ \A k \in 0 .. given - 1 : linebuf[k] = start + 1 + k
    /\ linebuf[given] = NUL
    /\ \A k \in 1 .. given - 1 : start + k \notin newlines
    /\ fpos = start + given \/ (~reader.loops /\ fpos = start + given + 1)
    /\ fpos = size \/ fpos \in newlines

\* bufsize is never more than there is memory: no call of memset or fgets runs
\* over its end, unless the first malloc of getline_5 has failed, and no array
\* is passed to realloc but that of getline_3.
WithinMemory ==
  /\ linePC = "overrun" => noMemory /\ reader = getline_5
  /\ linePC = "aborted" => reader = getline_3

\* The claim of "用来存储从文件中读取一行数据", line after line: a main that has
\* met the end of the file has had all of it.
WholeFileRead ==
  linePC = "exited" /\ reader.loops /\ ~noMemory => fpos = size /\ start = size
=============================================================================
