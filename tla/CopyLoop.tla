------------------------------- MODULE CopyLoop -------------------------------
(***************************************************************************)
(* The programs that copy a file: mycp_1.c (streams), mycp_2.c, mycp_3.c,  *)
(* mycp_4.c and mycp_SysIO.c (system calls) and mycat.c (to the standard   *)
(* output).  Reads and writes may be short, be interrupted or fail.  A call*)
(* that is interrupted and made again is a stuttering step.                *)
(***************************************************************************)
EXTENDS Integers, Sequences, SequencesExt

CONSTANTS
  BufLen,    \* BUFSIZE
  MaxLen     \* bound: the longest file

\* Whether a program opens the file it writes, makes interrupted calls again,
\* and writes to a stream: fwrite is then repeated until it has taken
\* everything, and what it has taken is in the file after fclose.
mycp_1     == [opens |-> TRUE,  retries |-> FALSE, stream |-> TRUE]
mycp_2     == [opens |-> TRUE,  retries |-> FALSE, stream |-> FALSE]
mycp_3     == [opens |-> TRUE,  retries |-> TRUE,  stream |-> FALSE]
mycp_4     == mycp_3    \* the buffer is allocated
mycp_SysIO == mycp_3
mycat      == [opens |-> FALSE, retries |-> TRUE,  stream |-> FALSE]

VARIABLES
  copier,    \* the program that runs
  length,    \* of the source; its bytes are the numbers from 1 on
  copyPC,    \* "open", "openDes", "read", "write", "exited"
  offset,    \* bytes read
  buf,       \* the bytes of the last read
  position,  \* how many of them are written
  out,       \* the bytes written
  status,    \* of exit
  failed     \* history: the kinds of call that have failed or been given up

copyVars == <<copier, length, copyPC, offset, buf, position, out, status, failed>>

Source == [k \in 1 .. length |-> k]

Init ==
  /\ copier \in {mycp_1, mycp_2, mycp_3, mycp_4, mycp_SysIO, mycat}
  /\ length \in 0 .. MaxLen
  /\ copyPC = "open"
  /\ offset = 0 /\ buf = << >> /\ position = 0 /\ out = << >>
  /\ status = 0 /\ failed = {}

Exit(s) == copyPC' = "exited" /\ status' = s

Open ==
  /\ copyPC = "open"
  /\ copyPC' = IF copier.opens THEN "openDes" ELSE "read"
  /\ UNCHANGED <<copier, length, offset, buf, position, out, status, failed>>

OpenDes ==
  /\ copyPC = "openDes"
  /\ copyPC' = "read"
  /\ UNCHANGED <<copier, length, offset, buf, position, out, status, failed>>

OpenFails ==
  /\ copyPC \in {"open", "openDes"}
  /\ Exit(1)
  /\ failed' = failed \cup {"open"}
  /\ UNCHANGED <<copier, length, offset, buf, position, out>>

\* read or fread: up to BufLen bytes.
Read ==
  /\ copyPC = "read"
  /\ \E k \in 1 .. BufLen :
       /\ offset + k <= length
       /\ offset' = offset + k
       /\ buf' = SubSeq(Source, offset + 1, offset + k)
  /\ position' = 0
  /\ copyPC' = "write"
  /\ UNCHANGED <<copier, length, out, status, failed>>

\* Mutant: write(fd, buf, readnum), without the position.
WriteFromStart ==
  /\ copyPC = "write" /\ position < Len(buf)
  /\ \E k \in 1 .. Len(buf) - position :
       /\ out' = out \o SubSeq(buf, 1, k)
       /\ position' = position + k
  /\ UNCHANGED <<copier, length, copyPC, offset, buf, status, failed>>

\* write or fwrite takes some of what is left.
Write ==
  /\ copyPC = "write" /\ position < Len(buf)
  /\ \E k \in 1 .. Len(buf) - position :
       /\ out' = out \o SubSeq(buf, position + 1, position + k)
       /\ position' = position + k
  /\ UNCHANGED <<copier, length, copyPC, offset, buf, status, failed>>

\* Nothing is left.
WriteDone ==
  /\ copyPC = "write" /\ position = Len(buf)
  /\ copyPC' = "read"
  /\ UNCHANGED <<copier, length, offset, buf, position, out, status, failed>>

\* write fails, or is interrupted in a program that does not try again; a
\* program with streams tries for ever.
WriteFails ==
  /\ copyPC = "write" /\ position < Len(buf)
  /\ ~copier.stream
  /\ Exit(1)
  /\ \E e \in {"write", "interrupted"} :
       /\ e = "interrupted" => ~copier.retries
       /\ failed' = failed \cup {e}
  /\ UNCHANGED <<copier, length, offset, buf, position, out>>

\* What ends the reading: the end of the file, a read that fails, or one that
\* is interrupted in a program that does not try again.
ReadingEnds ==
  \/ offset = length /\ failed' = failed
  \/ failed' = failed \cup {"read"}
  \/ ~copier.retries /\ failed' = failed \cup {"interrupted"}

\* The loop is left, the files are closed and the exit status is 0.
Finish ==
  /\ copyPC = "read"
  /\ ReadingEnds
  /\ Exit(0)
  /\ UNCHANGED <<copier, length, offset, buf, position, out>>

\* fclose cannot write what the stream still has; nobody looks at its result.
FinishLoses ==
  /\ copyPC = "read" /\ offset = length
  /\ copier.stream
  /\ \E k \in 0 .. Len(out) : out' = SubSeq(out, 1, k)
  /\ failed' = failed \cup {"close"}
  /\ Exit(0)
  /\ UNCHANGED <<copier, length, offset, buf, position>>

Next ==
  \/ Open \/ OpenDes \/ OpenFails
  \/ Read \/ Write \/ WriteDone \/ WriteFails
  \/ Finish \/ FinishLoses

-----------------------------------------------------------------------------
TypeOK ==
  /\ copier \in {mycp_1, mycp_2, mycp_3, mycp_4, mycp_SysIO, mycat}
  /\ length \in 0 .. MaxLen /\ offset \in 0 .. length
  /\ copyPC \in {"open", "openDes", "read", "write", "exited"}
  /\ buf \in Seq(1 .. length)
  /\ position \in 0 .. Len(buf)
  /\ out \in Seq(1 .. length)
  /\ status \in {0, 1}
  /\ failed \subseteq {"open", "read", "write", "close", "interrupted"}

\* However short the reads and writes are, what has been written is the
\* beginning of the source, each byte once and in its place, and a program that
\* exits with status 0 has written all of it unless a read or the last fclose
\* did not succeed.
CopyFaithful ==
  /\ IsPrefix(out, Source)
  /\ copyPC = "exited" /\ status = 0 /\ failed = {} => out = Source
=============================================================================
