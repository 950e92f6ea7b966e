--------------------------- MODULE MyGetlineProofs ---------------------------
(***************************************************************************)
(* Proofs about MyGetline, for buffers and files of any size.              *)
(***************************************************************************)
EXTENDS MyGetline, TLAPS

\* The one program that goes on after a malloc has failed.
Deceived == noMemory /\ reader = getline_5

\* What bufsize says of the memory between two calls.
Sized ==
  /\ linePC = "call" =>
       /\ p = "null" => ~trying /\ ((reader = getline_1 /\ bufsize = 0) \/ Deceived)
       /\ p # "null" => reader.loops
  /\ linePC = "got" => p # "null"
  /\ linePC \in {"call", "got"} /\ p # "null" =>
       /\ reader.loops => bufsize >= 2
       /\ bufsize <= capacity \/ Deceived
  /\ linePC # "exited" /\ p = "stack" => reader \in {getline_3, getline_4}

\* What holds in each round of a call: where fgets may write, and what the rounds
\* before have read.
Round ==
  linePC \in {"fgets", "scan"} =>
    /\ p # "null"
    /\ begin + 2 <= end
    /\ end <= capacity \/ (Deceived /\ linePC = "fgets")
    /\ bufsize <= end \/ Deceived
    /\ trying => reader.rereads /\ begin = 0 /\ end = bufsize
    /\ p = "stack" => trying = reader.rereads
    /\ \A k \in 0 .. begin - 1 : linebuf[k] = start + 1 + k
    /\ \A c \in start + 1 .. start + begin : c \notin newlines
    /\ start + begin <= fpos
    /\ linePC = "fgets" => fpos = start + begin

\* What fgets has left behind: characters, then NULs; and why it has stopped.
Scanned ==
  linePC = "scan" =>
    /\ fpos <= start + end - 1
    /\ \A k \in begin .. fpos - start - 1 : linebuf[k] = start + 1 + k
    /\ \A k \in fpos - start .. end - 1 : linebuf[k] = NUL
    /\ \A c \in start + 1 .. fpos - 1 : c \notin newlines
    /\ fpos = start + end - 1 \/ fpos = size \/ fpos \in newlines
    /\ fpos = start + begin => fpos = size

LineInv ==
  LineTypeOK /\ Sized /\ Round /\ Scanned /\ LineIntact /\ WithinMemory

-----------------------------------------------------------------------------
\* The four programs, by what the actions ask of them.
LEMMA Readers ==
  /\ getline_1.first = "null" /\ ~getline_1.loops /\ ~getline_1.rereads
  /\ getline_3.first = "stack" /\ getline_3.loops /\ ~getline_3.rereads
  /\ getline_4.first = "stack" /\ getline_4.loops /\ getline_4.rereads
  /\ getline_5.first = "heap" /\ getline_5.loops /\ ~getline_5.rereads
BY DEF getline_1, getline_3, getline_4, getline_5

\* No two of them are the same.
LEMMA ReadersDiffer ==
  /\ getline_1 # getline_3 /\ getline_1 # getline_4 /\ getline_1 # getline_5
  /\ getline_3 # getline_4 /\ getline_3 # getline_5 /\ getline_4 # getline_5
BY Readers

\* What the reader has of them is a Boolean.
LEMMA ReaderFlags ==
  ASSUME NEW r \in {getline_1, getline_3, getline_4, getline_5}
  PROVE  r.loops \in BOOLEAN /\ r.rereads \in BOOLEAN
<1>1. CASE r = getline_1
  BY <1>1 DEF getline_1
<1>2. CASE r = getline_3
  BY <1>2 DEF getline_3
<1>3. CASE r = getline_4
  BY <1>3 DEF getline_4
<1>4. CASE r = getline_5
  BY <1>4 DEF getline_5
<1>. QED
  BY <1>1, <1>2, <1>3, <1>4

LEMMA FreshType ==
  ASSUME size \in Nat, NEW n \in Nat
  PROVE  Fresh(n) \in [0 .. n - 1 -> Junk .. size]
BY DEF Fresh, Junk

\* The initial states.
LEMMA LineInitially == LineInit => LineInv
<1>. SUFFICES ASSUME LineInit
              PROVE  LineInv
  OBVIOUS
<1>1. reader \in {getline_1, getline_3, getline_4, getline_5}
  BY DEF LineInit
<1>. USE LineAssumption, Readers, ReadersDiffer, <1>1
<1>2. p \in {"null", "stack", "heap"} /\ capacity \in Nat
  BY DEF LineInit
<1>3. LineTypeOK
  <2>1. size \in 0 .. MaxFile /\ size \in Nat
    BY DEF LineInit
  <2>2. linebuf \in [0 .. capacity - 1 -> Junk .. size]
    <3>1. Fresh(capacity) \in [0 .. capacity - 1 -> Junk .. size]
      BY <1>2, <2>1, FreshType
    <3>. QED
      BY <3>1 DEF LineInit
  <2>3. trying \in BOOLEAN /\ noMemory \in BOOLEAN
    BY DEF LineInit
  <2>4. newlines \subseteq 1 .. size /\ fpos \in 0 .. size /\ start \in 0 .. size
    BY <2>1 DEF LineInit
  <2>5. bufsize \in Nat /\ begin \in Nat /\ end \in Nat /\ ii \in Nat /\ given \in Nat
    BY DEF LineInit
  <2>6. linePC \in {"call", "fgets", "scan", "got", "exited", "aborted", "overrun"}
    BY DEF LineInit
  <2>. QED
    BY <1>2, <2>1, <2>2, <2>3, <2>4, <2>5, <2>6 DEF LineTypeOK
<1>4. Sized
  BY <1>2 DEF LineInit, Sized, Deceived
<1>5. Round /\ Scanned /\ LineIntact /\ WithinMemory
  BY DEF LineInit, Round, Scanned, LineIntact, WithinMemory
<1>. QED
  BY <1>3, <1>4, <1>5 DEF LineInv

-----------------------------------------------------------------------------
\* A call begins.
LEMMA EnterKeepsInv ==
  ASSUME LineInv, Enter \/ EnterNull
  PROVE  LineInv'
<1>. USE LineAssumption, Readers, ReadersDiffer DEF LineInv, fileVars, bufVars
<1>1. LineTypeOK'
  <2>1. CASE Enter
    <3>1. reader.rereads \in BOOLEAN
      BY ReaderFlags DEF LineTypeOK
    <3>2. trying' \in BOOLEAN
      BY <2>1, <3>1 DEF Enter
    <3>. QED
      BY <2>1, <3>2 DEF Enter, LineTypeOK
  <2>2. CASE EnterNull
    <3>1. size \in Nat
      BY DEF LineTypeOK
    <3>2. Fresh(BLOCKSIZE) \in [0 .. BLOCKSIZE - 1 -> Junk .. size]
      BY <3>1, FreshType
    <3>3. linebuf' \in [0 .. capacity' - 1 -> Junk .. size']
      BY <2>2, <3>2 DEF EnterNull
    <3>4. start' \in 0 .. size' /\ begin' \in Nat /\ end' \in Nat /\ capacity' \in Nat
      BY <2>2 DEF EnterNull, LineTypeOK
    <3>5. trying' \in BOOLEAN /\ noMemory' \in BOOLEAN
      BY <2>2 DEF EnterNull, LineTypeOK
    <3>6. p' \in {"null", "stack", "heap"} /\ linePC' = "fgets"
      BY <2>2 DEF EnterNull
    <3>7. /\ reader' = reader /\ size' = size /\ newlines' = newlines
          /\ fpos' = fpos /\ bufsize' = bufsize /\ ii' = ii /\ given' = given
      BY <2>2 DEF EnterNull
    <3>. QED
      BY <3>3, <3>4, <3>5, <3>6, <3>7 DEF LineTypeOK
  <2>. QED
    BY <2>1, <2>2
<1>2. Sized'
  BY DEF Enter, EnterNull, Sized, Deceived, LineTypeOK
<1>3. Round'
  <2>1. CASE Enter
    BY <2>1 DEF Enter, Round, Sized, Deceived, LineTypeOK
  <2>2. CASE EnterNull
    BY <2>2 DEF EnterNull, Round, Sized, Deceived, LineTypeOK
  <2>. QED
    BY <2>1, <2>2
<1>4. (Scanned /\ LineIntact /\ WithinMemory)'
  BY DEF Enter, EnterNull, Scanned, LineIntact, WithinMemory
<1>. QED
  BY <1>1, <1>2, <1>3, <1>4

\* A line is printed, or the program ends.
LEMMA EndKeepsInv ==
  ASSUME LineInv,
         Again \/ EnterNoMemory \/ Overrun \/ GrowNoMemory \/ GrowAborts
  PROVE  LineInv'
<1>. USE LineAssumption, Readers, ReadersDiffer DEF LineInv, fileVars, bufVars
<1>1. LineTypeOK'
  <2>1. CASE Again
    BY <2>1 DEF Again, LineTypeOK
  <2>2. CASE EnterNoMemory
    BY <2>2 DEF EnterNoMemory, GiveUp, LineTypeOK
  <2>3. CASE Overrun
    BY <2>3 DEF Overrun, LineTypeOK
  <2>4. CASE GrowNoMemory
    BY <2>4 DEF GrowNoMemory, GiveUp, LineTypeOK
  <2>5. CASE GrowAborts
    BY <2>5 DEF GrowAborts, LineTypeOK
  <2>. QED
    BY <2>1, <2>2, <2>3, <2>4, <2>5
<1>2. linePC' \in {"call", "exited", "overrun", "aborted"}
  BY DEF Again, EnterNoMemory, Overrun, GrowNoMemory, GrowAborts, GiveUp
<1>3. Round' /\ Scanned' /\ LineIntact'
  BY <1>2 DEF Round, Scanned, LineIntact
<1>4. Sized'
  <2>1. CASE Again
    BY <2>1 DEF Again, Sized, Deceived, LineTypeOK
  <2>2. CASE ~Again
    <3>1. linePC' \in {"exited", "overrun", "aborted"}
      BY <2>2 DEF EnterNoMemory, Overrun, GrowNoMemory, GrowAborts, GiveUp
    <3>2. linePC' # "exited" => UNCHANGED <<reader, p>> /\ linePC \in {"fgets", "scan"}
      BY <2>2 DEF EnterNoMemory, Overrun, GrowNoMemory, GrowAborts, GiveUp, TooSmall
    <3>. QED
      BY <3>1, <3>2 DEF Sized
  <2>. QED
    BY <2>1, <2>2
<1>5. WithinMemory'
  <2>1. CASE Overrun
    <3>1. Deceived
      BY <2>1 DEF Overrun, Round, LineTypeOK
    <3>2. reader' = reader /\ noMemory' = noMemory /\ linePC' = "overrun"
      BY <2>1 DEF Overrun
    <3>. QED
      BY <3>1, <3>2 DEF Deceived, WithinMemory
  <2>2. CASE GrowAborts
    <3>1. reader \in {getline_3, getline_4} /\ ~reader.rereads
      BY <2>2 DEF GrowAborts, TooSmall, Round, Sized
    <3>. QED
      BY <2>2, <3>1 DEF GrowAborts, WithinMemory
  <2>3. CASE ~Overrun /\ ~GrowAborts
    BY <2>3 DEF Again, EnterNoMemory, GrowNoMemory, GiveUp, WithinMemory
  <2>. QED
    BY <2>1, <2>2, <2>3
<1>. QED
  BY <1>1, <1>3, <1>4, <1>5

-----------------------------------------------------------------------------
\* fgets.
LEMMA FillType ==
  ASSUME LineTypeOK, NEW m \in Nat, fpos + m <= size
  PROVE  Fill(m) \in [0 .. capacity - 1 -> Junk .. size]
BY DEF Fill, LineTypeOK, Junk, NUL

LEMMA FgetsKeepsInv ==
  ASSUME LineInv, Fgets
  PROVE  LineInv'
<1>. USE LineAssumption, Readers, ReadersDiffer DEF LineInv, fileVars, bufVars
<1>1. PICK m \in Chunks(end - begin) :
        /\ \A k \in Chunks(end - begin) : k <= m
        /\ m > 0
        /\ linebuf' = Fill(m)
        /\ fpos' = fpos + m
  BY DEF Fgets
<1>2. /\ m \in Nat /\ m <= end - begin - 1 /\ fpos + m <= size
      /\ \A c \in fpos + 1 .. fpos + m - 1 : c \notin newlines
  BY <1>1 DEF Chunks, LineTypeOK, Round, Fgets
<1>3. /\ linePC = "fgets" /\ linePC' = "scan" /\ end <= capacity
      /\ UNCHANGED <<reader, size, newlines, p, capacity, bufsize, begin, end,
                     trying, start, ii, given, noMemory>>
  BY DEF Fgets
<1>4. LineTypeOK'
  <2>1. linebuf' \in [0 .. capacity - 1 -> Junk .. size]
    BY <1>1, <1>2, FillType
  <2>2. fpos' \in 0 .. size
    BY <1>1, <1>2 DEF LineTypeOK
  <2>. QED
    BY <1>3, <2>1, <2>2 DEF LineTypeOK
<1>5. /\ fpos = start + begin /\ begin + 2 <= end
      /\ \A k \in 0 .. begin - 1 : linebuf'[k] = start + 1 + k
      /\ \A k \in begin .. begin + m - 1 : linebuf'[k] = start + 1 + k
      /\ \A k \in begin + m .. end - 1 : linebuf'[k] = NUL
  BY <1>1, <1>2, <1>3 DEF Fill, Round, LineTypeOK
<1>6. Round'
  BY <1>1, <1>2, <1>3, <1>5 DEF Round, LineTypeOK, Deceived
<1>7. Scanned'
  <2>1. fpos' = start + end - 1 \/ fpos' = size \/ fpos' \in newlines
    <3>1. SUFFICES ASSUME fpos + m < size, m < end - begin - 1,
                          fpos + m \notin newlines
                   PROVE  FALSE
      BY <1>1, <1>2, <1>5 DEF LineTypeOK
    <3>2. m + 1 \in Chunks(end - begin)
      BY <1>2, <3>1 DEF Chunks, LineTypeOK
    <3>. QED
      BY <1>1, <1>2, <3>2
  <2>2. \A c \in start + 1 .. fpos' - 1 : c \notin newlines
    BY <1>1, <1>2, <1>3, <1>5 DEF Round, LineTypeOK
  <2>3. fpos' <= start + end - 1 /\ fpos' - start = begin + m
    BY <1>1, <1>2, <1>5 DEF LineTypeOK
  <2>. QED
    BY <1>1, <1>2, <1>3, <1>5, <2>1, <2>2, <2>3 DEF Scanned, LineTypeOK
<1>8. Sized' /\ LineIntact' /\ WithinMemory'
  BY <1>3 DEF Sized, LineIntact, WithinMemory, Deceived
<1>. QED
  BY <1>4, <1>6, <1>7, <1>8

\* The end of the file.
LEMMA EOFKeepsInv ==
  ASSUME LineInv, FgetsNull \/ FgetsNothing
  PROVE  LineInv'
<1>. USE LineAssumption, Readers, ReadersDiffer DEF LineInv, fileVars, bufVars
<1>1. /\ linePC = "fgets" /\ end <= capacity /\ fpos = size
      /\ linebuf' = Fill(0) /\ linePC' \in {"exited", "scan"}
      /\ UNCHANGED <<reader, size, newlines, fpos, p, capacity, bufsize, begin,
                     end, trying, start, ii, given, noMemory>>
  BY DEF FgetsNull, FgetsNothing, AtEOF, GiveUp
<1>2. LineTypeOK'
  <2>1. linebuf' \in [0 .. capacity - 1 -> Junk .. size]
    BY <1>1, FillType DEF LineTypeOK
  <2>. QED
    BY <1>1, <2>1 DEF LineTypeOK
<1>3. /\ fpos = start + begin /\ begin + 2 <= end
      /\ \A k \in 0 .. begin - 1 : linebuf'[k] = start + 1 + k
      /\ \A k \in begin .. end - 1 : linebuf'[k] = NUL
  BY <1>1 DEF Fill, Round, LineTypeOK
<1>4. Round'
  BY <1>1, <1>3 DEF Round, LineTypeOK, Deceived
<1>5. Scanned'
  BY <1>1, <1>3 DEF Scanned, Round, LineTypeOK
<1>6. Sized' /\ LineIntact' /\ WithinMemory'
  BY <1>1 DEF Sized, LineIntact, WithinMemory, Deceived
<1>. QED
  BY <1>2, <1>4, <1>5, <1>6

-----------------------------------------------------------------------------
LEMMA Shorter ==
  ASSUME NEW m \in Nat, NEW n \in Nat, m - 1 <= n
  PROVE  0 .. m - 1 \subseteq 0 .. n /\ 1 .. m - 1 \subseteq 1 .. n
OBVIOUS

\* The end of the line.
LEMMA ReturnKeepsInv ==
  ASSUME LineInv, Return \/ ReturnCut
  PROVE  LineInv'
<1>. USE LineAssumption, Readers, ReadersDiffer DEF LineInv, fileVars, bufVars
<1>1. /\ linePC = "scan" /\ linePC' = "got"
      /\ UNCHANGED <<reader, size, newlines, fpos, p, capacity, begin, end,
                     trying, start, noMemory>>
  BY DEF Return, ReturnCut
<1>2. PICK k \in Ends :
        /\ \A l \in Ends : k <= l
        /\ ii' = k
        /\ \/ /\ reader.loops /\ linebuf' = linebuf
              /\ given' = IF linebuf[k] = NUL THEN k ELSE k + 1
              /\ bufsize' = IF ~trying /\ bufsize < end THEN end ELSE bufsize
           \/ /\ ~reader.loops /\ linebuf' = [linebuf EXCEPT ![k] = NUL]
              /\ given' = k /\ bufsize' = bufsize
  BY DEF Return, ReturnCut
<1>3. k \in Nat /\ k >= begin /\ k <= end - 2 /\ linebuf[k] \in newlines \cup {NUL}
  BY <1>2 DEF Ends, LineTypeOK
<1>4. \A l \in begin .. k - 1 : linebuf[l] \notin newlines \cup {NUL}
  BY <1>2, <1>3 DEF Ends, LineTypeOK
<1>5. /\ begin + 2 <= end /\ end <= capacity
      /\ bufsize <= end \/ Deceived
      /\ p # "null"
  BY <1>1 DEF Round
<1>6. LineTypeOK'
  <2>1. linebuf' \in [0 .. capacity - 1 -> Junk .. size]
    BY <1>2 DEF LineTypeOK, NUL, Junk
  <2>2. ii' \in Nat /\ given' \in Nat /\ bufsize' \in Nat
    BY <1>2, <1>3 DEF LineTypeOK
  <2>. QED
    BY <1>1, <2>1, <2>2 DEF LineTypeOK
<1>7. Sized'
  <2>1. reader.loops => bufsize' >= 2
    BY <1>1, <1>2, <1>5 DEF Round, LineTypeOK
  <2>2. bufsize' <= capacity \/ Deceived
    BY <1>2, <1>5 DEF LineTypeOK
  <2>. QED
    BY <1>1, <1>5, <2>1, <2>2 DEF Sized, Deceived
<1>8. ASSUME linebuf[k] = NUL
      PROVE  LineIntact'
  <2>1. \A l \in 0 .. k - 1 : linebuf[l] = start + 1 + l
    BY <1>1, <1>3, <1>4, <1>8 DEF Round, Scanned, LineTypeOK, NUL
  <2>2. fpos = start + k
    BY <1>1, <1>3, <1>4, <1>8 DEF Round, Scanned, LineTypeOK, NUL
  <2>3. /\ given' = k /\ linebuf'[k] = NUL
        /\ \A l \in 0 .. k - 1 : linebuf'[l] = linebuf[l]
    BY <1>2, <1>3, <1>5, <1>8 DEF LineTypeOK
  <2>4. fpos = size \/ fpos \in newlines
    BY <1>1, <1>3, <2>2 DEF Scanned, LineTypeOK
  <2>5. \A c \in start + 1 .. fpos - 1 : c \notin newlines
    BY <1>1 DEF Scanned
  <2>6. ASSUME NEW l \in 1 .. k - 1
        PROVE  start + l \notin newlines
    <3>1. start + l \in start + 1 .. fpos - 1
      BY <1>3, <2>2 DEF LineTypeOK
    <3>. QED
      BY <2>5, <3>1
  <2>7. ASSUME NEW l \in 0 .. k - 1
        PROVE  linebuf'[l] = start + 1 + l
    BY <2>1, <2>3
  <2>. QED
    BY <1>1, <2>2, <2>3, <2>4, <2>6, <2>7 DEF LineIntact
<1>9. ASSUME linebuf[k] \in newlines
      PROVE  LineIntact'
  <2>1. linebuf[k] # NUL /\ k < fpos - start
    BY <1>1, <1>3, <1>5, <1>9 DEF Scanned, LineTypeOK, NUL
  <2>2. \A l \in 0 .. k : linebuf[l] = start + 1 + l
    BY <1>1, <1>3, <2>1 DEF Round, Scanned, LineTypeOK
  <2>3. fpos = start + k + 1
    <3>1. linebuf[k] = start + 1 + k
      BY <1>3, <2>2
    <3>2. start + 1 + k \notin start + 1 .. fpos - 1
      BY <1>1, <1>9, <3>1 DEF Scanned
    <3>. QED
      BY <1>3, <2>1, <3>2 DEF LineTypeOK
  <2>4. linebuf[k + 1] = NUL
    BY <1>1, <1>3, <2>3 DEF Scanned, LineTypeOK
  <2>5. /\ given' \in {k, k + 1} /\ linebuf'[given'] = NUL
        /\ reader.loops => given' = k + 1
        /\ \A l \in 0 .. given' - 1 : linebuf'[l] = linebuf[l]
    BY <1>2, <1>3, <1>5, <2>1, <2>4 DEF LineTypeOK
  <2>6. \A c \in start + 1 .. fpos - 1 : c \notin newlines
    BY <1>1 DEF Scanned
  <2>7. ASSUME NEW l \in 1 .. k
        PROVE  start + l \notin newlines
    <3>1. start + l \in start + 1 .. fpos - 1
      BY <1>3, <2>3 DEF LineTypeOK
    <3>. QED
      BY <2>6, <3>1
  <2>8. fpos \in newlines
    BY <1>3, <1>9, <2>2, <2>3 DEF LineTypeOK
  <2>9. given' = k + 1 \/ (given' = k /\ ~reader.loops)
    BY <2>5
  <2>10. /\ given' = k + 1 => fpos = start + given'
         /\ given' = k => fpos = start + given' + 1
    BY <1>3, <2>3 DEF LineTypeOK
  <2>11. given' \in Nat /\ given' - 1 <= k
    BY <1>3, <2>9
  <2>12. 0 .. given' - 1 \subseteq 0 .. k /\ 1 .. given' - 1 \subseteq 1 .. k
    BY <1>3, <2>11, Shorter
  <2>. QED
    BY <1>1, <2>2, <2>5, <2>7, <2>8, <2>9, <2>10, <2>12 DEF LineIntact
<1>10. Round' /\ Scanned' /\ WithinMemory'
  BY <1>1 DEF Round, Scanned, WithinMemory
<1>. QED
  BY <1>3, <1>6, <1>7, <1>8, <1>9, <1>10

-----------------------------------------------------------------------------
\* A buffer that holds no end of the line is full of characters of the line.
LEMMA FullBuffer ==
  ASSUME LineInv, TooSmall
  PROVE  /\ fpos = start + end - 1
         /\ \A k \in 0 .. end - 2 : linebuf[k] = start + 1 + k
         /\ \A c \in start + 1 .. fpos : c \notin newlines
<1>. USE LineAssumption DEF LineInv
<1>1. linePC = "scan" /\ \A k \in begin .. end - 2 : linebuf[k] \notin newlines \cup {NUL}
  BY DEF TooSmall, Ends
<1>2. fpos = start + end - 1
  <2>1. SUFFICES ASSUME fpos < start + end - 1
                 PROVE  FALSE
    BY <1>1 DEF Scanned, Round, LineTypeOK
  <2>2. /\ fpos - start \in begin .. end - 2
        /\ linebuf[fpos - start] = NUL
    BY <1>1, <2>1 DEF Scanned, Round, LineTypeOK
  <2>. QED
    BY <1>1, <2>2
<1>3. \A k \in 0 .. end - 2 : linebuf[k] = start + 1 + k
  BY <1>1, <1>2 DEF Scanned, Round, LineTypeOK
<1>4. fpos \notin newlines
  <2>1. end - 2 \in begin .. end - 2 /\ linebuf[end - 2] = fpos
    BY <1>1, <1>2, <1>3 DEF Round, LineTypeOK
  <2>. QED
    BY <1>1, <2>1
<1>. QED
  BY <1>1, <1>2, <1>3, <1>4 DEF Scanned, LineTypeOK

\* The buffer is doubled.
LEMMA GrowKeepsInv ==
  ASSUME LineInv, Grow
  PROVE  LineInv'
<1>. USE LineAssumption, Readers, ReadersDiffer DEF LineInv, fileVars
<1>1. /\ linePC = "scan" /\ linePC' = "fgets" /\ p = "heap" /\ ~trying
      /\ capacity' = 2 * end /\ linebuf' = Memory(linebuf, end, 2 * end)
      /\ begin' = end - 1 /\ end' = 2 * end
      /\ UNCHANGED <<reader, size, newlines, fpos, p, bufsize, trying, start, ii,
                     given, noMemory>>
  BY DEF Grow, TooSmall
<1>2. begin + 2 <= end /\ end <= capacity
  BY <1>1 DEF Round
<1>3. TooSmall
  BY DEF Grow
<1>4. LineTypeOK'
  <2>1. linebuf' \in [0 .. 2 * end - 1 -> Junk .. size]
    BY <1>1, <1>2 DEF Memory, LineTypeOK, Junk
  <2>2. begin' \in Nat /\ end' \in Nat /\ capacity' \in Nat
    BY <1>1, <1>2 DEF LineTypeOK
  <2>. QED
    BY <1>1, <2>1, <2>2 DEF LineTypeOK
<1>5. Round'
  <2>1. \A k \in 0 .. end - 2 : linebuf'[k] = start + 1 + k
    BY <1>1, <1>2, <1>3, FullBuffer DEF Memory, LineTypeOK
  <2>2. /\ begin' + 2 <= end' /\ end' <= capacity' /\ begin' - 1 = end - 2
        /\ bufsize <= end' \/ Deceived
        /\ fpos = start + begin' /\ start + begin' = fpos
    BY <1>1, <1>2, <1>3, FullBuffer DEF Round, LineTypeOK
  <2>3. \A c \in start + 1 .. start + begin' : c \notin newlines
    BY <1>3, <2>2, FullBuffer
  <2>. QED
    BY <1>1, <2>1, <2>2, <2>3 DEF Round, Deceived, LineTypeOK
<1>6. Sized' /\ Scanned' /\ LineIntact' /\ WithinMemory'
  BY <1>1 DEF Sized, Scanned, LineIntact, WithinMemory
<1>. QED
  BY <1>4, <1>5, <1>6

\* getline_4 gives its caller's buffer up and reads the line again.
LEMMA RestartKeepsInv ==
  ASSUME LineInv, Restart
  PROVE  LineInv'
<1>. USE LineAssumption, Readers, ReadersDiffer DEF LineInv, fileVars
<1>1. /\ linePC = "scan" /\ linePC' = "fgets" /\ trying /\ trying' = FALSE
      /\ p' = "heap" /\ capacity' = 2 * bufsize /\ linebuf' = Fresh(2 * bufsize)
      /\ end' = 2 * bufsize /\ fpos' = start
      /\ UNCHANGED <<reader, size, newlines, bufsize, begin, start, ii, given,
                     noMemory>>
  BY DEF Restart, TooSmall
<1>2. begin = 0 /\ bufsize >= 2
  BY <1>1 DEF Round, LineTypeOK
<1>3. LineTypeOK'
  <2>1. 2 * bufsize \in Nat /\ size \in Nat
    BY DEF LineTypeOK
  <2>2. Fresh(2 * bufsize) \in [0 .. 2 * bufsize - 1 -> Junk .. size]
    BY <2>1, FreshType
  <2>. QED
    BY <1>1, <2>1, <2>2 DEF LineTypeOK
<1>4. Round'
  BY <1>1, <1>2 DEF Round, Deceived, LineTypeOK
<1>5. Sized' /\ Scanned' /\ LineIntact' /\ WithinMemory'
  BY <1>1 DEF Sized, Scanned, LineIntact, WithinMemory
<1>. QED
  BY <1>3, <1>4, <1>5

-----------------------------------------------------------------------------
\* Every step.
LEMMA LineStep ==
  ASSUME LineInv, [LineNext]_lineVars
  PROVE  LineInv'
<1>1. CASE Enter \/ EnterNull
  BY <1>1, EnterKeepsInv
<1>2. CASE Again \/ EnterNoMemory \/ Overrun \/ GrowNoMemory \/ GrowAborts
  BY <1>2, EndKeepsInv
<1>3. CASE Fgets
  BY <1>3, FgetsKeepsInv
<1>4. CASE FgetsNull \/ FgetsNothing
  BY <1>4, EOFKeepsInv
<1>5. CASE Return \/ ReturnCut
  BY <1>5, ReturnKeepsInv
<1>6. CASE Grow
  BY <1>6, GrowKeepsInv
<1>7. CASE Restart
  BY <1>7, RestartKeepsInv
<1>8. CASE UNCHANGED lineVars
  BY <1>8 DEF LineInv, LineTypeOK, Sized, Round, Scanned, LineIntact,
     WithinMemory, Deceived, Ends, lineVars, fileVars, bufVars
<1>. QED
  BY <1>1, <1>2, <1>3, <1>4, <1>5, <1>6, <1>7, <1>8 DEF LineNext

\* The inductive invariant of the four programs.
THEOREM LineInvariant == LineSpec => []LineInv
<1>1. LineInv /\ [LineNext]_lineVars => LineInv'
  BY LineStep
<1>. QED
  BY <1>1, LineInitially, PTL DEF LineSpec

\* The types.
THEOREM LineTypeCorrect == LineSpec => []LineTypeOK
<1>1. LineInv => LineTypeOK
  BY DEF LineInv
<1>. QED
  BY <1>1, LineInvariant, PTL

\* Every line that is returned is the next line of the file, whole, for lines of
\* any length and buffers of any size.
THEOREM LinesIntact == LineSpec => []LineIntact
<1>1. LineInv => LineIntact
  BY DEF LineInv
<1>. QED
  BY <1>1, LineInvariant, PTL

\* Nothing is written beyond the memory that there is, but for getline_5 after
\* its first malloc has failed, and only getline_3 hands its array to realloc.
THEOREM LinesWithinMemory == LineSpec => []WithinMemory
<1>1. LineInv => WithinMemory
  BY DEF LineInv
<1>. QED
  BY <1>1, LineInvariant, PTL
=============================================================================
