---------------------------- MODULE BucketsProofs ----------------------------
(***************************************************************************)
(* Proofs about the programs of MCBuckets: the buckets that a signal       *)
(* handler fills keep their rate and never issue nothing, wherever in the  *)
(* main flow the handler runs; the bucket that spins; copies that lose and *)
(* repeat nothing; rows of stars that no interrupt is answered in; with    *)
(* MyGetlineProofs the reading of lines, and with AnyTimerProofs the timer.*)
(***************************************************************************)
EXTENDS MCBuckets, MyGetlineProofs, SequenceTheorems

(* The bucket that a signal handler fills. *)

Programs == {mytab, mytfb_2, slowcat_2, slowcat}

\* What the main flow knows between its steps, and the handler does not spoil:
\* a refill lowers token only to burst.
Knows ==
  /\ mpc \notin {"cut", "clip", "killed"} => token <= prog.burst
  /\ mpc = "clip" => token >= prog.burst
  /\ mpc = "min" => token > 0
  /\ mpc = "sub" => n > 0 /\ n <= token
  /\ mpc = "store" => n > 0 /\ n <= seen
  /\ mpc = "read" => n > 0
  /\ seen <= prog.burst

\* The rate with what the main flow has in its hands: tokens on their way back,
\* and the value of token it is going to overwrite the bucket with.
Rate ==
  LET earned == prog.cps * ticks
      back == IF mpc \in {"add", "added"} THEN n ELSE 0
  IN  Recording => /\ token + back + issued <= earned
                   /\ mpc \in {"store", "added"} => seen + back + issued <= earned

IInv == TypeOK /\ Knows /\ Rate

\* What is common to the four programs.
LEMMA ProgramTypes ==
  ASSUME prog \in Programs
  PROVE  /\ prog.cps \in Nat \ {0}
         /\ prog.burst \in 1 .. BURST
         /\ prog.size \in 1 .. BUFSIZE
         /\ prog.library \in BOOLEAN /\ prog.oneshot \in BOOLEAN
<1>1. CASE prog = mytab
  BY <1>1, SignalAssumption DEF mytab
<1>2. CASE prog = mytfb_2
  BY <1>2, SignalAssumption DEF mytfb_2, mytab
<1>3. CASE prog = slowcat_2
  BY <1>3, SignalAssumption DEF slowcat_2
<1>4. CASE prog = slowcat
  BY <1>4, SignalAssumption DEF slowcat, slowcat_2
<1> QED BY <1>1, <1>2, <1>3, <1>4 DEF Programs

LEMMA MinTypes ==
  ASSUME NEW a \in Int, NEW b \in Int
  PROVE  /\ Min2(a, b) \in {a, b}
         /\ Min2(a, b) <= a /\ Min2(a, b) <= b
BY DEF Min2

LEMMA InitIInv == Init => IInv
<1> SUFFICES ASSUME Init PROVE IInv
  OBVIOUS
<1>1. prog \in Programs
  BY DEF Init, Programs
<1>2. TypeOK
  <2>1. 0 \in 0 .. BURST + BUFSIZE /\ 0 \in 0 .. BURST /\ 0 \in 0 .. BUFSIZE
          /\ 0 \in 0 .. MaxTicks
    BY SignalAssumption
  <2>2. mpc = "load" /\ action = "default" /\ armed = FALSE /\ pending = FALSE
    BY DEF Init
  <2>3. token = 0 /\ seen = 0 /\ n = 0 /\ ticks = 0 /\ issued = 0
    BY DEF Init
  <2>4. /\ token \in 0 .. BURST + BUFSIZE /\ seen \in 0 .. BURST
        /\ n \in 0 .. BUFSIZE /\ ticks \in 0 .. MaxTicks /\ issued \in Int
    BY <2>1, <2>3
  <2>5. action \in {"default", "ours"} /\ armed \in BOOLEAN /\ pending \in BOOLEAN
    BY <2>2
  <2> QED BY <1>1, <2>2, <2>4, <2>5 DEF TypeOK, Programs
<1>3. Knows
  BY <1>1, ProgramTypes DEF Init, Knows
<1>4. Rate
  <2>1. token = 0 /\ issued = 0 /\ ticks = 0 /\ mpc = "load"
    BY DEF Init
  <2>2. prog.cps * ticks = 0
    BY <2>1, <1>1, ProgramTypes
  <2> QED BY <2>1, <2>2 DEF Rate
<1> QED BY <1>2, <1>3, <1>4 DEF IInv

-----------------------------------------------------------------------------
\* The handler, at any point of the main flow.
LEMMA DeliverIInv == IInv /\ Deliver => IInv'
<1> SUFFICES ASSUME IInv, Deliver PROVE IInv'
  OBVIOUS
<1> USE DEF IInv
<1>1. prog \in Programs /\ prog' = prog /\ n' = n /\ seen' = seen
  BY DEF TypeOK, Programs, Deliver
<1>2. /\ token \in Nat /\ n \in Nat /\ seen \in Nat /\ issued \in Int
      /\ ticks \in 0 .. MaxTicks
  BY DEF TypeOK
<1>3. CASE action # "ours"
  <2>1. /\ mpc' = "killed" /\ action' = action /\ pending' = FALSE
        /\ token' = token /\ ticks' = ticks /\ issued' = issued
        /\ armed' = armed
    BY <1>3 DEF Deliver, history
  <2>2. TypeOK'
    BY <1>1, <2>1 DEF TypeOK, Programs
  <2>3. Knows'
    <3>1. prog.burst \in Nat
      BY <1>1, ProgramTypes, SignalAssumption
    <3> QED BY <1>1, <1>2, <2>1, <3>1 DEF Knows
  <2>4. Rate'
    <3>1. prog.cps * ticks \in Int
      BY <1>1, <1>2, ProgramTypes
    <3> QED BY <1>1, <1>2, <2>1, <3>1 DEF Rate, Recording
  <2> QED BY <2>2, <2>3, <2>4
<1>4. CASE action = "ours"
  <2>1. Refill /\ pending' = FALSE /\ action' = action
    BY <1>4 DEF Deliver
  <2>2. /\ prog.cps \in Nat \ {0} /\ prog.burst \in 1 .. BURST
        /\ BURST \in Nat /\ BUFSIZE \in Nat /\ MaxTicks \in Nat
    BY <1>1, ProgramTypes, SignalAssumption
  <2> DEFINE new == Min2(token + prog.cps, prog.burst)
  <2>3. /\ new \in 1 .. prog.burst /\ new <= token + prog.cps
        /\ new >= prog.burst \/ new = token + prog.cps
    BY <1>2, <2>2 DEF Min2
  <2>4. token' \in {token, new} /\ issued' = issued
    BY <2>1 DEF Refill
  <2>5. mpc' = mpc \/ (mpc = "paused" /\ mpc' = "test")
    BY <2>1 DEF Refill
  <2>6. TypeOK'
    <3>1. token' \in 0 .. BURST + BUFSIZE
      BY <2>2, <2>3, <2>4 DEF TypeOK
    <3>2. ticks' \in 0 .. MaxTicks /\ armed' \in BOOLEAN
      BY <1>2, <2>1, <2>2 DEF Refill, Recording
    <3> QED BY <1>1, <2>1, <2>4, <2>5, <3>1, <3>2 DEF TypeOK, Programs
  <2>7. Knows'
    BY <1>1, <1>2, <2>2, <2>3, <2>4, <2>5 DEF Knows
  <2>8. Rate'
    <3>1. CASE ~Placed \/ ~Recording
      <4>1. ticks' = ticks /\ (token' = token \/ ~Recording)
        BY <2>1, <3>1 DEF Refill
      <4> QED BY <1>1, <1>2, <2>4, <2>5, <4>1 DEF Rate, Recording
    <3>2. CASE Placed /\ Recording
      <4>1. ticks' = ticks + 1 /\ token' <= token + prog.cps
        BY <1>2, <2>1, <2>2, <2>3, <3>2 DEF Refill
      <4>2. /\ prog.cps * (ticks + 1) = prog.cps * ticks + prog.cps
            /\ prog.cps * ticks \in Int
        BY <1>2, <2>2
      <4>3. prog'.cps * ticks' = prog.cps * ticks + prog.cps
        BY <1>1, <4>1, <4>2
      <4>4. token' \in Int
        BY <1>2, <2>2, <2>3, <2>4
      <4> HIDE DEF new
      <4> QED BY <1>1, <1>2, <2>2, <2>4, <2>5, <3>2, <4>1, <4>2, <4>3, <4>4
              DEF Rate
    <3> QED BY <3>1, <3>2
  <2> QED BY <2>6, <2>7, <2>8
<1> QED BY <1>3, <1>4

-----------------------------------------------------------------------------
\* The main flow, one case per statement.
LEMMA MainIInv == IInv /\ Main => IInv'
<1> SUFFICES ASSUME IInv, Main PROVE IInv'
  OBVIOUS
<1> USE DEF IInv, Goto, Quiet, signalVars, history, Issue, Recording
<1>1. prog \in Programs /\ prog' = prog
  BY DEF TypeOK, Programs, Main, Load, Fetch, Serve, GiveBack, Leave,
         LoadAction, LoadTimer, Place, Open, OpenFails, Test, Wait, Min, SubAtOnce, SubLoad, SubStore, Read,
         ReadEnds, Write, WriteFails, AddAtOnce, AddLoad, AddStore, CutTest, Clip, Destroy, Free, UnloadAction, UnloadTimer
<1>2. /\ prog.cps \in Nat \ {0} /\ prog.burst \in 1 .. BURST
      /\ prog.size \in 1 .. BUFSIZE /\ prog.library \in BOOLEAN
      /\ BURST \in Nat /\ BUFSIZE \in Nat /\ MaxTicks \in Nat
  BY <1>1, ProgramTypes, SignalAssumption
<1>3. /\ token \in 0 .. BURST + BUFSIZE /\ n \in 0 .. BUFSIZE
      /\ seen \in 0 .. BURST /\ issued \in Int /\ ticks \in 0 .. MaxTicks
  BY DEF TypeOK
<1>4. prog.cps * ticks \in Int
  BY <1>2, <1>3
<1>5. CASE LoadAction
  <2>1. TypeOK'
    BY <1>1, <1>2, <1>3, <1>5 DEF LoadAction, TypeOK, Programs, Knows
  <2>2. Knows'
    BY <1>1, <1>2, <1>3, <1>5 DEF LoadAction, Knows
  <2>3. Rate'
    BY <1>1, <1>2, <1>3, <1>4, <1>5 DEF LoadAction, Rate
  <2> QED BY <2>1, <2>2, <2>3
<1>6. CASE LoadTimer
  <2>1. TypeOK'
    BY <1>1, <1>2, <1>3, <1>6 DEF LoadTimer, TypeOK, Programs, Knows
  <2>2. Knows'
    BY <1>1, <1>2, <1>3, <1>6 DEF LoadTimer, Knows
  <2>3. Rate'
    BY <1>1, <1>2, <1>3, <1>4, <1>6 DEF LoadTimer, Rate
  <2> QED BY <2>1, <2>2, <2>3
<1>7. CASE Place
  <2>1. TypeOK'
    BY <1>1, <1>2, <1>3, <1>7 DEF Place, TypeOK, Programs, Knows
  <2>2. Knows'
    BY <1>1, <1>2, <1>3, <1>7 DEF Place, Knows
  <2>3. Rate'
    BY <1>1, <1>2, <1>3, <1>4, <1>7 DEF Place, Rate
  <2> QED BY <2>1, <2>2, <2>3
<1>8. CASE Open
  <2>1. TypeOK'
    BY <1>1, <1>2, <1>3, <1>8 DEF Open, TypeOK, Programs, Knows
  <2>2. Knows'
    BY <1>1, <1>2, <1>3, <1>8 DEF Open, Knows
  <2>3. Rate'
    BY <1>1, <1>2, <1>3, <1>4, <1>8 DEF Open, Rate
  <2> QED BY <2>1, <2>2, <2>3
<1>9. CASE OpenFails
  <2>1. TypeOK'
    BY <1>1, <1>2, <1>3, <1>9 DEF OpenFails, TypeOK, Programs, Knows, Exits
  <2>2. Knows'
    BY <1>1, <1>2, <1>3, <1>9 DEF OpenFails, Knows, Exits
  <2>3. Rate'
    BY <1>1, <1>2, <1>3, <1>4, <1>9 DEF OpenFails, Rate, Exits
  <2> QED BY <2>1, <2>2, <2>3
<1>10. CASE Test
  <2>1. TypeOK'
    BY <1>1, <1>2, <1>3, <1>10 DEF Test, TypeOK, Programs, Knows
  <2>2. Knows'
    BY <1>1, <1>2, <1>3, <1>10 DEF Test, Knows
  <2>3. Rate'
    BY <1>1, <1>2, <1>3, <1>4, <1>10 DEF Test, Rate
  <2> QED BY <2>1, <2>2, <2>3
<1>11. CASE Wait
  <2>1. TypeOK'
    BY <1>1, <1>2, <1>3, <1>11 DEF Wait, TypeOK, Programs, Knows
  <2>2. Knows'
    BY <1>1, <1>2, <1>3, <1>11 DEF Wait, Knows
  <2>3. Rate'
    BY <1>1, <1>2, <1>3, <1>4, <1>11 DEF Wait, Rate
  <2> QED BY <2>1, <2>2, <2>3
<1>12. CASE Min
  <2>1. TypeOK'
    BY <1>1, <1>2, <1>3, <1>12 DEF Min, TypeOK, Programs, Knows, Min2
  <2>2. Knows'
    BY <1>1, <1>2, <1>3, <1>12 DEF Min, Knows, Min2
  <2>3. Rate'
    BY <1>1, <1>2, <1>3, <1>4, <1>12 DEF Min, Rate, Min2
  <2> QED BY <2>1, <2>2, <2>3
<1>13. CASE SubAtOnce
  <2>1. TypeOK'
    BY <1>1, <1>2, <1>3, <1>13 DEF SubAtOnce, TypeOK, Programs, Knows
  <2>2. Knows'
    BY <1>1, <1>2, <1>3, <1>13 DEF SubAtOnce, Knows
  <2>3. Rate'
    BY <1>1, <1>2, <1>3, <1>4, <1>13 DEF SubAtOnce, Rate
  <2> QED BY <2>1, <2>2, <2>3
<1>14. CASE SubLoad
  <2>1. TypeOK'
    BY <1>1, <1>2, <1>3, <1>14 DEF SubLoad, TypeOK, Programs, Knows
  <2>2. Knows'
    BY <1>1, <1>2, <1>3, <1>14 DEF SubLoad, Knows
  <2>3. Rate'
    BY <1>1, <1>2, <1>3, <1>4, <1>14 DEF SubLoad, Rate
  <2> QED BY <2>1, <2>2, <2>3
<1>15. CASE SubStore
  <2>1. TypeOK'
    BY <1>1, <1>2, <1>3, <1>15 DEF SubStore, TypeOK, Programs, Knows
  <2>2. Knows'
    BY <1>1, <1>2, <1>3, <1>15 DEF SubStore, Knows
  <2>3. Rate'
    BY <1>1, <1>2, <1>3, <1>4, <1>15 DEF SubStore, Rate
  <2> QED BY <2>1, <2>2, <2>3
<1>16. CASE Read
  <2>1. TypeOK'
    BY <1>1, <1>2, <1>3, <1>16 DEF Read, TypeOK, Programs, Knows
  <2>2. Knows'
    BY <1>1, <1>2, <1>3, <1>16 DEF Read, Knows
  <2>3. Rate'
    BY <1>1, <1>2, <1>3, <1>4, <1>16 DEF Read, Rate
  <2> QED BY <2>1, <2>2, <2>3
<1>17. CASE ReadEnds
  <2>1. TypeOK'
    BY <1>1, <1>2, <1>3, <1>17 DEF ReadEnds, TypeOK, Programs, Knows
  <2>2. Knows'
    BY <1>1, <1>2, <1>3, <1>17 DEF ReadEnds, Knows
  <2>3. Rate'
    BY <1>1, <1>2, <1>3, <1>4, <1>17 DEF ReadEnds, Rate
  <2> QED BY <2>1, <2>2, <2>3
<1>18. CASE Write
  <2>1. TypeOK'
    BY <1>1, <1>2, <1>3, <1>18 DEF Write, TypeOK, Programs, Knows
  <2>2. Knows'
    BY <1>1, <1>2, <1>3, <1>18 DEF Write, Knows
  <2>3. Rate'
    BY <1>1, <1>2, <1>3, <1>4, <1>18 DEF Write, Rate
  <2> QED BY <2>1, <2>2, <2>3
<1>19. CASE WriteFails
  <2>1. TypeOK'
    BY <1>1, <1>2, <1>3, <1>19 DEF WriteFails, TypeOK, Programs, Knows, Exits
  <2>2. Knows'
    BY <1>1, <1>2, <1>3, <1>19 DEF WriteFails, Knows, Exits
  <2>3. Rate'
    BY <1>1, <1>2, <1>3, <1>4, <1>19 DEF WriteFails, Rate, Exits
  <2> QED BY <2>1, <2>2, <2>3
<1>20. CASE AddAtOnce
  <2>1. TypeOK'
    BY <1>1, <1>2, <1>3, <1>20 DEF AddAtOnce, TypeOK, Programs, Knows
  <2>2. Knows'
    BY <1>1, <1>2, <1>3, <1>20 DEF AddAtOnce, Knows
  <2>3. Rate'
    BY <1>1, <1>2, <1>3, <1>4, <1>20 DEF AddAtOnce, Rate
  <2> QED BY <2>1, <2>2, <2>3
<1>21. CASE AddLoad
  <2>1. TypeOK'
    BY <1>1, <1>2, <1>3, <1>21 DEF AddLoad, TypeOK, Programs, Knows
  <2>2. Knows'
    BY <1>1, <1>2, <1>3, <1>21 DEF AddLoad, Knows
  <2>3. Rate'
    BY <1>1, <1>2, <1>3, <1>4, <1>21 DEF AddLoad, Rate
  <2> QED BY <2>1, <2>2, <2>3
<1>22. CASE AddStore
  <2>1. TypeOK'
    BY <1>1, <1>2, <1>3, <1>22 DEF AddStore, TypeOK, Programs, Knows
  <2>2. Knows'
    BY <1>1, <1>2, <1>3, <1>22 DEF AddStore, Knows
  <2>3. Rate'
    BY <1>1, <1>2, <1>3, <1>4, <1>22 DEF AddStore, Rate
  <2> QED BY <2>1, <2>2, <2>3
<1>23. CASE CutTest
  <2>1. TypeOK'
    BY <1>1, <1>2, <1>3, <1>23 DEF CutTest, TypeOK, Programs, Knows
  <2>2. Knows'
    BY <1>1, <1>2, <1>3, <1>23 DEF CutTest, Knows
  <2>3. Rate'
    BY <1>1, <1>2, <1>3, <1>4, <1>23 DEF CutTest, Rate
  <2> QED BY <2>1, <2>2, <2>3
<1>24. CASE Clip
  <2>1. TypeOK'
    BY <1>1, <1>2, <1>3, <1>24 DEF Clip, TypeOK, Programs, Knows
  <2>2. Knows'
    BY <1>1, <1>2, <1>3, <1>24 DEF Clip, Knows
  <2>3. Rate'
    BY <1>1, <1>2, <1>3, <1>4, <1>24 DEF Clip, Rate, Knows
  <2> QED BY <2>1, <2>2, <2>3
<1>25. CASE Destroy
  <2>1. TypeOK'
    BY <1>1, <1>2, <1>3, <1>25 DEF Destroy, TypeOK, Programs, Knows
  <2>2. Knows'
    BY <1>1, <1>2, <1>3, <1>25 DEF Destroy, Knows
  <2>3. Rate'
    BY <1>1, <1>2, <1>3, <1>4, <1>25 DEF Destroy, Rate
  <2> QED BY <2>1, <2>2, <2>3
<1>26. CASE Free
  <2>1. TypeOK'
    BY <1>1, <1>2, <1>3, <1>26 DEF Free, TypeOK, Programs, Knows
  <2>2. Knows'
    BY <1>1, <1>2, <1>3, <1>26 DEF Free, Knows
  <2>3. Rate'
    BY <1>1, <1>2, <1>3, <1>4, <1>26 DEF Free, Rate
  <2> QED BY <2>1, <2>2, <2>3
<1>27. CASE UnloadAction
  <2>1. TypeOK'
    BY <1>1, <1>2, <1>3, <1>27 DEF UnloadAction, TypeOK, Programs, Knows
  <2>2. Knows'
    BY <1>1, <1>2, <1>3, <1>27 DEF UnloadAction, Knows
  <2>3. Rate'
    BY <1>1, <1>2, <1>3, <1>4, <1>27 DEF UnloadAction, Rate
  <2> QED BY <2>1, <2>2, <2>3
<1>28. CASE UnloadTimer
  <2>1. TypeOK'
    BY <1>1, <1>2, <1>3, <1>28 DEF UnloadTimer, TypeOK, Programs, Knows
  <2>2. Knows'
    BY <1>1, <1>2, <1>3, <1>28 DEF UnloadTimer, Knows
  <2>3. Rate'
    BY <1>1, <1>2, <1>3, <1>4, <1>28 DEF UnloadTimer, Rate
  <2> QED BY <2>1, <2>2, <2>3
<1> QED BY <1>5, <1>6, <1>7, <1>8, <1>9, <1>10, <1>11, <1>12, <1>13, <1>14, <1>15, <1>16, <1>17, <1>18, <1>19, <1>20, <1>21, <1>22, <1>23, <1>24, <1>25, <1>26, <1>27, <1>28 DEF Main, Load, Fetch, Serve, GiveBack, Leave

-----------------------------------------------------------------------------
\* The clock touches neither tokens nor the main flow.
LEMMA TickIInv == IInv /\ (Tick \/ UNCHANGED vars) => IInv'
<1> SUFFICES ASSUME IInv, Tick \/ UNCHANGED vars PROVE IInv'
  OBVIOUS
<1>1. /\ prog' = prog /\ token' = token /\ seen' = seen /\ n' = n /\ mpc' = mpc
      /\ ticks' = ticks /\ issued' = issued /\ action' = action
  BY DEF Tick, vars, signalVars, history
<1>2. TypeOK'
  <2>1. prog \in Programs /\ prog.oneshot \in BOOLEAN
    BY ProgramTypes DEF IInv, TypeOK, Programs
  <2>2. armed' \in BOOLEAN /\ pending' \in BOOLEAN
    BY <2>1 DEF IInv, TypeOK, Tick, vars, signalVars
  <2> QED BY <1>1, <2>2 DEF IInv, TypeOK
<1>3. Knows' /\ Rate'
  BY <1>1 DEF IInv, Knows, Rate, Recording
<1> QED BY <1>2, <1>3 DEF IInv

-----------------------------------------------------------------------------
\* The inductive invariant: types, what the main flow knows between its steps,
\* and the rate with the tokens in its hands.
THEOREM SignalInvariant == Spec => []IInv
<1>1. IInv /\ [Next]_vars => IInv'
  BY DeliverIInv, MainIInv, TickIInv DEF Next
<1> QED BY <1>1, InitIInv, PTL DEF Spec

\* Type invariant: between a give-back and its cut a bucket holds at most
\* BURST + BUFSIZE tokens, a fetch takes at most BUFSIZE.
THEOREM SignalTypeCorrect == Spec => []TypeOK
<1>1. IInv => TypeOK
  BY DEF IInv
<1> QED BY <1>1, SignalInvariant, PTL

LEMMA SignalRate == IInv => RateBound
<1> SUFFICES ASSUME IInv, Recording PROVE token + issued <= prog.cps * ticks
  BY DEF RateBound
<1>1. prog \in Programs
  BY DEF IInv, TypeOK, Programs
<1>2. /\ token \in Nat /\ n \in Nat /\ issued \in Int
      /\ prog.cps * ticks \in Int
  BY <1>1, ProgramTypes DEF IInv, TypeOK
<1> QED BY <1>2 DEF IInv, Rate

\* The rate is kept wherever the handler interrupts the main flow, also between
\* the load and the store of a subtraction, for a history of any length.
THEOREM SignalRateBound == Spec => []RateBound
<1> QED BY SignalRate, SignalInvariant, PTL

\* A fetch gets at least one token.
THEOREM SignalFetchNonEmpty == Spec => []FetchNonEmpty
<1>1. IInv => FetchNonEmpty
  BY DEF IInv, Knows, FetchNonEmpty
<1> QED BY <1>1, SignalInvariant, PTL

-----------------------------------------------------------------------------
(* Rows of stars. *)

\* A row is written with SIGINT blocked; and each run of the handler answers an
\* interrupt of its own.
StarInv ==
  /\ Star!TypeOK
  /\ row # 0 => starPC = "star"
  /\ starPC = "star" => mask
  /\ handled + (IF interrupt THEN 1 ELSE 0) <= sent + 1

LEMMA StarInit == Star!Init => StarInv
<1>. SUFFICES ASSUME Star!Init PROVE StarInv
  OBVIOUS
<1>1. Star!TypeOK
  BY BusyAssumption DEF Star!Init, Star!TypeOK
<1>2. handled = 0 /\ sent = 0 /\ row = 0 /\ starPC = "save"
  BY DEF Star!Init
<1>. QED
  BY <1>1, <1>2 DEF StarInv

\* Every step leaves the masks masks.
LEMMA StarMasks ==
  ASSUME StarInv, Star!Next
  PROVE  {inherited, mask, interrupt, saveset, oset}' \subseteq BOOLEAN
<1>1. /\ inherited \in BOOLEAN /\ mask \in BOOLEAN /\ interrupt \in BOOLEAN
      /\ saveset \in BOOLEAN /\ oset \in BOOLEAN
  BY DEF StarInv, Star!TypeOK
<1>2. inherited' = inherited
  BY Zenon DEF Star!Next, Star!Main, Star!Interrupt, Star!Deliver, Star!Save,
     Star!SaveNothing, Star!BlockOnce, Star!Block, Star!Star, Star!Newline,
     Star!Unblock, Star!Pause, Star!Suspend, Star!Leave, Star!Exit
<1>3. interrupt' \in {interrupt, TRUE, FALSE}
  BY Zenon DEF Star!Next, Star!Main, Star!Interrupt, Star!Deliver, Star!Save,
     Star!SaveNothing, Star!BlockOnce, Star!Block, Star!Star, Star!Newline,
     Star!Unblock, Star!Pause, Star!Suspend, Star!Leave, Star!Exit
<1>4. saveset' \in {saveset, mask} /\ oset' \in {oset, mask}
  BY Zenon DEF Star!Next, Star!Main, Star!Interrupt, Star!Deliver, Star!Save,
     Star!SaveNothing, Star!BlockOnce, Star!Block, Star!Star, Star!Newline,
     Star!Unblock, Star!Pause, Star!Suspend, Star!Leave, Star!Exit, Star!maskVars
<1>5. mask' \in {mask, saveset, oset, TRUE, FALSE, mask /\ ~saveset}
  <2>1. CASE Star!Deliver
    BY <2>1, Zenon DEF Star!Deliver
  <2>2. CASE Star!Interrupt \/ Star!Main
    BY <2>2, Zenon DEF Star!Main, Star!Interrupt, Star!Save,
       Star!SaveNothing, Star!BlockOnce, Star!Block, Star!Star, Star!Newline,
       Star!Unblock, Star!Pause, Star!Suspend, Star!Leave, Star!Exit, Star!maskVars
  <2>. QED
    BY <2>1, <2>2 DEF Star!Next
<1>. QED
  BY <1>1, <1>2, <1>3, <1>4, <1>5

\* The handler does not run in a row.
LEMMA StarStep ==
  ASSUME StarInv, Star!Next
  PROVE  StarInv' /\ (handled' # handled => row = 0)
<1>. USE BusyAssumption DEF StarInv
<1>. DEFINE masks == {inherited, mask, interrupt, saveset, oset} \subseteq BOOLEAN
            waiting == IF interrupt THEN 1 ELSE 0
<1>0. /\ masks'
      /\ row \in Nat /\ rows \in Nat /\ sent \in Nat /\ handled \in Nat
      /\ waiting \in {0, 1} /\ waiting' \in {0, 1}
  BY StarMasks DEF Star!TypeOK
<1>. USE <1>0
<1>1. CASE Star!Interrupt
  <2>1. /\ sent < MaxInts /\ sent' = sent + 1
        /\ UNCHANGED <<stars, mask, row, rows, starPC, handled>>
    BY <1>1 DEF Star!Interrupt, Star!maskVars
  <2>. QED
    BY <2>1 DEF Star!TypeOK
<1>2. CASE Star!Deliver
  <2>1. /\ interrupt /\ ~mask /\ ~interrupt' /\ handled' = handled + 1
        /\ UNCHANGED <<stars, row, rows, sent>>
        /\ starPC' = "row" \/ UNCHANGED starPC
    BY <1>2, Zenon DEF Star!Deliver, Star!Deliverable
  <2>2. starPC # "star" /\ starPC' # "star" /\ row = 0
    BY <2>1, Zenon
  <2>. QED
    BY <2>1, <2>2 DEF Star!TypeOK
<1>3. CASE Star!Main
  <2>. USE DEF Star!At, Star!Goto, Star!maskVars
  <2>1. UNCHANGED <<stars, interrupt, sent, handled>>
    BY <1>3, Zenon DEF Star!Main, Star!Save, Star!SaveNothing, Star!BlockOnce,
       Star!Block, Star!Star, Star!Newline, Star!Unblock, Star!Pause, Star!Suspend,
       Star!Leave, Star!Exit
  <2>2. waiting' = waiting
    BY <2>1, Zenon
  <2>3. ASSUME UNCHANGED <<row, rows>>, starPC' # "star",
               starPC' \in {"block", "row", "unblock", "pause", "paused", "suspend",
                            "suspended", "left", "exited"},
               starPC # "star"
        PROVE  StarInv'
    BY <2>1, <2>2, <2>3 DEF Star!TypeOK
  <2>4. CASE \/ Star!Save \/ Star!SaveNothing \/ Star!BlockOnce \/ Star!Unblock
             \/ Star!Pause \/ Star!Suspend \/ Star!Leave \/ Star!Exit
    <3>1. /\ UNCHANGED <<row, rows>>
          /\ starPC' \in {"block", "row", "unblock", "pause", "paused", "suspend",
                          "suspended", "left", "exited"}
          /\ starPC # "star" /\ starPC' # "star"
      BY <2>4, Zenon DEF Star!Save, Star!SaveNothing, Star!BlockOnce, Star!Unblock,
         Star!Pause, Star!Suspend, Star!Leave, Star!Exit
    <3>. QED
      BY <2>1, <2>3, <3>1
  <2>5. CASE Star!Block
    <3>1. mask' /\ row' = row /\ row = 0 /\ rows' = rows + 1 /\ rows < ROWS
            /\ starPC' = "star"
      BY <2>5, Zenon DEF Star!Block
    <3>. QED
      BY <2>1, <2>2, <3>1 DEF Star!TypeOK
  <2>6. CASE Star!Star
    <3>1. mask' = mask /\ starPC = "star" /\ starPC' = "star" /\ row < STARS
            /\ row' = row + 1 /\ rows' = rows
      BY <2>6, Zenon DEF Star!Star
    <3>. QED
      BY <2>1, <2>2, <3>1 DEF Star!TypeOK
  <2>7. CASE Star!Newline
    <3>1. row' = 0 /\ rows' = rows /\ starPC' \in {"suspend", "unblock"}
      BY <2>7, Zenon DEF Star!Newline
    <3>. QED
      BY <2>1, <2>2, <3>1 DEF Star!TypeOK
  <2>. QED
    BY <1>3, <2>1, <2>4, <2>5, <2>6, <2>7 DEF Star!Main
<1>. QED
  BY <1>1, <1>2, <1>3 DEF Star!Next

-----------------------------------------------------------------------------
(* Copying. *)

\* buf holds the last Len(buf) of the bytes read, and what was written are the
\* bytes before those that buf has left.
CopyInv ==
  /\ Copy!TypeOK
  /\ \A k \in 1 .. Len(out) : out[k] = k
  /\ \A k \in 1 .. Len(buf) : buf[k] = offset - Len(buf) + k
  /\ Len(out) <= offset
  /\ copyPC \in {"open", "openDes", "read"} => Len(out) = offset
  /\ copyPC = "write" => Len(out) = offset - Len(buf) + position
  /\ copyPC = "exited" /\ status = 0 /\ failed = {} => Len(out) = length

LEMMA CopyInit == Copy!Init => CopyInv
<1>. SUFFICES ASSUME Copy!Init PROVE CopyInv
  OBVIOUS
<1>1. Copy!TypeOK
  BY BusyAssumption DEF Copy!Init, Copy!TypeOK
<1>. QED
  BY <1>1, BusyAssumption DEF CopyInv, Copy!Init

\* Writing appends the next bytes of the source.
LEMMA NextBytes ==
  ASSUME CopyInv, copyPC = "write", NEW k \in 1 .. Len(buf) - position
  PROVE  LET new == out \o SubSeq(buf, position + 1, position + k)
         IN  /\ new \in Seq(1 .. length)
             /\ Len(new) = Len(out) + k
             /\ \A j \in 1 .. Len(new) : new[j] = j
<1>. USE DEF CopyInv, Copy!TypeOK
<1>. DEFINE part == SubSeq(buf, position + 1, position + k)
            new == out \o part
<1>1. /\ length \in Nat /\ offset \in Nat /\ position \in Nat
      /\ buf \in Seq(1 .. length) /\ out \in Seq(1 .. length)
      /\ Len(buf) \in Nat /\ Len(out) \in Nat
      /\ position <= Len(buf) /\ Len(out) = offset - Len(buf) + position
      /\ \A j \in 1 .. Len(out) : out[j] = j
      /\ \A j \in 1 .. Len(buf) : buf[j] = offset - Len(buf) + j
  <2>1. /\ length \in Nat /\ offset \in Nat /\ position \in 0 .. Len(buf)
        /\ buf \in Seq(1 .. length) /\ out \in Seq(1 .. length)
    BY BusyAssumption
  <2>2. Len(out) = offset - Len(buf) + position
    BY Zenon
  <2>3. /\ \A j \in 1 .. Len(out) : out[j] = j
        /\ \A j \in 1 .. Len(buf) : buf[j] = offset - Len(buf) + j
    BY Zenon
  <2>4. Len(buf) \in Nat /\ Len(out) \in Nat
    BY <2>1
  <2>. HIDE DEF CopyInv, Copy!TypeOK
  <2>. QED
    BY <2>1, <2>2, <2>3, <2>4
<1>. HIDE DEF CopyInv, Copy!TypeOK
<1>2. /\ part \in Seq(1 .. length) /\ Len(part) = k
      /\ \A j \in 1 .. k : part[j] = buf[position + j]
  <2>. DEFINE a == position + 1
              b == position + k
  <2>1. /\ a \in Int /\ b \in Int /\ a <= b /\ b - a + 1 = k
        /\ \A j \in a .. b : j \in 1 .. Len(buf)
        /\ \A j \in 1 .. k : a + j - 1 = position + j
    BY <1>1
  <2>2. part = SubSeq(buf, a, b) /\ buf \in Seq(1 .. length)
    BY <1>1
  <2>. HIDE DEF a, b, part
  <2>3. \A j \in a .. b : buf[j] \in 1 .. length
    <3>1. \A j \in 1 .. Len(buf) : buf[j] \in 1 .. length
      BY <2>2, ElementOfSeq, Zenon
    <3>. QED
      BY <2>1, <3>1, Zenon
  <2>. QED
    BY <2>1, <2>2, <2>3, SubSeqProperties
<1>3. \A j \in 1 .. k : part[j] = Len(out) + j
  <2>. TAKE j \in 1 .. k
  <2>1. position + j \in 1 .. Len(buf)
    BY <1>1
  <2>2. part[j] = buf[position + j]
    BY <1>2
  <2>3. buf[position + j] = offset - Len(buf) + (position + j)
    BY <1>1, <2>1
  <2>4. j \in Nat
    OBVIOUS
  <2>. HIDE DEF part
  <2>. QED
    BY <1>1, <2>2, <2>3, <2>4
<1>. HIDE DEF part
<1>4. /\ new \in Seq(1 .. length)
      /\ Len(new) = Len(out) + k
      /\ \A j \in 1 .. Len(out) + k :
           new[j] = IF j <= Len(out) THEN out[j] ELSE part[j - Len(out)]
  BY <1>1, <1>2, ConcatProperties
<1>. HIDE DEF new
<1>5. \A j \in 1 .. Len(out) + k : new[j] = j
  <2>. TAKE j \in 1 .. Len(out) + k
  <2>1. CASE j <= Len(out)
    <3>1. j \in 1 .. Len(out)
      BY <1>1, <2>1
    <3>2. new[j] = out[j]
      BY <1>4, <2>1, Zenon
    <3>. QED
      BY <1>1, <3>1, <3>2, Zenon
  <2>2. CASE j > Len(out)
    <3>1. j - Len(out) \in 1 .. k
      BY <1>1, <2>2
    <3>2. new[j] = part[j - Len(out)]
      <4>1. ~(j <= Len(out))
        BY <1>1, <2>2
      <4>. QED
        BY <1>4, <4>1
    <3>3. part[j - Len(out)] = Len(out) + (j - Len(out))
      BY <1>3, <3>1
    <3>4. Len(out) + (j - Len(out)) = j
      BY <1>1
    <3>. QED
      BY <3>2, <3>3, <3>4
  <2>. QED
    BY <1>1, <2>1, <2>2
<1>. QED
  BY <1>4, <1>5 DEF new, part

\* The beginning of a sequence.
LEMMA Beginning ==
  ASSUME NEW S, NEW s \in Seq(S), NEW k \in 0 .. Len(s)
  PROVE  /\ SubSeq(s, 1, k) \in Seq(S) /\ Len(SubSeq(s, 1, k)) = k
         /\ \A j \in 1 .. k : SubSeq(s, 1, k)[j] = s[j]
OBVIOUS

\* A piece of a source whose bytes are their positions.
LEMMA Piece ==
  ASSUME NEW m \in Nat, NEW s, \A j \in 1 .. m : s[j] = j,
         NEW a \in Nat \ {0}, NEW b \in Nat, a <= b, b <= m
  PROVE  /\ SubSeq(s, a, b) \in Seq(1 .. m) /\ Len(SubSeq(s, a, b)) = b - a + 1
         /\ \A j \in 1 .. b - a + 1 : SubSeq(s, a, b)[j] = a + j - 1
<1>1. \A j \in a .. b : j \in 1 .. m
  OBVIOUS
<1>2. \A j \in a .. b : s[j] \in 1 .. m
  BY <1>1
<1>3. /\ SubSeq(s, a, b) \in Seq(1 .. m)
      /\ Len(SubSeq(s, a, b)) = IF a <= b THEN b - a + 1 ELSE 0
      /\ \A j \in 1 .. b - a + 1 : SubSeq(s, a, b)[j] = s[a + j - 1]
  BY <1>2, a \in Int, b \in Int, SubSeqProperties
<1>4. \A j \in 1 .. b - a + 1 : a + j - 1 \in 1 .. m
  OBVIOUS
<1>. QED
  BY <1>3, <1>4

LEMMA CopyStep == CopyInv /\ Copy!Next => CopyInv'
<1>. SUFFICES ASSUME CopyInv, Copy!Next PROVE CopyInv'
  OBVIOUS
<1>. USE BusyAssumption DEF CopyInv, Copy!TypeOK, Copy!Exit
<1>1. CASE Copy!Open \/ Copy!OpenDes \/ Copy!OpenFails
  BY <1>1 DEF Copy!Open, Copy!OpenDes, Copy!OpenFails
<1>2. CASE Copy!Read
  <2>1. PICK k \in 1 .. BufLen :
          /\ offset + k <= length
          /\ offset' = offset + k
          /\ buf' = SubSeq(Copy!Source, offset + 1, offset + k)
    BY <1>2 DEF Copy!Read
  <2>2. /\ Copy!Source \in Seq(1 .. length) /\ Len(Copy!Source) = length
        /\ \A j \in 1 .. length : Copy!Source[j] = j
    BY DEF Copy!Source
  <2>3. /\ buf' \in Seq(1 .. length) /\ Len(buf') = k
        /\ \A j \in 1 .. k : buf'[j] = offset + j
    <3>1. /\ offset \in Nat /\ length \in Nat
          /\ k \in Nat /\ k >= 1
      OBVIOUS
    <3>2. offset + k <= length /\ buf' = SubSeq(Copy!Source, offset + 1, offset + k)
      BY <2>1, Zenon
    <3>. HIDE DEF CopyInv, Copy!TypeOK
    <3>. DEFINE a == offset + 1
                b == offset + k
                src == Copy!Source
    <3>3. offset + k <= length
      BY <3>2, Zenon
    <3>4. a \in Nat \ {0} /\ b \in Nat /\ a <= b /\ b <= length
      BY <3>1, <3>3
    <3>5. buf' = SubSeq(src, a, b) /\ \A j \in 1 .. length : src[j] = j
      BY <2>2, <3>2, Zenon
    <3>6. b - a + 1 = k /\ \A j \in 1 .. k : a + j - 1 = offset + j
      BY <3>1
    <3>. HIDE DEF a, b, src
    <3>7. /\ buf' \in Seq(1 .. length) /\ Len(buf') = b - a + 1
          /\ \A j \in 1 .. b - a + 1 : buf'[j] = a + j - 1
      BY <3>1, <3>4, <3>5, Piece
    <3>. QED
      BY <3>6, <3>7
  <2>4. \A j \in 1 .. Len(buf') : buf'[j] = offset' - Len(buf') + j
    <3>1. offset \in Nat /\ k \in Nat
      BY <2>1
    <3>2. offset' - k = offset
      BY <2>1, <3>1
    <3>. HIDE DEF CopyInv, Copy!TypeOK
    <3>. QED
      BY <2>3, <3>2
  <2>5. /\ copyPC = "read" /\ copyPC' = "write" /\ position' = 0
        /\ UNCHANGED <<copier, length, out, status, failed>>
    BY <1>2 DEF Copy!Read
  <2>6. Copy!TypeOK'
    BY <2>1, <2>3, <2>5
  <2>7. Len(out)' <= offset' /\ Len(out)' = offset' - Len(buf') + position'
    <3>. HIDE DEF CopyInv, Copy!TypeOK
    <3>1. Len(out) = offset /\ offset \in Nat
      BY <2>5 DEF CopyInv, Copy!TypeOK
    <3>. QED
      BY <2>1, <2>3, <2>5, <3>1
  <2>. QED
    BY <2>4, <2>5, <2>6, <2>7
<1>3. CASE Copy!Write
  <2>1. PICK k \in 1 .. Len(buf) - position :
          /\ out' = out \o SubSeq(buf, position + 1, position + k)
          /\ position' = position + k
    BY <1>3 DEF Copy!Write
  <2>2. /\ out' \in Seq(1 .. length)
        /\ Len(out') = Len(out) + k
        /\ \A j \in 1 .. Len(out') : out'[j] = j
    BY <1>3, <2>1, NextBytes DEF Copy!Write
  <2>3. /\ copyPC = "write" /\ copyPC' = "write"
        /\ UNCHANGED <<copier, length, copyPC, offset, buf, status, failed>>
    BY <1>3 DEF Copy!Write
  <2>4. position' \in 0 .. Len(buf') /\ Len(out') = offset - Len(buf) + position'
    <3>1. Len(out) = offset - Len(buf) + position
      BY <2>3, Zenon
    <3>2. position \in 0 .. Len(buf) /\ offset \in Nat /\ buf \in Seq(1 .. length)
      BY <2>3
    <3>3. Len(buf) \in Nat
      BY <3>2
    <3>. HIDE DEF CopyInv, Copy!TypeOK
    <3>4. k \in Nat /\ k <= Len(buf) - position /\ position + k \in 0 .. Len(buf)
      BY <3>2, <3>3
    <3>5. buf' = buf /\ position' = position + k /\ Len(out') = Len(out) + k
      BY <2>1, <2>2, <2>3, Zenon
    <3>6. Len(out) + k = offset - Len(buf) + (position + k)
      BY <3>1, <3>2, <3>3, <3>4
    <3>. QED
      BY <3>4, <3>5, <3>6, Zenon
  <2>5. Len(out') <= offset'
    <3>1. /\ offset \in Nat /\ Len(buf) \in Nat
          /\ position' \in 0 .. Len(buf) /\ offset' = offset
      BY <2>3, <2>4
    <3>. HIDE DEF CopyInv, Copy!TypeOK
    <3>. QED
      BY <2>4, <3>1
  <2>6. Copy!TypeOK'
    BY <2>2, <2>3, <2>4
  <2>. QED
    BY <2>2, <2>3, <2>4, <2>5, <2>6
<1>4. CASE Copy!WriteDone
  BY <1>4 DEF Copy!WriteDone
<1>5. CASE Copy!WriteFails
  BY <1>5 DEF Copy!WriteFails
<1>6. CASE Copy!Finish
  <2>1. failed' = {} => offset = length
    BY <1>6 DEF Copy!Finish, Copy!ReadingEnds
  <2>2. failed' \subseteq failed \cup {"read", "interrupted"}
    BY <1>6 DEF Copy!Finish, Copy!ReadingEnds
  <2>. QED
    BY <1>6, <2>1, <2>2 DEF Copy!Finish
<1>7. CASE Copy!FinishLoses
  <2>1. PICK k \in 0 .. Len(out) : out' = SubSeq(out, 1, k)
    BY <1>7 DEF Copy!FinishLoses
  <2>2. /\ SubSeq(out, 1, k) \in Seq(1 .. length) /\ Len(SubSeq(out, 1, k)) = k
        /\ \A j \in 1 .. k : SubSeq(out, 1, k)[j] = out[j]
    <3>1. out \in Seq(1 .. length)
      OBVIOUS
    <3>. QED
      BY <3>1, Beginning
  <2>3. out' \in Seq(1 .. length) /\ Len(out') = k /\ \A j \in 1 .. k : out'[j] = j
    <3>1. \A j \in 1 .. k : j \in 1 .. Len(out)
      OBVIOUS
    <3>2. \A j \in 1 .. Len(out) : out[j] = j
      BY Zenon
    <3>. HIDE DEF CopyInv, Copy!TypeOK
    <3>. QED
      BY <2>1, <2>2, <3>1, <3>2, Zenon
  <2>4. /\ copyPC' = "exited" /\ status' = 0 /\ "close" \in failed'
        /\ failed' = failed \cup {"close"}
        /\ UNCHANGED <<copier, length, offset, buf, position>>
    BY <1>7 DEF Copy!FinishLoses
  <2>5. Len(out') <= offset'
    <3>1. Len(out) \in Nat /\ offset \in Nat /\ Len(out) <= offset
      OBVIOUS
    <3>. HIDE DEF CopyInv, Copy!TypeOK
    <3>. QED
      BY <2>3, <2>4, <3>1
  <2>6. Copy!TypeOK'
    <3>1. out' \in Seq(1 .. length') /\ length' = length
      BY <2>3, <2>4, Zenon
    <3>. QED
      BY <2>4, <3>1
  <2>7. \A j \in 1 .. Len(buf') : buf'[j] = offset' - Len(buf') + j
    BY <2>4
  <2>8. \A j \in 1 .. Len(out') : out'[j] = j
    BY <2>3, Zenon
  <2>. HIDE DEF Copy!TypeOK
  <2>. QED
    BY <2>4, <2>5, <2>6, <2>7, <2>8
<1>. QED
  BY <1>1, <1>2, <1>3, <1>4, <1>5, <1>6, <1>7 DEF Copy!Next

LEMMA CopyImplies == CopyInv => Copy!CopyFaithful
<1>. SUFFICES ASSUME CopyInv PROVE Copy!CopyFaithful
  OBVIOUS
<1>. USE DEF CopyInv, Copy!TypeOK
<1>1. /\ Copy!Source \in Seq(1 .. length) /\ Len(Copy!Source) = length
      /\ \A j \in 1 .. length : Copy!Source[j] = j
      /\ length \in Nat
  BY BusyAssumption DEF Copy!Source
<1>2. /\ out \in Seq(1 .. length) /\ Len(out) \in Nat /\ Len(out) <= length
  BY <1>1
<1>3. SubSeq(out, 1, Len(out)) = SubSeq(Copy!Source, 1, Len(out))
  BY <1>1, <1>2
<1>4. Copy!IsPrefix(out, Copy!Source)
  BY <1>1, <1>2, <1>3 DEF Copy!IsPrefix
<1>5. Len(out) = length => out = Copy!Source
  BY <1>1, <1>2
<1>. QED
  BY <1>4, <1>5 DEF Copy!CopyFaithful

-----------------------------------------------------------------------------
(* Spinning. *)

Threads == Users \cup {Alarm}
SpinPCs == {"lock", "test", "spin", "yield", "min", "sub", "store", "unlock", "read",
            "give", "load", "add", "cut", "clip", "release"}

\* What a client of a build that loads token once knows between its steps.
Fetching(u) ==
  /\ pc[u] = "min" => loaded[u] > 0
  /\ pc[u] \in {"sub", "store"} => amount[u] > 0 /\ amount[u] <= loaded[u]
  /\ pc[u] \in {"unlock", "read"} => amount[u] > 0

SpinInv == Busy!TypeOK /\ (~reloads => \A u \in Users : Fetching(u))

LEMMA SpinInit == Busy!Init => SpinInv
<1>. SUFFICES ASSUME Busy!Init PROVE SpinInv
  OBVIOUS
<1>1. /\ reloads \in BOOLEAN /\ tokens = 0 /\ owner = NoOne
      /\ pc = [t \in Threads |-> "lock"]
      /\ loaded = [t \in Threads |-> 0] /\ amount = [u \in Users |-> 0]
  BY DEF Busy!Init, Threads
<1>2. 0 \in Busy!Amounts /\ 0 <= MaxToken /\ 0 <= BUFSIZE
  BY BusyAssumption, SignalAssumption DEF Busy!Amounts
<1>3. pc \in [Threads -> SpinPCs] /\ owner \in Threads \cup {NoOne}
  BY <1>1 DEF SpinPCs
<1>4. loaded \in [Threads -> Busy!Amounts] /\ amount \in [Users -> Busy!Amounts]
  BY <1>1, <1>2
<1>5. Busy!TypeOK
  BY <1>1, <1>2, <1>3, <1>4 DEF Busy!TypeOK, Threads, SpinPCs
<1>6. ASSUME NEW u \in Users PROVE Fetching(u)
  BY <1>1 DEF Fetching, Threads
<1>. QED
  BY <1>5, <1>6 DEF SpinInv

\* What the types of the bucket are made of.
LEMMA SpinTypes ==
  ASSUME SpinInv
  PROVE  /\ reloads \in BOOLEAN
         /\ tokens \in Busy!Amounts /\ tokens <= MaxToken
         /\ owner \in Threads \cup {NoOne}
         /\ pc \in [Threads -> SpinPCs]
         /\ loaded \in [Threads -> Busy!Amounts] /\ amount \in [Users -> Busy!Amounts]
         /\ \A t \in Threads : loaded[t] \in Int /\ loaded[t] <= MaxToken
         /\ \A u \in Users : amount[u] \in Int /\ amount[u] <= BUFSIZE
         /\ MaxToken \in Nat /\ BURST \in Nat /\ BUFSIZE \in Nat /\ CPS \in Nat
         /\ BURST <= MaxToken /\ tokens \in Int
<1>1. Busy!Amounts \subseteq Int
  BY DEF Busy!Amounts
<1>2. /\ loaded \in [Threads -> Busy!Amounts] /\ amount \in [Users -> Busy!Amounts]
      /\ tokens \in Busy!Amounts
  BY DEF SpinInv, Busy!TypeOK, Threads
<1>. QED
  BY <1>1, <1>2, BusyAssumption, SignalAssumption
     DEF SpinInv, Busy!TypeOK, Threads, SpinPCs

\* A thread goes on and the others stay.
LEMMA SpinGoes ==
  ASSUME SpinInv, NEW t \in Threads, NEW from, NEW to \in SpinPCs,
         Busy!Goto(t, from, to)
  PROVE  /\ pc' \in [Threads -> SpinPCs] /\ pc[t] = from /\ pc'[t] = to
         /\ \A x \in Threads : x # t => pc'[x] = pc[x]
<1>1. pc \in [Threads -> SpinPCs]
  BY SpinTypes
<1>. QED
  BY <1>1 DEF Busy!Goto

\* What a step of thread t has to leave true.
LEMMA SpinFrame ==
  ASSUME SpinInv, NEW t \in Threads, NEW from, NEW to \in SpinPCs,
         Busy!Goto(t, from, to),
         reloads' = reloads,
         tokens' \in Busy!Amounts, tokens' <= MaxToken,
         owner' \in Threads \cup {NoOne},
         NEW s \in Busy!Amounts, s <= MaxToken,
         loaded' = [loaded EXCEPT ![t] = s] \/ (loaded' = loaded /\ s = loaded[t]),
         amount' = amount,
         ~reloads /\ t \in Users =>
           /\ to = "min" => s > 0
           /\ to \in {"sub", "store"} => amount[t] > 0 /\ amount[t] <= s
           /\ to \in {"unlock", "read"} => amount[t] > 0
  PROVE  SpinInv'
<1>1. /\ pc' \in [Threads -> SpinPCs] /\ pc[t] = from /\ pc'[t] = to
      /\ \A x \in Threads : x # t => pc'[x] = pc[x]
  BY SpinGoes
<1>2. Busy!Amounts' = Busy!Amounts
  BY DEF Busy!Amounts
<1>3. /\ loaded' \in [Threads -> Busy!Amounts]
      /\ loaded'[t] = s /\ \A x \in Threads : x # t => loaded'[x] = loaded[x]
  BY SpinTypes
<1>4. \A x \in Threads : loaded'[x] <= MaxToken
  BY <1>3, SpinTypes
<1>5. Busy!TypeOK'
  BY <1>1, <1>2, <1>3, <1>4, SpinTypes DEF Busy!TypeOK, Threads, SpinPCs
<1>6. ASSUME ~reloads, NEW u \in Users
      PROVE  Fetching(u)'
  <2>1. Fetching(u) /\ u \in Threads
    BY <1>6 DEF SpinInv, Threads
  <2>2. CASE u = t
    BY <1>1, <1>3, <1>6, <2>2, Zenon DEF Fetching
  <2>3. CASE u # t
    <3>1. pc'[u] = pc[u] /\ loaded'[u] = loaded[u] /\ amount'[u] = amount[u]
      BY <1>1, <1>3, <2>1, <2>3
    <3>. QED
      BY <2>1, <3>1, Zenon DEF Fetching
  <2>. QED
    BY <2>2, <2>3
<1>. QED
  BY <1>5, <1>6 DEF SpinInv

\* The same for a step that changes what client u takes, has or gives back.
LEMMA SpinTakes ==
  ASSUME SpinInv, NEW u \in Users, NEW from, NEW to \in SpinPCs,
         Busy!Goto(u, from, to),
         reloads' = reloads, tokens' = tokens, owner' = owner, loaded' = loaded,
         NEW k \in Busy!Amounts, k <= BUFSIZE,
         amount' = [amount EXCEPT ![u] = k],
         to \in {"sub", "give", "lock"},
         ~reloads /\ to = "sub" => k > 0 /\ k <= loaded[u]
  PROVE  SpinInv'
<1>0. u \in Threads
  BY DEF Threads
<1>1. /\ pc' \in [Threads -> SpinPCs] /\ pc[u] = from /\ pc'[u] = to
      /\ \A x \in Threads : x # u => pc'[x] = pc[x]
  BY <1>0, SpinGoes
<1>2. Busy!Amounts' = Busy!Amounts
  BY DEF Busy!Amounts
<1>3. /\ amount' \in [Users -> Busy!Amounts]
      /\ amount'[u] = k /\ \A x \in Users : x # u => amount'[x] = amount[x]
  BY SpinTypes
<1>4. \A x \in Users : amount'[x] <= BUFSIZE
  BY <1>3, SpinTypes
<1>5. Busy!TypeOK'
  BY <1>1, <1>2, <1>3, <1>4, SpinTypes DEF Busy!TypeOK, Threads, SpinPCs
<1>6. ASSUME ~reloads, NEW x \in Users
      PROVE  Fetching(x)'
  <2>1. Fetching(x) /\ x \in Threads
    BY <1>6 DEF SpinInv, Threads
  <2>2. CASE x = u
    <3>1. pc'[x] = to /\ to # "min" /\ to # "store" /\ to # "unlock" /\ to # "read"
      BY <1>1, <2>2
    <3>2. amount'[x] = k /\ loaded'[x] = loaded[u]
      BY <1>3, <2>2
    <3>. QED
      BY <1>6, <3>1, <3>2, Zenon DEF Fetching
  <2>3. CASE x # u
    <3>1. pc'[x] = pc[x] /\ loaded'[x] = loaded[x] /\ amount'[x] = amount[x]
      BY <1>1, <1>3, <2>1, <2>3
    <3>. QED
      BY <2>1, <3>1, Zenon DEF Fetching
  <2>. QED
    BY <2>2, <2>3
<1>. QED
  BY <1>5, <1>6 DEF SpinInv

\* The steps that clients and the refill share.
LEMMA SpinShared ==
  ASSUME SpinInv, NEW t \in Threads, NEW from, NEW to \in SpinPCs \ {"min", "sub", "store"},
         t \in Users => to # "unlock" /\ (to = "read" => from = "unlock"),
         \/ Busy!Lock(t, from, to) \/ Busy!Unlock(t, from, to) \/ Busy!Load(t, from, to)
         \/ \E k \in Busy!Amounts : Busy!Add(t, k, from, to)
         \/ Busy!Clip(t, from, to)
  PROVE  SpinInv'
<1>. USE SpinTypes
<1>1. ~reloads /\ t \in Users /\ to = "read" => amount[t] > 0
  <2>. SUFFICES ASSUME ~reloads, t \in Users, to = "read" PROVE amount[t] > 0
    OBVIOUS
  <2>1. pc[t] = "unlock"
    BY DEF Busy!Lock, Busy!Unlock, Busy!Load, Busy!Add, Busy!Clip, Busy!Goto
  <2>. QED
    BY <2>1 DEF SpinInv, Fetching
<1>2. loaded[t] \in Busy!Amounts /\ loaded[t] <= MaxToken
  OBVIOUS
<1>3. CASE Busy!Lock(t, from, to) \/ Busy!Unlock(t, from, to)
  <2>1. /\ Busy!Goto(t, from, to) /\ owner' \in {t, NoOne}
        /\ UNCHANGED <<reloads, tokens, loaded, amount>>
    BY <1>3 DEF Busy!Lock, Busy!Unlock
  <2>. QED
    BY <1>1, <1>2, <2>1, SpinFrame
<1>4. CASE Busy!Load(t, from, to)
  <2>1. /\ Busy!Goto(t, from, to)
        /\ loaded' = [loaded EXCEPT ![t] = tokens]
        /\ UNCHANGED <<reloads, tokens, owner, amount>>
    BY <1>4 DEF Busy!Load
  <2>. QED
    BY <1>1, <2>1, SpinFrame
<1>5. CASE \E k \in Busy!Amounts : Busy!Add(t, k, from, to)
  <2>1. PICK k \in Busy!Amounts :
          /\ Busy!Goto(t, from, to) /\ tokens' = Busy!Min2(loaded[t] + k, MaxToken)
          /\ loaded' = [loaded EXCEPT ![t] = 0]
          /\ UNCHANGED <<reloads, owner, amount>>
    BY <1>5 DEF Busy!Add
  <2>2. tokens' \in Busy!Amounts /\ tokens' <= MaxToken
    BY <1>2, <2>1 DEF Busy!Amounts, Busy!Min2
  <2>3. 0 \in Busy!Amounts /\ 0 <= MaxToken
    BY DEF Busy!Amounts
  <2>. QED
    BY <1>1, <2>1, <2>2, <2>3, SpinFrame
<1>6. CASE Busy!Clip(t, from, to)
  <2>1. /\ Busy!Goto(t, from, to) /\ tokens' = BURST
        /\ UNCHANGED <<reloads, owner, loaded, amount>>
    BY <1>6 DEF Busy!Clip
  <2>2. tokens' \in Busy!Amounts /\ tokens' <= MaxToken
    BY <2>1 DEF Busy!Amounts
  <2>. QED
    BY <1>1, <1>2, <2>1, <2>2, SpinFrame
<1>. QED
  BY <1>3, <1>4, <1>5, <1>6

LEMMA SpinCut ==
  ASSUME SpinInv, NEW t \in Threads, NEW to \in {"release", "unlock"},
         t \in Users => to = "release", Busy!Cut(t, "cut", to)
  PROVE  SpinInv'
<1>. USE SpinTypes
<1>1. loaded[t] \in Busy!Amounts /\ loaded[t] <= MaxToken
  OBVIOUS
<1>2. PICK next \in {"clip", to} :
        /\ Busy!Goto(t, "cut", next)
        /\ UNCHANGED <<reloads, tokens, owner, loaded, amount>>
  BY DEF Busy!Cut
<1>3. next \in SpinPCs /\ (t \in Users => next \in {"clip", "release"})
  BY DEF SpinPCs
<1>. QED
  BY <1>1, <1>2, <1>3, SpinFrame

\* A client takes no more than the number it has loaded, unless token is loaded
\* for every use of it.
LEMMA SpinFetches ==
  ASSUME SpinInv, NEW u \in Users, Busy!Fetch(u)
  PROVE  SpinInv'
<1>. USE SpinTypes
<1>0. u \in Threads /\ loaded[u] \in Busy!Amounts /\ loaded[u] <= MaxToken
  BY DEF Threads
<1>1. CASE Busy!Test(u)
  <2>1. PICK to \in {"min", "spin"} :
          /\ Busy!Goto(u, "test", to) /\ (to = "min" => tokens > 0)
    BY <1>1 DEF Busy!Test
  <2>2. /\ loaded' = [loaded EXCEPT ![u] = tokens]
        /\ UNCHANGED <<reloads, tokens, owner, amount>>
    BY <1>1 DEF Busy!Test
  <2>3. to \in SpinPCs
    BY DEF SpinPCs
  <2>. QED
    BY <1>0, <2>1, <2>2, <2>3, SpinFrame
<1>2. CASE Busy!Spin(u) \/ Busy!SpinAgain(u) \/ Busy!Unlock(u, "unlock", "read")
  <2>1. {"yield", "test", "read"} \subseteq SpinPCs \ {"min", "sub", "store"}
    BY DEF SpinPCs
  <2>2. CASE Busy!Spin(u)
    BY <1>0, <2>1, <2>2, SpinShared DEF Busy!Spin
  <2>3. CASE Busy!SpinAgain(u)
    BY <1>0, <2>1, <2>3, SpinShared DEF Busy!SpinAgain
  <2>4. CASE Busy!Unlock(u, "unlock", "read")
    BY <1>0, <2>1, <2>4, SpinShared
  <2>. QED
    BY <1>2, <2>2, <2>3, <2>4
<1>3. CASE Busy!Min(u)
  <2>1. /\ Busy!Goto(u, "min", "sub")
        /\ amount' = [amount EXCEPT ![u] = Busy!Min2(Busy!Latest(u), BUFSIZE)]
        /\ UNCHANGED <<reloads, tokens, owner, loaded>>
    BY <1>3 DEF Busy!Min
  <2>2. pc[u] = "min" /\ (~reloads => loaded[u] > 0)
    BY <2>1 DEF Busy!Goto, SpinInv, Fetching
  <2>3. /\ Busy!Min2(Busy!Latest(u), BUFSIZE) \in Busy!Amounts
        /\ Busy!Min2(Busy!Latest(u), BUFSIZE) <= BUFSIZE
        /\ ~reloads => /\ Busy!Min2(Busy!Latest(u), BUFSIZE) > 0
                       /\ Busy!Min2(Busy!Latest(u), BUFSIZE) <= loaded[u]
    BY <1>0, <2>2, SignalAssumption DEF Busy!Latest, Busy!Min2, Busy!Amounts
  <2>4. "sub" \in SpinPCs
    BY DEF SpinPCs
  <2>. QED
    BY <2>1, <2>3, <2>4, SpinTakes
<1>4. CASE Busy!Sub(u)
  <2>1. /\ Busy!Goto(u, "sub", "store")
        /\ loaded' = [loaded EXCEPT ![u] = Busy!Latest(u)]
        /\ UNCHANGED <<reloads, tokens, owner, amount>>
    BY <1>4 DEF Busy!Sub
  <2>2. pc[u] = "sub" /\ (~reloads => amount[u] > 0 /\ amount[u] <= loaded[u])
    BY <2>1 DEF Busy!Goto, SpinInv, Fetching
  <2>3. /\ Busy!Latest(u) \in Busy!Amounts /\ Busy!Latest(u) <= MaxToken
        /\ ~reloads => Busy!Latest(u) = loaded[u]
    BY <1>0 DEF Busy!Latest
  <2>4. "store" \in SpinPCs
    BY DEF SpinPCs
  <2>. QED
    BY <1>0, <2>1, <2>2, <2>3, <2>4, SpinFrame
<1>5. CASE Busy!Store(u)
  <2>1. /\ Busy!Goto(u, "store", "unlock")
        /\ tokens' = Busy!Min2(loaded[u] - amount[u], MaxToken)
        /\ loaded' = [loaded EXCEPT ![u] = 0]
        /\ UNCHANGED <<reloads, owner, amount>>
    BY <1>5 DEF Busy!Store
  <2>2. pc[u] = "store" /\ (~reloads => amount[u] > 0 /\ amount[u] <= loaded[u])
    BY <2>1 DEF Busy!Goto, SpinInv, Fetching
  <2>3. tokens' \in Busy!Amounts /\ tokens' <= MaxToken
    BY <1>0, <2>1, <2>2 DEF Busy!Min2, Busy!Amounts
  <2>4. "unlock" \in SpinPCs /\ 0 \in Busy!Amounts /\ 0 <= MaxToken
    BY DEF SpinPCs, Busy!Amounts
  <2>5. /\ Busy!Goto(u, "store", "unlock") /\ owner' \in Threads \cup {NoOne}
        /\ loaded' = [loaded EXCEPT ![u] = 0]
        /\ reloads' = reloads /\ amount' = amount
    BY <2>1
  <2>6. ~reloads /\ u \in Users =>
          /\ "unlock" = "min" => 0 > 0
          /\ "unlock" \in {"sub", "store"} => amount[u] > 0 /\ amount[u] <= 0
          /\ "unlock" \in {"unlock", "read"} => amount[u] > 0
    BY <2>2
  <2>. HIDE SpinTypes
  <2>. QED
    BY <1>0, <2>3, <2>4, <2>5, <2>6, SpinFrame
<1>6. CASE Busy!Read(u)
  <2>1. PICK back \in 0 .. amount[u] - 1 :
          /\ amount' = [amount EXCEPT ![u] = back]
          /\ pc' = [pc EXCEPT ![u] = IF back > 0 THEN "give" ELSE "lock"]
    BY <1>6 DEF Busy!Read
  <2>2. pc[u] = "read" /\ UNCHANGED <<reloads, tokens, owner, loaded>>
    BY <1>6 DEF Busy!Read
  <2>3. PICK to \in {"give", "lock"} : pc' = [pc EXCEPT ![u] = to]
    BY <2>1
  <2>4. back \in Busy!Amounts /\ back <= BUFSIZE /\ to \in SpinPCs
    BY DEF Busy!Amounts, SpinPCs
  <2>5. Busy!Goto(u, "read", to)
    BY <2>2, <2>3 DEF Busy!Goto
  <2>. QED
    BY <2>1, <2>2, <2>3, <2>4, <2>5, SpinTakes
<1>. QED
  BY <1>1, <1>2, <1>3, <1>4, <1>5, <1>6 DEF Busy!Fetch

LEMMA SpinStep == SpinInv /\ Busy!Next => SpinInv'
<1>. SUFFICES ASSUME SpinInv, Busy!Next PROVE SpinInv'
  OBVIOUS
<1>0. {"test", "load", "add", "cut", "release", "lock", "unlock"} \subseteq
        SpinPCs \ {"min", "sub", "store"}
  BY DEF SpinPCs
<1>1. ASSUME NEW u \in Users, Busy!Fetch(u) PROVE SpinInv'
  BY <1>1, SpinFetches
<1>2. ASSUME NEW u \in Users, Busy!GiveBack(u) PROVE SpinInv'
  <2>0. u \in Threads /\ amount[u] \in Busy!Amounts
    BY SpinTypes DEF Threads
  <2>1. CASE Busy!Load(u, "load", "add")
    BY <1>0, <2>0, <2>1, SpinShared
  <2>2. CASE Busy!Add(u, amount[u], "add", "cut")
    BY <1>0, <2>0, <2>2, SpinShared
  <2>3. CASE Busy!Cut(u, "cut", "release")
    BY <2>0, <2>3, SpinCut
  <2>4. CASE Busy!Clip(u, "clip", "release")
    BY <1>0, <2>0, <2>4, SpinShared
  <2>5. CASE Busy!Unlock(u, "release", "lock")
    BY <1>0, <2>0, <2>5, SpinShared
  <2>. QED
    BY <1>2, <2>1, <2>2, <2>3, <2>4, <2>5 DEF Busy!GiveBack
<1>3. CASE Busy!Refill
  <2>0. Alarm \in Threads /\ Alarm \notin Users /\ CPS \in Busy!Amounts
    BY BusyAssumption, SignalAssumption DEF Threads, Busy!Amounts
  <2>1. CASE Busy!Load(Alarm, "load", "add")
    BY <1>0, <2>0, <2>1, SpinShared
  <2>2. CASE Busy!Add(Alarm, CPS, "add", "cut")
    BY <1>0, <2>0, <2>2, SpinShared
  <2>3. CASE Busy!Cut(Alarm, "cut", "unlock")
    BY <2>0, <2>3, SpinCut
  <2>4. CASE Busy!Clip(Alarm, "clip", "unlock")
    BY <1>0, <2>0, <2>4, SpinShared
  <2>5. CASE Busy!Unlock(Alarm, "unlock", "lock")
    BY <1>0, <2>0, <2>5, SpinShared
  <2>. QED
    BY <1>3, <2>1, <2>2, <2>3, <2>4, <2>5 DEF Busy!Refill
<1>4. ASSUME NEW t \in Users \cup {Alarm}, Busy!Locks(t) PROVE SpinInv'
  <2>0. t \in Threads
    BY DEF Threads
  <2>1. PICK from \in {"lock", "give"}, to \in {"load", "test"} :
          Busy!Lock(t, from, to)
    BY <1>4 DEF Busy!Locks
  <2>. QED
    BY <1>0, <2>0, <2>1, SpinShared
<1>. QED
  BY <1>1, <1>2, <1>3, <1>4 DEF Busy!Next

\* A client of a build that loads token once is never given nothing.
LEMMA SpinGives == SpinInv => Busy!FetchNonEmpty
BY DEF SpinInv, Fetching, Busy!FetchNonEmpty

-----------------------------------------------------------------------------
(* The timer: what AnyTimerProofs shows of AnyTimer, with the variables of *)
(* MCBuckets for its own.                                                  *)

TimerProofs == INSTANCE AnyTimerProofs WITH
                 action <- sigalrm, armed <- itimer, pending <- tick, mpc <- flow

LEMMA TimerStarts == Timer!Init => TimerProofs!TimerInv
BY TimerProofs!TimerInit, TimerAssumption, NoJobAssumption
   DEF Timer!Init, TimerProofs!Init, Timer!Ids, TimerProofs!Ids, Ids, Jobs,
       TimerProofs!Jobs

\* The two instances of AnyTimer have the same steps.
LEMMA HandlerSame == Timer!Tick \/ Timer!Handler =>
                       TimerProofs!Tick \/ TimerProofs!Handler
BY DEF Timer!Tick, Timer!Handler, Timer!Deliver, Timer!Scan, Timer!Call,
       Timer!Return, Timer!Running, Timer!Alive, Timer!Ids, Timer!timerVars,
       Timer!handlerVars, Timer!mainVars, Timer!history,
       TimerProofs!Tick, TimerProofs!Handler, TimerProofs!Deliver,
       TimerProofs!Scan, TimerProofs!Call, TimerProofs!Return,
       TimerProofs!Running, TimerProofs!Alive, TimerProofs!Ids,
       TimerProofs!timerVars, TimerProofs!handlerVars, TimerProofs!mainVars,
       TimerProofs!history

LEMMA BeginSame == Timer!Begin => TimerProofs!Begin
BY DEF Timer!Begin, Timer!Add, Timer!Cancel, Timer!Wait, Timer!Exit, Timer!Goto,
       Timer!Running, Timer!Ids, Timer!timerVars, Timer!handlerVars,
       Timer!history,
       TimerProofs!Begin, TimerProofs!Add, TimerProofs!Cancel, TimerProofs!Wait,
       TimerProofs!Exit, TimerProofs!Goto, TimerProofs!Running,
       TimerProofs!Ids, TimerProofs!timerVars, TimerProofs!handlerVars,
       TimerProofs!history

LEMMA ContinueSame == Timer!Continue => TimerProofs!Continue
BY DEF Timer!Continue, Timer!LoadAction, Timer!LoadTimer, Timer!Place,
       Timer!NoPlace, Timer!CancelReturn, Timer!WaitTest, Timer!WaitPause,
       Timer!WaitFree, Timer!WaitNull, Timer!StopTimer, Timer!Restore,
       Timer!FreePos, Timer!Goto, Timer!Ids, Timer!timerVars,
       Timer!handlerVars, Timer!history,
       TimerProofs!Continue, TimerProofs!LoadAction, TimerProofs!LoadTimer,
       TimerProofs!Place, TimerProofs!NoPlace, TimerProofs!CancelReturn,
       TimerProofs!WaitTest, TimerProofs!WaitPause, TimerProofs!WaitFree,
       TimerProofs!WaitNull, TimerProofs!StopTimer, TimerProofs!Restore,
       TimerProofs!FreePos, TimerProofs!Goto, TimerProofs!Ids,
       TimerProofs!timerVars, TimerProofs!handlerVars, TimerProofs!history

LEMMA TimerSteps == TimerProofs!TimerInv /\ (Timer!Next \/ UNCHANGED jobVars) =>
                      TimerProofs!TimerInv'
<1>. SUFFICES ASSUME TimerProofs!TimerInv, Timer!Next \/ UNCHANGED jobVars
              PROVE  TimerProofs!TimerInv'
  OBVIOUS
<1>1. CASE Timer!Next
  <2>1. TimerProofs!Next
    BY <1>1, HandlerSame, BeginSame, ContinueSame
       DEF Timer!Next, TimerProofs!Next
  <2>. QED
    BY <2>1, TimerProofs!TimerStep, TimerAssumption, NoJobAssumption
       DEF Ids, Jobs, TimerProofs!Ids, TimerProofs!Jobs
<1>2. CASE UNCHANGED jobVars
  <2>1. UNCHANGED TimerProofs!vars
    BY <1>2 DEF jobVars, TimerProofs!vars, TimerProofs!timerVars,
       TimerProofs!handlerVars, TimerProofs!mainVars, TimerProofs!history
  <2>. QED
    BY <2>1, TimerProofs!TimerStep, TimerAssumption, NoJobAssumption
       DEF Ids, Jobs, TimerProofs!Ids, TimerProofs!Jobs
<1>. QED
  BY <1>1, <1>2

-----------------------------------------------------------------------------
(* The programs of MCBuckets. *)

\* Each program keeps its invariant; the variables of the others keep their
\* initial values.
BucketsInv ==
  IInv /\ SpinInv /\ CopyInv /\ LineInv /\ StarInv /\ TimerProofs!TimerInv

LEMMA BucketsStart == BucketsInit => BucketsInv
<1>. SUFFICES ASSUME BucketsInit PROVE BucketsInv
  OBVIOUS
<1>1. Init /\ Busy!Init /\ Copy!Init /\ LineInit /\ Star!Init /\ Timer!Init
  BY DEF BucketsInit
<1>. QED
  BY <1>1, InitIInv, SpinInit, CopyInit, LineInitially, StarInit, TimerStarts
     DEF BucketsInv

\* The programs that do not run.
LEMMA SignalRests == IInv /\ UNCHANGED vars => IInv'
BY TickIInv

LEMMA SpinRests == SpinInv /\ UNCHANGED busyVars => SpinInv'
BY DEF SpinInv, Fetching, Busy!TypeOK, Busy!Amounts, busyVars

LEMMA CopyRests == CopyInv /\ UNCHANGED copyVars => CopyInv'
BY DEF CopyInv, Copy!TypeOK, copyVars

LEMMA LineRests == LineInv /\ UNCHANGED lineVars => LineInv'
BY LineStep

LEMMA StarRests == StarInv /\ UNCHANGED starVars => StarInv'
BY DEF StarInv, Star!TypeOK, starVars

LEMMA BucketsStep == BucketsInv /\ [BucketsNext]_all => BucketsInv'
<1>. SUFFICES ASSUME BucketsInv, [BucketsNext]_all PROVE BucketsInv'
  OBVIOUS
<1>. USE SignalRests, SpinRests, CopyRests, LineRests, StarRests, TimerSteps
         DEF BucketsInv
<1>1. CASE Signal(Next)
  <2>1. Next /\ UNCHANGED <<busyVars, copyVars, lineVars, starVars, jobVars>>
    BY <1>1 DEF Signal
  <2>. QED
    BY <2>1, DeliverIInv, MainIInv, TickIInv DEF Next
<1>2. CASE Spin(Busy!Next)
  BY <1>2, SpinStep DEF Spin
<1>3. CASE Plain(Copy!Next)
  BY <1>3, CopyStep DEF Plain
<1>4. CASE Lines(LineNext)
  BY <1>4, LineStep DEF Lines
<1>5. CASE Stars(Star!Next)
  BY <1>5, StarStep DEF Stars
<1>6. CASE Times(Timer!Next)
  BY <1>6 DEF Times
<1>7. CASE UNCHANGED all
  BY <1>7 DEF all
<1>. QED
  BY <1>1, <1>2, <1>3, <1>4, <1>5, <1>6, <1>7 DEF BucketsNext

\* The invariant of all programs.
THEOREM BucketsInvariant == BucketsSpec => []BucketsInv
<1>1. BucketsSpec => BucketsInit /\ [][BucketsNext]_all
  BY PTL DEF BucketsSpec
<1>. QED
  BY <1>1, BucketsStart, BucketsStep, PTL

\* The types of all programs; in a build that loads token once no number of
\* tokens is negative, and in every build none exceeds its limit.
THEOREM BucketsTypeCorrect == BucketsSpec => []BucketsTypeOK
<1>1. BucketsInv => BucketsTypeOK
  BY DEF BucketsInv, BucketsTypeOK, IInv, SpinInv, CopyInv, LineInv, StarInv
<1>. QED
  BY <1>1, BucketsInvariant, PTL

\* The programs with a signal handler keep to the rate of their buckets.
THEOREM BucketsRateBound == BucketsSpec => []RateBound
<1>1. BucketsInv => RateBound
  BY SignalRate DEF BucketsInv
<1>. QED
  BY <1>1, BucketsInvariant, PTL

\* Whatever is read and written short, interrupted or given up, a copy is the
\* beginning of its source, and all of it if nothing but writes can have failed
\* and the exit status is 0: for files and buffers of any size.
THEOREM BucketsCopyFaithful == BucketsSpec => []CopyFaithful
<1>1. BucketsInv => CopyFaithful
  BY CopyImplies DEF BucketsInv, CopyFaithful
<1>. QED
  BY <1>1, BucketsInvariant, PTL

\* Lines are returned whole, as LinesIntact says of the readers alone.
THEOREM BucketsLineIntact == BucketsSpec => []LineIntact
<1>1. BucketsInv => LineIntact
  BY DEF BucketsInv, LineInv
<1>. QED
  BY <1>1, BucketsInvariant, PTL

\* The readers stay within their memory, as LinesWithinMemory says.
THEOREM BucketsWithinMemory == BucketsSpec => []WithinMemory
<1>1. BucketsInv => WithinMemory
  BY DEF BucketsInv, LineInv
<1>. QED
  BY <1>1, BucketsInvariant, PTL

\* However long the rows and however many the interrupts, none is answered
\* within a row.
THEOREM BucketsRowsWhole == BucketsSpec => RowsWhole
<1>1. BucketsInv /\ [BucketsNext]_all =>
        [handled' # handled => row = 0]_(Star!starVars)
  <2>. SUFFICES ASSUME BucketsInv, [BucketsNext]_all, handled' # handled
                PROVE  row = 0
    OBVIOUS
  <2>1. ~ UNCHANGED starVars
    BY DEF starVars
  <2>2. Star!Next
    BY <2>1 DEF BucketsNext, Signal, Spin, Plain, Lines, Stars, Times, all
  <2>. QED
    BY <2>2, StarStep DEF BucketsInv
<1>2. BucketsSpec => [][BucketsNext]_all
  BY PTL DEF BucketsSpec
<1>. QED
  BY <1>1, <1>2, BucketsInvariant, PTL DEF RowsWhole, Star!RowsWhole

\* A client of the bucket that spins is never given nothing, however the refill
\* and the other clients take the mutex from each other, if the build loads token
\* once for the test and the subtraction.
THEOREM SpinFetchNonEmpty == BucketsSpec => [](program = "spin" => Busy!FetchNonEmpty)
<1>1. BucketsInv => Busy!FetchNonEmpty
  BY SpinGives DEF BucketsInv
<1>. QED
  BY <1>1, BucketsInvariant, PTL

\* The timer's variables keep their types.
THEOREM BucketsTimerTypeCorrect == BucketsSpec => []TimerTypeOK
<1>1. BucketsInv => TimerTypeOK
  BY DEF BucketsInv, TimerTypeOK, TimerProofs!TimerInv, TimerProofs!TimerTypeOK,
     Timer!TimerTypeOK, TimerProofs!Ids, Timer!Ids, TimerProofs!Jobs, Timer!Jobs
<1>. QED
  BY <1>1, BucketsInvariant, PTL

\* A job is called after exactly its delay, a one-shot job once: the ticks the
\* handler has counted and those left add up to the delay, in a table where
\* jobs come and go.
THEOREM BucketsCadence == BucketsSpec => []Cadence
<1>1. BucketsInv => Cadence
  BY DEF BucketsInv, Cadence, Timer!Cadence, TimerProofs!TimerInv,
     TimerProofs!Calling, TimerProofs!Counting, TimerProofs!Counted,
     TimerProofs!Live
<1>. QED
  BY <1>1, BucketsInvariant, PTL

\* SIGALRM finds the module's action from the first tick to the last, so the
\* timer never ends the process.
THEOREM BucketsSurvives == BucketsSpec => []Survives
<1>1. BucketsInv => Survives
  BY DEF BucketsInv, Survives, Timer!Survives, TimerProofs!TimerInv,
     TimerProofs!Ticking
<1>. QED
  BY <1>1, BucketsInvariant, PTL

\* at_waitjob frees only a job that has been called.
THEOREM BucketsWaitMeansCalled == BucketsSpec => []WaitMeansCalled
<1>1. BucketsInv => WaitMeansCalled
  BY DEF BucketsInv, WaitMeansCalled, Timer!WaitMeansCalled,
     TimerProofs!TimerInv, TimerProofs!Waiting, TimerProofs!Counting,
     TimerProofs!Counted, TimerProofs!Live
<1>. QED
  BY <1>1, BucketsInvariant, PTL
=============================================================================
