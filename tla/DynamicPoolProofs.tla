-------------------------- MODULE DynamicPoolProofs --------------------------
(***************************************************************************)
(* Proofs about DynamicPool, for every size of the table, every pair of    *)
(* thresholds, every backlog and every combination of failures.            *)
(***************************************************************************)
EXTENDS DynamicPool, FiniteSetTheorems, WellFoundedInduction, TLAPS

-----------------------------------------------------------------------------
(* Slots and their cardinalities. *)

\* The slots in use among the first k: what scan_pool has counted when its
\* loop variable is k.
Seen(k) == {s \in occupied : s < k}

\* The table is finite, and has MAXCLIENTS slots.
LEMMA SlotsFinite == IsFiniteSet(Slots) /\ Cardinality(Slots) = MAXCLIENTS
<1>1. MAXCLIENTS - 1 \in Int /\ 0 \in Int
  BY PoolAssumption
<1>2. IsFiniteSet(0 .. MAXCLIENTS - 1)
  BY <1>1, FS_Interval
<1>3. Cardinality(0 .. MAXCLIENTS - 1) =
        IF 0 > MAXCLIENTS - 1 THEN 0 ELSE MAXCLIENTS - 1 - 0 + 1
  BY <1>1, FS_Interval, Zenon
<1>4. QED
  BY <1>2, <1>3, PoolAssumption DEF Slots

\* A set of slots is finite and no larger than the table.
LEMMA SubsetOfSlots ==
  ASSUME NEW S, S \subseteq Slots
  PROVE  IsFiniteSet(S) /\ Cardinality(S) \in 0 .. MAXCLIENTS
<1>1. IsFiniteSet(S) /\ Cardinality(S) <= Cardinality(Slots)
  BY SlotsFinite, FS_Subset
<1>2. Cardinality(S) \in Nat
  BY <1>1, FS_CardinalityType
<1>3. QED
  BY <1>1, <1>2, SlotsFinite, PoolAssumption

\* The free slot add_1_server takes is a slot, and free.
LEMMA FreeSlotIsFree ==
  ASSUME occupied \subseteq Slots, occupied # Slots
  PROVE  FreeSlot \in Slots \ occupied
<1>. DEFINE Free == Slots \ occupied
<1>1. Free # {}
  OBVIOUS
<1>2. Free \subseteq Nat
  BY PoolAssumption DEF Slots
<1>. HIDE DEF Free
<1>3. \E x \in Free : \A y \in Free : ~(<<y, x>> \in OpToRel(<, Nat))
  BY <1>1, <1>2, NatLessThanWellFounded, WFMin
<1>4. ASSUME NEW x \in Free, NEW y \in Free, y < x
      PROVE  <<y, x>> \in OpToRel(<, Nat)
  BY <1>2, <1>4 DEF OpToRel
<1>5. \A x, y \in Nat : ~(y < x) => x <= y
  OBVIOUS
<1>6. \E x \in Free : \A y \in Free : x <= y
  BY <1>2, <1>3, <1>4, <1>5, Zenon
<1>. QED
  BY <1>6 DEF FreeSlot, Free

-----------------------------------------------------------------------------
(* The inductive invariant.  Accounting says nothing while scan_pool runs, *)
(* and del_1_server decrements idle_count, so neither Accounting nor the   *)
(* bounds in TypeOK is inductive without what the locals of scan_pool have *)
(* counted, and without the guard that was tested before the search for a  *)
(* victim.                                                                 *)

Counted ==
  /\ pc \in {"scan", "reload"} => idle + busy = Cardinality(Seen(cur))
  /\ pc \notin {"scan", "reload", "aborted"} => idle = 0 /\ busy = 0
  /\ pc \notin {"scan", "reload", "aborted", "pick", "kill"} => cur = 0

Reloaded == pc = "reload" => cur \in occupied

Victim == /\ pc \in {"pick", "kill"} => idle_count > 0
          /\ pc = "kill" => cur \in occupied

PoolInv == TypeOK /\ Accounting /\ Counted /\ Reloaded /\ Victim

-----------------------------------------------------------------------------
\* Slots are compared as integers.
LEMMA SlotOrder ==
  ASSUME NEW s \in Slots, NEW k \in Slots
  PROVE  ~(k < k) /\ (s < k + 1 <=> s < k \/ s = k)
BY PoolAssumption DEF Slots

\* A slot scan_pool passes adds one to what it has seen exactly when it is in
\* use.
LEMMA SeenNext ==
  ASSUME occupied \subseteq Slots, NEW k \in Slots
  PROVE  Cardinality(Seen(k + 1)) =
           IF k \in occupied THEN Cardinality(Seen(k)) + 1
                             ELSE Cardinality(Seen(k))
<1>1. \A s \in occupied : ~(k < k) /\ (s < k + 1 <=> s < k \/ s = k)
  BY SlotOrder
<1>2. Seen(k) \subseteq Slots
  BY DEF Seen
<1>3. IsFiniteSet(Seen(k))
  BY <1>2, SubsetOfSlots
<1>4. CASE k \in occupied
  <2>1. Seen(k + 1) = Seen(k) \cup {k} /\ k \notin Seen(k)
    BY <1>1, <1>4, Zenon DEF Seen
  <2>. QED
    BY <2>1, <1>3, <1>4, FS_AddElement
<1>5. CASE k \notin occupied
  <2>1. Seen(k + 1) = Seen(k)
    BY <1>1, <1>5, Zenon DEF Seen
  <2>. QED
    BY <2>1, <1>5
<1>. QED
  BY <1>4, <1>5

\* A slot that is released was not counted yet.
LEMMA SeenRelease ==
  ASSUME occupied \subseteq Slots, NEW k \in Slots
  PROVE  {s \in occupied \ {k} : s < k + 1} = Seen(k)
<1>1. \A s \in occupied : ~(k < k) /\ (s < k + 1 <=> s < k \/ s = k)
  BY SlotOrder
<1>. QED
  BY <1>1, Zenon DEF Seen

\* At the start of scan_pool nothing has been seen, at its end everything.
LEMMA SeenEnds ==
  ASSUME occupied \subseteq Slots
  PROVE  Cardinality(Seen(0)) = 0 /\ Seen(MAXCLIENTS) = occupied
<1>. \A s \in Slots : s < MAXCLIENTS /\ ~(s < 0)
  BY PoolAssumption DEF Slots
<1>1. Seen(0) = {}
  BY Zenon DEF Seen
<1>2. Seen(MAXCLIENTS) = occupied
  BY Zenon DEF Seen
<1>. QED
  BY <1>1, <1>2, FS_EmptySet

-----------------------------------------------------------------------------
LEMMA InvInit == Init => PoolInv
<1>. SUFFICES ASSUME Init PROVE PoolInv
  OBVIOUS
<1>1. TypeOK
  <2>1. /\ state \in [Slots -> {"IDEL", "BUSY"}]
        /\ child \in [Slots -> ChildPC] /\ victim \in [Slots -> VictimPC]
    BY DEF Init, ChildPC, VictimPC
  <2>2. pending \in BOOLEAN /\ forkFailed \in BOOLEAN
    BY DEF Init
  <2>. QED
    BY <2>1, <2>2, PoolAssumption DEF Init, TypeOK, ParentPC
<1>2. Accounting
  BY FS_EmptySet DEF Init, Accounting
<1>. QED
  BY <1>1, <1>2 DEF Init, PoolInv, Counted, Reloaded, Victim

\* No step of a client or of a child touches the parent's bookkeeping.
ParentUntouched ==
  UNCHANGED <<occupied, forkFailed, pc, i, cur, scanVars, countVars>>

\* The part of the type invariant that children and clients write.
ChildTypeOK ==
  /\ state \in [Slots -> {"IDEL", "BUSY"}]
  /\ child \in [Slots -> ChildPC]
  /\ victim \in [Slots -> VictimPC]
  /\ fresh \subseteq Slots
  /\ pending \in BOOLEAN
  /\ backlog \in 0 .. MaxBacklog

LEMMA ChildKeepsInv ==
  ASSUME PoolInv, Connect \/ \E s \in Slots : Child(s) \/ VictimRuns(s)
  PROVE  PoolInv'
<1>. USE PoolAssumption
<1>1. ParentUntouched
  BY DEF Connect, Child, StoreIdle, StoreBusy, Notify, TellIdle, TellBusy,
         Accept, AcceptError, Serve, VictimRuns, VictimStores, VictimTells,
         VictimAccepts, Die, ParentUntouched, tableVars, lateVars, scanVars,
         countVars
<1>2. ChildTypeOK'
  <2>. USE DEF TypeOK, ChildPC, VictimPC, tableVars, lateVars, ChildTypeOK
  <2>1. CASE Connect
    BY <2>1 DEF PoolInv, Connect
  <2>2. ASSUME NEW s \in Slots, StoreIdle(s) \/ StoreBusy(s)
        PROVE  ChildTypeOK'
    BY <2>2 DEF PoolInv, StoreIdle, StoreBusy
  <2>3. ASSUME NEW s \in Slots, TellIdle(s) \/ TellBusy(s)
        PROVE  ChildTypeOK'
    BY <2>3 DEF PoolInv, TellIdle, TellBusy, Notify, Raise
  <2>4. ASSUME NEW s \in Slots, Accept(s) \/ AcceptError(s)
        PROVE  ChildTypeOK'
    BY <2>4 DEF PoolInv, Accept, AcceptError
  <2>5. ASSUME NEW s \in Slots, Serve(s)
        PROVE  ChildTypeOK'
    BY <2>5 DEF PoolInv, Serve
  <2>6. ASSUME NEW s \in Slots, VictimStores(s) \/ VictimTells(s)
        PROVE  ChildTypeOK'
    BY <2>6 DEF PoolInv, VictimStores, VictimTells, Raise
  <2>7. ASSUME NEW s \in Slots, VictimAccepts(s) \/ Die(s)
        PROVE  ChildTypeOK'
    BY <2>7 DEF PoolInv, VictimAccepts, Die
  <2>. QED
    BY <2>1, <2>2, <2>3, <2>4, <2>5, <2>6, <2>7 DEF Child, VictimRuns
<1>. QED
  BY <1>1, <1>2 DEF ChildTypeOK, PoolInv, TypeOK, Accounting, Counted, Reloaded, Victim,
     Seen, ParentUntouched, scanVars, countVars

\* add_1_server, called from either loop of main.
LEMMA AddKeepsInv ==
  ASSUME PoolInv, pc \in {"fill", "add"}, i' = i + 1, add_1_server,
         UNCHANGED <<victim, pending, backlog, pc, cur, scanVars, busy_count>>
  PROVE  PoolInv'
<1>. USE DEF PoolInv, scanVars
<1>1. CASE ForkOK
  <2>1. FreeSlot \in Slots \ occupied
    BY <1>1, FreeSlotIsFree DEF ForkOK, HasRoom, TypeOK
  <2>2. idle_count' + busy_count' = Cardinality(occupied')
    <3>1. IsFiniteSet(occupied)
      BY SubsetOfSlots DEF TypeOK
    <3>2. Cardinality(occupied') = Cardinality(occupied) + 1
      BY <3>1, <2>1, <1>1, FS_AddElement DEF ForkOK
    <3>. QED
      BY <3>2, <1>1, PoolAssumption DEF ForkOK, Accounting, TypeOK
  <2>3. TypeOK'
    BY <2>1, <1>1, PoolAssumption DEF ForkOK, HasRoom, TypeOK, ChildPC
  <2>. QED
    BY <2>2, <2>3, <1>1 DEF Accounting, Counted, Reloaded, Victim
<1>2. CASE ForkError
  <2>1. FreeSlot \in Slots \ occupied
    BY <1>2, FreeSlotIsFree DEF ForkError, HasRoom, TypeOK
  <2>2. TypeOK'
    BY <2>1, <1>2 DEF ForkError, TypeOK
  <2>. QED
    BY <2>2, <1>2 DEF ForkError, Accounting, Counted, Reloaded, Victim
<1>3. CASE PoolFull
  <2>1. TypeOK'
    BY <1>3 DEF PoolFull, TypeOK
  <2>. QED
    BY <2>1, <1>3 DEF PoolFull, Accounting, Counted, Reloaded, Victim
<1>. QED
  BY <1>1, <1>2, <1>3 DEF add_1_server

\* What scan_pool has counted fits its locals.
LEMMA CountFits ==
  ASSUME PoolInv, pc \in {"scan", "reload"}, cur \in occupied
  PROVE  /\ cur \in Slots
         /\ Cardinality(Seen(cur + 1)) = idle + busy + 1
         /\ idle + busy + 1 <= MAXCLIENTS
<1>1. cur \in Slots
  BY DEF PoolInv, TypeOK
<1>2. Cardinality(Seen(cur + 1)) = idle + busy + 1
  BY <1>1, SeenNext DEF PoolInv, TypeOK, Counted
<1>3. Seen(cur + 1) \subseteq Slots
  BY DEF PoolInv, TypeOK, Seen
<1>4. Cardinality(Seen(cur + 1)) \in 0 .. MAXCLIENTS
  BY <1>3, SubsetOfSlots
<1>. QED
  BY <1>1, <1>2, <1>4, PoolAssumption

\* The loop of scan_pool.
LEMMA ScanKeepsInv ==
  ASSUME PoolInv, ScanVacant \/ ScanDead \/ ScanLive \/ ScanReload
  PROVE  PoolInv'
<1>. USE DEF PoolInv, tableVars, lateVars, scanVars, countVars
<1>1. CASE ScanVacant
  <2>1. cur \in Slots /\ Cardinality(Seen(cur + 1)) = Cardinality(Seen(cur))
    BY <1>1, SeenNext DEF ScanVacant, TypeOK
  <2>2. TypeOK'
    BY <1>1, <2>1, PoolAssumption DEF ScanVacant, TypeOK, Slots
  <2>. QED
    BY <1>1, <2>1, <2>2 DEF ScanVacant, Accounting, Counted, Reloaded, Victim,
       Seen
<1>2. CASE ScanDead
  <2>1. cur \in Slots
    BY <1>2 DEF ScanDead, TypeOK
  <2>2. Seen(cur)' = {s \in occupied \ {cur} : s < cur + 1}
    BY <1>2 DEF ScanDead, Seen
  <2>3. Seen(cur)' = Seen(cur)
    BY <2>1, <2>2, SeenRelease DEF TypeOK
  <2>4. TypeOK'
    BY <1>2, <2>1, PoolAssumption DEF ScanDead, TypeOK, Slots
  <2>. QED
    BY <1>2, <2>3, <2>4 DEF ScanDead, Accounting, Counted, Reloaded, Victim
<1>3. CASE ScanLive
  <2>1. /\ cur \in Slots
        /\ Cardinality(Seen(cur + 1)) = idle + busy + 1
        /\ idle + busy + 1 <= MAXCLIENTS
    BY <1>3, CountFits DEF ScanLive
  <2>2. CASE CountIdle
    <3>1. TypeOK'
      BY <1>3, <2>1, <2>2, PoolAssumption DEF ScanLive, CountIdle, TypeOK,
         Slots
    <3>. QED
      BY <1>3, <2>1, <2>2, <3>1 DEF ScanLive, CountIdle, TypeOK, Accounting,
         Counted, Reloaded, Victim, Seen
  <2>3. CASE CountBusy
    <3>1. TypeOK'
      BY <1>3, <2>1, <2>3, PoolAssumption DEF ScanLive, CountBusy, TypeOK,
         Slots, ParentPC
    <3>2. CASE pc' = "reload"
      <4>1. UNCHANGED <<occupied, idle, busy, cur>> /\ cur \in occupied
        BY <1>3, <2>3, <3>2 DEF ScanLive, CountBusy
      <4>. QED
        BY <1>3, <3>1, <3>2, <4>1 DEF ScanLive, Accounting, Counted, Reloaded,
           Victim, Seen
    <3>3. CASE pc' = "scan"
      <4>1. /\ UNCHANGED <<occupied, idle>>
            /\ busy' = busy + 1 /\ cur' = cur + 1
        BY <1>3, <2>3, <3>3 DEF ScanLive, CountBusy
      <4>2. Seen(cur)' = Seen(cur + 1)
        BY <4>1 DEF Seen
      <4>3. idle' + busy' = Cardinality(Seen(cur)')
        BY <2>1, <4>1, <4>2 DEF TypeOK
      <4>. QED
        BY <3>1, <3>3, <4>3 DEF Accounting, Counted, Reloaded, Victim
    <3>. QED
      BY <1>3, <2>3, <3>2, <3>3 DEF ScanLive, CountBusy
  <2>. QED
    BY <1>3, <2>2, <2>3 DEF ScanLive
<1>4. CASE ScanReload
  <2>1. /\ cur \in Slots
        /\ Cardinality(Seen(cur + 1)) = idle + busy + 1
        /\ idle + busy + 1 <= MAXCLIENTS
    BY <1>4, CountFits DEF ScanReload, Reloaded
  <2>2. TypeOK'
    BY <1>4, <2>1, PoolAssumption DEF ScanReload, TypeOK, Slots, ParentPC
  <2>3. CASE pc' = "aborted"
    BY <2>2, <2>3 DEF Accounting, Counted, Reloaded, Victim
  <2>4. CASE pc' # "aborted"
    <3>1. /\ UNCHANGED <<occupied, idle>> /\ pc' = "scan"
          /\ busy' = busy + 1 /\ cur' = cur + 1
      BY <1>4, <2>4 DEF ScanReload
    <3>2. Seen(cur)' = Seen(cur + 1)
      BY <3>1 DEF Seen
    <3>3. idle' + busy' = Cardinality(Seen(cur)')
      BY <2>1, <3>1, <3>2 DEF TypeOK
    <3>. QED
      BY <2>2, <3>1, <3>3 DEF Accounting, Counted, Reloaded, Victim
  <2>. QED
    BY <2>3, <2>4
<1>. QED
  BY <1>1, <1>2, <1>3, <1>4

\* The other steps of the parent.
LEMMA ControlKeepsInv ==
  ASSUME PoolInv,
         FillDone \/ Suspend \/ ScanDone \/ DelCall \/ DelDone \/ Pick
           \/ AddDone
  PROVE  PoolInv'
<1>. USE DEF PoolInv, tableVars, lateVars, scanVars, countVars
<1>1. CASE FillDone \/ DelDone \/ AddDone
  <2>1. TypeOK'
    BY <1>1, PoolAssumption DEF FillDone, DelDone, AddDone, Report, TypeOK,
       ParentPC
  <2>. QED
    BY <1>1, <2>1 DEF FillDone, DelDone, AddDone, Report, Accounting, Counted,
       Reloaded, Victim
<1>2. CASE Suspend
  <2>1. pending' \in BOOLEAN
    BY <1>2 DEF Suspend
  <2>2. TypeOK'
    BY <1>2, <2>1, PoolAssumption DEF Suspend, TypeOK, ParentPC
  <2>3. Seen(cur)' = Seen(0)
    BY <1>2 DEF Suspend, Counted, Seen
  <2>. QED
    BY <1>2, <2>2, <2>3, SeenEnds DEF Suspend, TypeOK, Accounting, Counted,
       Reloaded, Victim
<1>3. CASE ScanDone
  <2>1. TypeOK'
    BY <1>3, PoolAssumption DEF ScanDone, ScanReturns, Report, TypeOK, ParentPC
  <2>2. Seen(cur) = occupied
    BY <1>3, SeenEnds DEF ScanDone, ScanReturns, TypeOK
  <2>. QED
    BY <1>3, <2>1, <2>2 DEF ScanDone, ScanReturns, Report, Accounting, Counted,
       Reloaded, Victim
<1>4. CASE DelCall
  <2>1. TypeOK'
    BY <1>4, PoolAssumption DEF DelCall, TypeOK, ParentPC
  <2>. QED
    BY <1>4, <2>1 DEF DelCall, TypeOK, Accounting, Counted, Reloaded, Victim
<1>5. CASE Pick
  <2>1. TypeOK'
    BY <1>5, PoolAssumption DEF Pick, TypeOK, ParentPC
  <2>. QED
    BY <1>5, <2>1 DEF Pick, IsVictim, Accounting, Counted, Reloaded, Victim
<1>. QED
  BY <1>1, <1>2, <1>3, <1>4, <1>5

\* del_1_server lets go of exactly one slot.
LEMMA KillKeepsInv ==
  ASSUME PoolInv, Kill
  PROVE  PoolInv'
<1>. USE DEF PoolInv, Kill, scanVars
<1>1. IsFiniteSet(occupied) /\ cur \in occupied
  BY SubsetOfSlots DEF TypeOK, Victim
<1>2. Cardinality(occupied') = Cardinality(occupied) - 1
  BY <1>1, FS_RemoveElement
<1>3. child[cur] \in ChildPC
  BY <1>1 DEF TypeOK
<1>4. Remains(child[cur]) \in VictimPC
  BY <1>3 DEF Remains, ChildPC, VictimPC
<1>5. victim' \in [Slots -> VictimPC]
  BY <1>4 DEF Terminate, TypeOK
<1>6. child' \in [Slots -> ChildPC]
  BY DEF Terminate, TypeOK, ChildPC
<1>7. TypeOK'
  BY <1>1, <1>5, <1>6, PoolAssumption DEF Terminate, TypeOK, Victim, ParentPC
<1>. QED
  BY <1>2, <1>7 DEF TypeOK, Accounting, Counted, Reloaded, Victim

LEMMA InvStep == PoolInv /\ [Next]_vars => PoolInv'
<1>. SUFFICES ASSUME PoolInv, [Next]_vars PROVE PoolInv'
  OBVIOUS
<1>1. CASE Connect \/ \E s \in Slots : Child(s) \/ VictimRuns(s)
  BY <1>1, ChildKeepsInv
<1>2. CASE Fill \/ AddCall
  BY <1>2, AddKeepsInv DEF Fill, AddCall
<1>3. CASE ScanVacant \/ ScanDead \/ ScanLive \/ ScanReload
  BY <1>3, ScanKeepsInv
<1>4. CASE \/ FillDone \/ Suspend \/ ScanDone \/ DelCall \/ DelDone \/ Pick
           \/ AddDone
  BY <1>4, ControlKeepsInv
<1>5. CASE Kill
  BY <1>5, KillKeepsInv
<1>6. CASE UNCHANGED vars
  BY <1>6 DEF vars, tableVars, lateVars, scanVars, countVars, PoolInv, TypeOK,
     Accounting, Counted, Reloaded, Victim, Seen
<1>. QED
  BY <1>1, <1>2, <1>3, <1>4, <1>5, <1>6 DEF Next, Parent

THEOREM PoolInvariant == Spec => []PoolInv
<1>. QED
  BY InvInit, InvStep, PTL DEF Spec

\* Every counter of the parent stays within the table, whatever the children
\* do while scan_pool counts them.
THEOREM PoolTypeCorrect == Spec => []TypeOK
<1>1. PoolInv => TypeOK
  BY DEF PoolInv
<1>. QED
  BY <1>1, PoolInvariant, PTL

\* idle_count + busy_count is the number of slots in use whenever main decides
\* or a loop of main runs: add_1_server's first test can never admit a child
\* when the table is full, nor refuse one when it is not.
THEOREM PoolAccounting == Spec => []Accounting
<1>1. PoolInv => Accounting
  BY DEF PoolInv
<1>. QED
  BY <1>1, PoolInvariant, PTL

-----------------------------------------------------------------------------
(* What the parent knows of a table that children, and processes it has    *)
(* sent SIGTERM, write while it reads it.  If no signal is pending, no     *)
(* child has gone on to serve unseen; and a victim that has yet to store   *)
(* stores nothing the slot does not say already, or finds a child there    *)
(* that has yet to store itself.                                           *)

\* No signal is pending and no child is about to send one.
Calm == ~pending /\ \A s \in Slots : child[s] \in {"gone", "accept", "serve"}

\* A slot whose victim has not stored yet has not been overwritten yet.
NotYetOverwritten ==
  \A s \in occupied : victim[s] \in {"storeIdle", "storeBusy"} => Published(s)

CountedIdle ==
  pc \in {"scan", "reload"} /\ ~pending =>
    idle <= Cardinality(NotServing(Seen(cur)))

\* The loop over del_1_server stops at MAXSPARESERVER.
Surplus ==
  /\ pc = "del" => idle_count >= MAXSPARESERVER
  /\ pc \in {"pick", "kill"} => idle_count > MAXSPARESERVER

\* A child that was forked sends a signal, so a calm pool has forked none.
Missing ==
  Calm /\ ~forkFailed =>
    /\ pc = "fill" => i = 0 \/ occupied = Slots
    /\ pc = "add" => (i = 0 /\ idle_count < MINSPARESERVER) \/ occupied = Slots
    /\ pc = "suspended" => idle_count >= MINSPARESERVER \/ occupied = Slots

RestInv ==
  NotYetOverwritten /\ CountedIdle /\ NeverOvercounted /\ Surplus /\ Missing

\* A part of a set of slots has no more elements than the whole.
LEMMA SlotsGrow ==
  ASSUME NEW S, NEW T, S \subseteq T, T \subseteq Slots
  PROVE  /\ Cardinality(S) <= Cardinality(T)
         /\ Cardinality(S) \in Nat /\ Cardinality(T) \in Nat
<1>1. IsFiniteSet(T)
  BY SubsetOfSlots
<1>2. Cardinality(S) <= Cardinality(T)
  BY <1>1, FS_Subset
<1>3. Cardinality(S) \in 0 .. MAXCLIENTS /\ Cardinality(T) \in 0 .. MAXCLIENTS
  BY SubsetOfSlots
<1>. QED
  BY <1>2, <1>3, PoolAssumption

LEMMA RestInit == Init => RestInv
<1>. SUFFICES ASSUME Init PROVE RestInv
  OBVIOUS
<1>1. occupied = {} /\ pc = "fill" /\ i = 0 /\ idle_count = 0
  BY DEF Init
<1>2. NotServing(occupied) = {}
  BY <1>1 DEF NotServing
<1>3. NeverOvercounted
  BY <1>1, <1>2, FS_EmptySet DEF NeverOvercounted
<1>. QED
  BY <1>1, <1>3 DEF RestInv, NotYetOverwritten, CountedIdle, Surplus, Missing

-----------------------------------------------------------------------------
(* Steps of children, of victims and of clients: the counts stand still.   *)

\* While no slot comes to be served unseen, the counts remain good.
LEMMA CountsRemain ==
  ASSUME PoolInv, RestInv, ParentUntouched,
         \/ pending' \/ pc = "aborted"
         \/ /\ pending' = pending
            /\ \A s \in occupied :
                 (child[s] = "serve" => state[s] = "IDEL") =>
                   (child'[s] = "serve" => state'[s] = "IDEL")
  PROVE  CountedIdle' /\ NeverOvercounted' /\ Surplus'
<1>. USE DEF RestInv
<1>1. UNCHANGED <<occupied, pc, i, cur, idle, busy, idle_count, busy_count>>
  BY DEF ParentUntouched, scanVars, countVars
<1>2. Surplus'
  BY <1>1 DEF Surplus
<1>3. CASE pending' \/ pc = "aborted"
  BY <1>1, <1>2, <1>3 DEF CountedIdle, NeverOvercounted
<1>4. CASE ~(pending' \/ pc = "aborted")
  <2>1. occupied \subseteq Slots
    BY DEF PoolInv, TypeOK
  <2>. DEFINE After(S) == {s \in S : child'[s] = "serve" => state'[s] = "IDEL"}
  <2>2. ASSUME NEW S, S \subseteq occupied
        PROVE  /\ Cardinality(NotServing(S)) <= Cardinality(After(S))
               /\ Cardinality(NotServing(S)) \in Nat
               /\ Cardinality(After(S)) \in Nat
    <3>1. NotServing(S) \subseteq After(S)
      BY <1>4, <2>2, Zenon DEF NotServing
    <3>2. After(S) \subseteq Slots
      BY <2>1, <2>2
    <3>. QED
      BY <3>1, <3>2, SlotsGrow, Zenon
  <2>3. Seen(cur) \subseteq occupied /\ Seen(cur)' = Seen(cur)
    BY <1>1 DEF Seen
  <2>4. /\ NotServing(Seen(cur))' = After(Seen(cur))
        /\ NotServing(occupied)' = After(occupied)
    BY <1>1, <2>3 DEF NotServing
  <2>. HIDE DEF After
  <2>5. /\ Cardinality(NotServing(Seen(cur))) <= Cardinality(After(Seen(cur)))
        /\ Cardinality(NotServing(Seen(cur))) \in Nat
        /\ Cardinality(After(Seen(cur))) \in Nat
    BY <2>2, <2>3
  <2>6. /\ Cardinality(NotServing(occupied)) <= Cardinality(After(occupied))
        /\ Cardinality(NotServing(occupied)) \in Nat
        /\ Cardinality(After(occupied)) \in Nat
    BY <2>2
  <2>7. idle \in Nat /\ idle_count \in Nat /\ pending' = pending
    BY <1>4, PoolAssumption DEF PoolInv, TypeOK
  <2>8. CountedIdle'
    BY <1>1, <2>4, <2>5, <2>7 DEF CountedIdle
  <2>9. NeverOvercounted'
    BY <1>1, <2>4, <2>6, <2>7 DEF NeverOvercounted
  <2>. QED
    BY <1>2, <2>8, <2>9
<1>. QED
  BY <1>3, <1>4

\* A child changes its state and then sends a signal: until then the pool is not
\* calm, and then one is pending.
LEMMA ChildRests ==
  ASSUME PoolInv, RestInv, NEW s \in Slots, Child(s)
  PROVE  RestInv'
<1>1. ParentUntouched /\ UNCHANGED victim
  BY DEF Child, StoreIdle, StoreBusy, Notify, TellIdle, TellBusy, Accept,
     AcceptError, Serve, ParentUntouched, scanVars, countVars, tableVars, lateVars
<1>2. child \in [Slots -> ChildPC] /\ state \in [Slots -> {"IDEL", "BUSY"}]
  BY DEF PoolInv, TypeOK
<1>3. \A t \in Slots : t # s => child'[t] = child[t] /\ state'[t] = state[t]
  BY <1>2 DEF Child, StoreIdle, StoreBusy, Notify, TellIdle, TellBusy, Accept,
     AcceptError, Serve, tableVars
<1>4. /\ UNCHANGED <<occupied, forkFailed, pc, i, cur, idle_count>>
      /\ occupied \subseteq Slots
  BY <1>1 DEF ParentUntouched, scanVars, countVars, PoolInv, TypeOK
<1>5. Published(s) => Published(s)'
  <2>1. CASE StoreIdle(s) \/ StoreBusy(s)
    BY <1>2, <2>1 DEF StoreIdle, StoreBusy, Published
  <2>2. CASE TellIdle(s) \/ TellBusy(s)
    BY <1>2, <2>2 DEF TellIdle, TellBusy, Notify, tableVars, Published
  <2>3. CASE Accept(s) \/ AcceptError(s) \/ Serve(s)
    BY <1>2, <2>3 DEF Accept, AcceptError, Serve, tableVars, Published
  <2>. QED
    BY <2>1, <2>2, <2>3 DEF Child
<1>6. NotYetOverwritten'
  <2>1. \A t \in Slots : Published(t) => Published(t)'
    BY <1>3, <1>5 DEF Published
  <2>. QED
    BY <1>1, <1>4, <2>1 DEF NotYetOverwritten, RestInv
<1>7. CASE TellIdle(s) \/ TellBusy(s)
  <2>1. pending' \/ pc = "aborted"
    BY <1>7 DEF TellIdle, TellBusy, Notify, Raise
  <2>2. CountedIdle' /\ NeverOvercounted' /\ Surplus'
    BY <1>1, <2>1, CountsRemain
  <2>3. Missing'
    BY <1>4, <2>1 DEF Missing, Calm
  <2>. QED
    BY <1>6, <2>2, <2>3 DEF RestInv
<1>8. CASE ~(TellIdle(s) \/ TellBusy(s))
  <2>1. /\ pending' = pending
        /\ child'[s] \in {"tellIdle", "tellBusy", "storeBusy", "storeIdle", "gone"}
        /\ child'[s] = "gone" => child[s] = "accept"
    BY <1>2, <1>8 DEF Child, StoreIdle, StoreBusy, Accept, AcceptError, Serve
  <2>2. \A t \in occupied :
          (child[t] = "serve" => state[t] = "IDEL") =>
            (child'[t] = "serve" => state'[t] = "IDEL")
    BY <1>3, <1>4, <2>1
  <2>3. CountedIdle' /\ NeverOvercounted' /\ Surplus'
    BY <1>1, <2>1, <2>2, CountsRemain
  <2>4. Calm' => Calm
    BY <1>3, <2>1 DEF Calm
  <2>5. Missing'
    BY <1>4, <2>4 DEF Missing, RestInv
  <2>. QED
    BY <1>6, <2>3, <2>5 DEF RestInv
<1>. QED
  BY <1>7, <1>8

\* A victim stores BUSY over the state of a child only if the child has yet to
\* store, or says so already; then it tells the parent, or has died.
LEMMA VictimRests ==
  ASSUME PoolInv, RestInv, NEW s \in Slots, VictimRuns(s)
  PROVE  RestInv'
<1>1. ParentUntouched /\ UNCHANGED child
  BY DEF VictimRuns, VictimStores, VictimTells, VictimAccepts, Die, ParentUntouched,
     scanVars, countVars, tableVars
<1>2. /\ victim \in [Slots -> VictimPC] /\ state \in [Slots -> {"IDEL", "BUSY"}]
      /\ UNCHANGED <<occupied, forkFailed, pc, i, cur, idle_count>>
      /\ occupied \subseteq Slots
  BY <1>1 DEF ParentUntouched, scanVars, countVars, PoolInv, TypeOK
<1>3. /\ \A t \in Slots : t # s => victim'[t] = victim[t] /\ state'[t] = state[t]
      /\ victim'[s] \in {"tell", "gone"}
  BY <1>2 DEF VictimRuns, VictimStores, VictimTells, VictimAccepts, Die, tableVars
<1>4. NotYetOverwritten'
  BY <1>1, <1>2, <1>3 DEF NotYetOverwritten, Published, RestInv
<1>5. CASE VictimTells(s)
  <2>1. pending' \/ pc = "aborted"
    BY <1>5 DEF VictimTells, Raise
  <2>2. CountedIdle' /\ NeverOvercounted' /\ Surplus'
    BY <1>1, <2>1, CountsRemain
  <2>3. Missing'
    BY <1>2, <2>1 DEF Missing, Calm
  <2>. QED
    BY <1>4, <2>2, <2>3 DEF RestInv
<1>6. CASE ~VictimTells(s)
  <2>1. pending' = pending
    BY <1>6 DEF VictimRuns, VictimStores, VictimAccepts, Die
  <2>2. s \in occupied /\ child[s] = "serve" /\ state'[s] # "IDEL" => state[s] # "IDEL"
    <3>1. CASE VictimStores(s)
      BY <1>2, <3>1 DEF VictimStores, RestInv, NotYetOverwritten, Published
    <3>2. CASE ~VictimStores(s)
      BY <1>6, <3>2 DEF VictimRuns, VictimAccepts, Die, tableVars
    <3>. QED
      BY <3>1, <3>2
  <2>3. \A t \in occupied :
          (child[t] = "serve" => state[t] = "IDEL") =>
            (child'[t] = "serve" => state'[t] = "IDEL")
    BY <1>1, <1>2, <1>3, <2>2
  <2>4. CountedIdle' /\ NeverOvercounted' /\ Surplus'
    BY <1>1, <2>1, <2>3, CountsRemain
  <2>5. Missing'
    BY <1>1, <1>2, <2>1 DEF Missing, Calm, RestInv
  <2>. QED
    BY <1>4, <2>4, <2>5 DEF RestInv
<1>. QED
  BY <1>5, <1>6

-----------------------------------------------------------------------------
(* Steps of the parent. *)

\* The loops that fork: a new child does not serve, and is about to send a
\* signal.
LEMMA AddRests ==
  ASSUME PoolInv, RestInv, pc \in {"fill", "add"}, i' = i + 1, add_1_server,
         UNCHANGED <<victim, pending, backlog, pc, cur, scanVars, busy_count>>
  PROVE  RestInv'
<1>. USE DEF RestInv
<1>1. child \in [Slots -> ChildPC] /\ state \in [Slots -> {"IDEL", "BUSY"}]
      /\ occupied \subseteq Slots /\ idle_count \in Nat
  BY PoolAssumption DEF PoolInv, TypeOK
<1>2. CountedIdle' /\ Surplus'
  BY DEF CountedIdle, Surplus
<1>3. CASE ForkOK
  <2>1. FreeSlot \in Slots \ occupied
    BY <1>3, FreeSlotIsFree DEF ForkOK, HasRoom, PoolInv, TypeOK
  <2>2. /\ child'[FreeSlot] = "storeIdle"
        /\ \A s \in Slots : s # FreeSlot => child'[s] = child[s] /\ state'[s] = state[s]
        /\ occupied' = occupied \cup {FreeSlot}
        /\ idle_count' = idle_count + 1
    BY <1>1, <1>3, <2>1 DEF ForkOK
  <2>3. Missing'
    BY <2>1, <2>2 DEF Missing, Calm
  <2>4. NotYetOverwritten'
    BY <1>1, <2>1, <2>2 DEF NotYetOverwritten, Published
  <2>5. NotServing(occupied)' = NotServing(occupied) \cup {FreeSlot}
    BY <1>1, <2>1, <2>2 DEF NotServing
  <2>6. NotServing(occupied) \subseteq Slots /\ FreeSlot \notin NotServing(occupied)
    BY <1>1, <2>1 DEF NotServing
  <2>7. /\ Cardinality(NotServing(occupied)') = Cardinality(NotServing(occupied)) + 1
        /\ Cardinality(NotServing(occupied)) \in Nat
    BY <2>5, <2>6, SubsetOfSlots, FS_AddElement, PoolAssumption
  <2>8. NeverOvercounted'
    BY <1>1, <2>2, <2>7 DEF NeverOvercounted
  <2>. QED
    BY <1>2, <2>3, <2>4, <2>8
<1>4. CASE ForkError
  <2>1. FreeSlot \in Slots \ occupied
    BY <1>4, FreeSlotIsFree DEF ForkError, HasRoom, PoolInv, TypeOK
  <2>2. /\ UNCHANGED <<child, occupied, idle_count>> /\ forkFailed'
        /\ \A s \in occupied : state'[s] = state[s]
    BY <1>1, <1>4, <2>1 DEF ForkError
  <2>3. NotYetOverwritten' /\ Missing'
    BY <2>2 DEF NotYetOverwritten, Published, Missing
  <2>4. NotServing(occupied)' = NotServing(occupied)
    BY <2>2 DEF NotServing
  <2>5. NeverOvercounted'
    BY <2>2, <2>4 DEF NeverOvercounted
  <2>. QED
    BY <1>2, <2>3, <2>5
<1>5. CASE PoolFull
  <2>1. occupied = Slots
    <3>1. CASE occupied # Slots
      <4>1. idle_count + busy_count >= MAXCLIENTS
        BY <1>5, <3>1, PoolAssumption DEF PoolFull, HasRoom, PoolInv, TypeOK
      <4>2. idle_count + busy_count = Cardinality(occupied)
        BY DEF PoolInv, Accounting
      <4>3. Cardinality(occupied) < MAXCLIENTS
        <5>1. Cardinality(occupied) < Cardinality(Slots)
          BY <1>1, <3>1, SlotsFinite, FS_Subset, SubsetOfSlots, PoolAssumption
        <5>. QED
          BY <5>1, SlotsFinite
      <4>. QED
        BY <4>1, <4>2, <4>3, PoolAssumption DEF PoolInv, TypeOK
    <3>. QED
      BY <3>1
  <2>2. UNCHANGED <<state, child, fresh, forkFailed, occupied, idle_count>>
    BY <1>5 DEF PoolFull
  <2>3. NotServing(occupied)' = NotServing(occupied)
    BY <2>2 DEF NotServing
  <2>. QED
    BY <1>2, <2>1, <2>2, <2>3
    DEF Missing, NotYetOverwritten, Published, NeverOvercounted
<1>. QED
  BY <1>3, <1>4, <1>5 DEF add_1_server

\* The loop of scan_pool: what it counts as idle does not serve.
LEMMA ScanRests ==
  ASSUME PoolInv, RestInv, ScanVacant \/ ScanDead \/ ScanLive \/ ScanReload
  PROVE  RestInv'
<1>. USE DEF RestInv, tableVars, lateVars, scanVars, countVars
<1>1. /\ pc \in {"scan", "reload"} /\ pc' \in {"scan", "reload", "aborted"}
      /\ UNCHANGED <<state, child, victim, pending>>
  BY DEF ScanVacant, ScanDead, ScanLive, CountIdle, CountBusy, ScanReload
<1>2. /\ occupied' \subseteq occupied /\ occupied \subseteq Slots
      /\ idle \in Nat
  BY PoolAssumption DEF ScanVacant, ScanDead, ScanLive, ScanReload, PoolInv, TypeOK
<1>3. NotYetOverwritten' /\ Surplus' /\ Missing' /\ NeverOvercounted'
  BY <1>1, <1>2 DEF NotYetOverwritten, Published, Surplus, Missing,
     NeverOvercounted
<1>4. CASE pc' = "aborted"
  BY <1>3, <1>4 DEF CountedIdle
<1>5. CASE ScanDead
  <2>1. /\ cur \in Slots /\ occupied' = occupied \ {cur} /\ cur' = cur + 1
        /\ idle' = idle
    BY <1>2, <1>5 DEF ScanDead
  <2>2. {s \in occupied \ {cur} : s < cur + 1} = Seen(cur)
    BY <1>2, <2>1, SeenRelease
  <2>3. Seen(cur)' = Seen(cur)
    BY <2>1, <2>2 DEF Seen
  <2>4. NotServing(Seen(cur))' = NotServing(Seen(cur))
    BY <1>1, <2>3 DEF NotServing
  <2>. QED
    BY <1>1, <1>3, <2>1, <2>4 DEF CountedIdle
<1>6. CASE ScanVacant \/ (ScanLive /\ CountBusy) \/ (ScanReload /\ pc' = "scan")
  <2>1. /\ idle' = idle /\ occupied' = occupied
        /\ cur' = cur \/ (cur' = cur + 1 /\ cur \in Slots)
    BY <1>2, <1>6 DEF ScanVacant, ScanLive, CountBusy, ScanReload, PoolInv, Reloaded
  <2>2. \A s \in Slots : s < cur => s < cur'
    BY <2>1, PoolAssumption DEF Slots
  <2>3. NotServing(Seen(cur)) \subseteq NotServing(Seen(cur))'
    BY <1>1, <1>2, <2>1, <2>2, Zenon DEF NotServing, Seen
  <2>4. NotServing(Seen(cur))' \subseteq Slots
    BY <1>2, <2>1 DEF NotServing, Seen
  <2>5. /\ Cardinality(NotServing(Seen(cur))) <= Cardinality(NotServing(Seen(cur))')
        /\ Cardinality(NotServing(Seen(cur))) \in Nat
        /\ Cardinality(NotServing(Seen(cur))') \in Nat
    BY <2>3, <2>4, SlotsGrow
  <2>6. CountedIdle'
    BY <1>1, <1>2, <2>1, <2>5 DEF CountedIdle
  <2>. QED
    BY <1>3, <2>6
<1>7. CASE ScanLive /\ CountIdle
  <2>1. /\ pc = "scan" /\ pc' = "scan" /\ cur' = cur + 1 /\ idle' = idle + 1
        /\ cur \in occupied /\ cur \in Slots /\ state[cur] = "IDEL"
        /\ occupied' = occupied
    BY <1>2, <1>7 DEF ScanLive, CountIdle
  <2>2. \A s \in occupied : ~(cur < cur) /\ (s < cur + 1 <=> s < cur \/ s = cur)
    BY <1>2, <2>1, SlotOrder
  <2>3. /\ NotServing(Seen(cur))' = NotServing(Seen(cur)) \cup {cur}
        /\ cur \notin NotServing(Seen(cur))
    BY <1>1, <2>1, <2>2, Zenon DEF NotServing, Seen
  <2>4. NotServing(Seen(cur)) \subseteq Slots
    BY <1>2 DEF NotServing, Seen
  <2>5. /\ Cardinality(NotServing(Seen(cur))') = Cardinality(NotServing(Seen(cur))) + 1
        /\ Cardinality(NotServing(Seen(cur))) \in Nat
    BY <2>3, <2>4, SubsetOfSlots, FS_AddElement, PoolAssumption
  <2>6. CountedIdle'
    BY <1>1, <1>2, <2>1, <2>5 DEF CountedIdle
  <2>. QED
    BY <1>3, <2>6
<1>. QED
  BY <1>4, <1>5, <1>6, <1>7 DEF ScanLive, ScanReload

\* The other steps of the parent.
LEMMA ControlRests ==
  ASSUME PoolInv, RestInv,
         FillDone \/ Suspend \/ ScanDone \/ DelCall \/ DelDone \/ Pick
           \/ AddDone
  PROVE  RestInv'
<1>. USE DEF RestInv, tableVars, lateVars, scanVars, countVars
<1>1. /\ UNCHANGED <<occupied, state, child, victim>>
      /\ Suspend \/ UNCHANGED <<pending, forkFailed>>
  BY DEF FillDone, Suspend, ScanDone, ScanReturns, DelCall, DelDone, Pick, AddDone
<1>2. NotYetOverwritten'
  BY <1>1 DEF NotYetOverwritten, Published
<1>3. /\ idle \in Nat /\ idle_count \in Nat /\ i \in Nat
      /\ MINSPARESERVER \in Nat /\ MAXSPARESERVER \in Nat
      /\ MINSPARESERVER <= MAXSPARESERVER
      /\ occupied \subseteq Slots
  BY PoolAssumption DEF PoolInv, TypeOK
<1>4. NotServing(occupied)' = NotServing(occupied)
  BY <1>1 DEF NotServing
<1>5. ASSUME idle_count' = idle_count, pending' = pending,
             pc \notin {"scan", "reload", "aborted"},
             pc' \notin {"scan", "reload", "aborted"}
      PROVE  CountedIdle' /\ NeverOvercounted'
  BY <1>4, <1>5 DEF CountedIdle, NeverOvercounted
<1>6. Suspend \/ (Calm' => Calm)
  BY <1>1 DEF Calm
<1>7. CASE FillDone \/ AddDone
  <2>1. /\ pc \in {"fill", "add"} /\ pc' = "suspended"
        /\ UNCHANGED <<idle_count, pending, forkFailed, occupied>>
        /\ pc = "fill" => i >= MINSPARESERVER
        /\ pc = "add" => i >= MINSPARESERVER - idle_count
    BY <1>7 DEF FillDone, AddDone, Report
  <2>2. Calm' => Calm
    BY <1>1, <2>1 DEF Calm
  <2>3. Missing'
    BY <1>3, <2>1, <2>2 DEF Missing
  <2>. QED
    BY <1>2, <1>5, <2>1, <2>3 DEF Surplus
<1>8. CASE DelDone
  <2>1. pc = "del" /\ pc' = "suspended" /\ UNCHANGED <<idle_count, pending>>
    BY <1>8 DEF DelDone, Report
  <2>2. Missing'
    BY <1>3, <2>1 DEF Missing, Surplus
  <2>. QED
    BY <1>2, <1>5, <2>1, <2>2 DEF Surplus
<1>9. CASE DelCall \/ Pick
  <2>1. /\ pc \in {"del", "pick"} /\ pc' \in {"del", "pick", "kill"}
        /\ UNCHANGED <<pending, idle_count>>
    BY <1>9 DEF DelCall, Pick
  <2>2. Surplus'
    BY <1>3, <1>9 DEF DelCall, Pick, Surplus
  <2>3. Missing'
    BY <2>1 DEF Missing
  <2>. QED
    BY <1>2, <1>5, <2>1, <2>2, <2>3
<1>10. CASE Suspend
  <2>1. pc' = "scan" /\ idle' = 0
    BY <1>10 DEF Suspend, PoolInv, Counted
  <2>2. NotServing(Seen(cur))' \subseteq Slots
    BY <1>1, <1>3 DEF NotServing, Seen
  <2>3. Cardinality(NotServing(Seen(cur))') \in Nat
    BY <2>2, SlotsGrow
  <2>. QED
    BY <1>2, <2>1, <2>3 DEF CountedIdle, NeverOvercounted, Surplus, Missing
<1>11. CASE ScanDone
  <2>1. /\ pc = "scan" /\ cur = MAXCLIENTS /\ idle_count' = idle
        /\ pending' = pending
        /\ \/ idle > MAXSPARESERVER /\ pc' = "del" /\ i' = 0
           \/ idle < MINSPARESERVER /\ pc' = "add" /\ i' = 0
           \/ idle \in MINSPARESERVER .. MAXSPARESERVER /\ pc' = "suspended"
    BY <1>11 DEF ScanDone, ScanReturns, Report
  <2>2. Seen(cur) = occupied
    BY <1>3, <2>1, SeenEnds
  <2>3. ~pending => idle <= Cardinality(NotServing(occupied))
    BY <2>1, <2>2 DEF CountedIdle
  <2>4. CountedIdle' /\ NeverOvercounted'
    BY <1>4, <2>1, <2>3 DEF CountedIdle, NeverOvercounted
  <2>5. Surplus'
    BY <1>3, <2>1 DEF Surplus
  <2>6. Missing'
    BY <1>3, <2>1 DEF Missing
  <2>. QED
    BY <1>2, <2>4, <2>5, <2>6
<1>. QED
  BY <1>7, <1>8, <1>9, <1>10, <1>11

\* A victim is counted off, whether or not it was idle when it was counted.
LEMMA KillRests ==
  ASSUME PoolInv, RestInv, Kill
  PROVE  RestInv'
<1>. USE DEF RestInv
<1>1. /\ pc = "kill" /\ pc' = "del" /\ idle_count' = idle_count - 1
      /\ occupied' = occupied \ {cur} /\ UNCHANGED <<state, pending>>
      /\ child' = [child EXCEPT ![cur] = "gone"]
  BY DEF Kill, Terminate
<1>2. /\ cur \in occupied /\ occupied \subseteq Slots
      /\ child \in [Slots -> ChildPC] /\ victim \in [Slots -> VictimPC]
      /\ idle_count \in Nat /\ MAXSPARESERVER \in Nat
  BY <1>1, PoolAssumption DEF PoolInv, TypeOK, Victim
<1>3. \A s \in occupied' : s \in occupied /\ child'[s] = child[s]
                             /\ victim'[s] = victim[s]
  BY <1>1, <1>2 DEF Kill, Terminate
<1>4. NotYetOverwritten'
  BY <1>1, <1>3 DEF NotYetOverwritten, Published
<1>5. CountedIdle' /\ Surplus' /\ Missing'
  BY <1>1, <1>2 DEF CountedIdle, Surplus, Missing
<1>6. NotServing(occupied)' = NotServing(occupied) \ {cur}
  BY <1>1, <1>3 DEF NotServing
<1>7. NotServing(occupied) \subseteq Slots /\ NotServing(occupied)' \subseteq Slots
  BY <1>2, <1>6 DEF NotServing
<1>8. /\ IsFiniteSet(NotServing(occupied))
      /\ Cardinality(NotServing(occupied)) \in Nat
      /\ Cardinality(NotServing(occupied)') \in Nat
  BY <1>7, SubsetOfSlots, PoolAssumption
<1>9. Cardinality(NotServing(occupied)') >= Cardinality(NotServing(occupied)) - 1
  BY <1>6, <1>8, FS_RemoveElement
<1>10. NeverOvercounted'
  BY <1>1, <1>2, <1>8, <1>9 DEF NeverOvercounted
<1>. QED
  BY <1>4, <1>5, <1>10

LEMMA RestStep == PoolInv /\ RestInv /\ [Next]_vars => RestInv'
<1>. SUFFICES ASSUME PoolInv, RestInv, [Next]_vars PROVE RestInv'
  OBVIOUS
<1>1. CASE \E s \in Slots : Child(s) \/ VictimRuns(s)
  BY <1>1, ChildRests, VictimRests
<1>2. CASE Fill \/ AddCall
  BY <1>2, AddRests DEF Fill, AddCall
<1>3. CASE ScanVacant \/ ScanDead \/ ScanLive \/ ScanReload
  BY <1>3, ScanRests
<1>4. CASE \/ FillDone \/ Suspend \/ ScanDone \/ DelCall \/ DelDone \/ Pick
           \/ AddDone
  BY <1>4, ControlRests
<1>5. CASE Kill
  BY <1>5, KillRests
<1>6. CASE Connect \/ UNCHANGED vars
  <2>1. UNCHANGED <<occupied, state, child, victim, forkFailed, pending, pc, i,
                    cur, idle, idle_count>>
    BY <1>6 DEF Connect, vars, tableVars, lateVars, scanVars, countVars
  <2>. QED
    BY <2>1 DEF RestInv, NotYetOverwritten, Published, CountedIdle,
       NeverOvercounted, Surplus, Missing, Calm, NotServing, Seen
<1>. QED
  BY <1>1, <1>2, <1>3, <1>4, <1>5, <1>6 DEF Next, Parent

\* With no signal pending the parent never takes more children for idle than do
\* not serve, for every size of the table and all thresholds, although children
\* and processes it has sent SIGTERM store while it reads.
THEOREM PoolNeverOvercounted == Spec => []NeverOvercounted
<1>1. RestInv => NeverOvercounted
  BY DEF RestInv
<1>. QED
  BY <1>1, RestStep, RestInit, PoolInvariant, PTL DEF Spec

\* In a pool at rest that nothing untold has disturbed, who does not serve
\* stands by.
LEMMA RestingStandBy ==
  ASSUME PoolInv, RestInv, Quiescent, Undisturbed
  PROVE  EnoughSpare
<1>1. /\ idle_count >= MINSPARESERVER \/ occupied = Slots
      /\ idle_count <= Cardinality(NotServing(occupied))
  BY DEF RestInv, Missing, NeverOvercounted, Quiescent, Undisturbed, Calm
<1>2. occupied \subseteq Slots /\ idle_count \in Nat /\ MINSPARESERVER \in Nat
  BY PoolAssumption DEF PoolInv, TypeOK
<1>3. NotServing(occupied) \subseteq IdleServers
  BY <1>2 DEF NotServing, IdleServers, Quiescent, Undisturbed, Published
<1>4. IdleServers \subseteq Slots
  BY <1>2 DEF IdleServers
<1>5. /\ Cardinality(NotServing(occupied)) <= Cardinality(IdleServers)
      /\ Cardinality(NotServing(occupied)) \in Nat
      /\ Cardinality(IdleServers) \in Nat
  BY <1>3, <1>4, SlotsGrow
<1>. QED
  BY <1>1, <1>2, <1>5 DEF EnoughSpare

\* No notification is lost, for every size of the table, all thresholds and
\* whatever fails: once nothing untold disturbs the pool, it has at rest
\* MINSPARESERVER children standing by or a full table.
THEOREM PoolStandbyAtRest == Spec => []StandbyAtRest
<1>1. PoolInv /\ RestInv => StandbyAtRest
  BY RestingStandBy DEF StandbyAtRest
<1>. QED
  BY <1>1, RestStep, RestInit, PoolInvariant, PTL DEF Spec
=============================================================================
