--------------------------- MODULE WorkDistribution ---------------------------
(***************************************************************************)
(* What the prime-number pools of chapter 31 promise: every number is      *)
(* taken by one worker, once, and tested by the worker that took it.       *)
(***************************************************************************)
EXTENDS TLAPS

CONSTANTS
  Workers,
  Items,
  NoItem     \* what an idle worker holds

VARIABLES
  todo,      \* items nobody has taken
  doing,     \* the item each worker holds
  done       \* items whose test is complete

vars == <<todo, doing, done>>

Init ==
  /\ todo = Items
  /\ doing = [w \in Workers |-> NoItem]
  /\ done = {}

Take(w) ==
  /\ doing[w] = NoItem
  /\ \E n \in todo :
       /\ todo' = todo \ {n}
       /\ doing' = [doing EXCEPT ![w] = n]
  /\ UNCHANGED done

Finish(w) ==
  /\ doing[w] # NoItem
  /\ done' = done \cup {doing[w]}
  /\ doing' = [doing EXCEPT ![w] = NoItem]
  /\ UNCHANGED todo

Next == \E w \in Workers : Take(w) \/ Finish(w)

Spec == Init /\ [][Next]_vars

TypeOK ==
  /\ todo \subseteq Items
  /\ doing \in [Workers -> Items \cup {NoItem}]
  /\ done \subseteq Items

\* No item is tested twice: no two workers hold the same one, and none holds
\* what is still to be taken or already finished (the slot `num` of the code
\* is emptied by the thread that copies it).
ExactlyOnce ==
  /\ todo \cap done = {}
  /\ \A w \in Workers : doing[w] \notin todo \cup done
  /\ \A v, w \in Workers : doing[v] = doing[w] /\ doing[v] # NoItem => v = w

-----------------------------------------------------------------------------
\* ExactlyOnce needs no strengthening beyond the types.
THEOREM WorkExactlyOnce ==
  ASSUME NoItem \notin Items
  PROVE  Spec => [](TypeOK /\ ExactlyOnce)
<1>1. Init => TypeOK /\ ExactlyOnce
  BY DEF Init, TypeOK, ExactlyOnce
<1>2. TypeOK /\ ExactlyOnce /\ [Next]_vars => (TypeOK /\ ExactlyOnce)'
  <2>. SUFFICES ASSUME TypeOK, ExactlyOnce, [Next]_vars
                PROVE  TypeOK' /\ ExactlyOnce'
    OBVIOUS
  <2>. USE DEF TypeOK, ExactlyOnce
  <2>1. ASSUME NEW w \in Workers, Take(w)
        PROVE  TypeOK' /\ ExactlyOnce'
    BY <2>1 DEF Take
  <2>2. ASSUME NEW w \in Workers, Finish(w)
        PROVE  TypeOK' /\ ExactlyOnce'
    BY <2>2 DEF Finish
  <2>3. CASE UNCHANGED vars
    BY <2>3 DEF vars
  <2>. QED
    BY <2>1, <2>2, <2>3 DEF Next
<1>. QED
  BY <1>1, <1>2, PTL DEF Spec
=============================================================================
