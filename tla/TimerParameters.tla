---------------------------- MODULE TimerParameters ----------------------------
(* The parameters of AnyTimer, and the jobs its table holds. *)
EXTENDS Integers

CONSTANTS
  JOB_MAX,   \* length of the table `job`
  Secs,      \* the delays that callers ask for
  MaxSec,    \* bound: the longest of them
  NoJob      \* a NULL entry of `job`

ASSUME TimerAssumption ==
  /\ JOB_MAX \in Nat /\ MaxSec \in Nat
  /\ Secs \subseteq 0 .. MaxSec

Ids == 0 .. JOB_MAX - 1
Jobs == [state : {"running", "over"}, sec : Secs, remain : -1 .. MaxSec,
         repeat : BOOLEAN]

ASSUME NoJobAssumption == NoJob \notin Jobs
=============================================================================
