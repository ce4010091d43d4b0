------------------------------- MODULE Clock -------------------------------
(***************************************************************************)
(* The wall clock of a daemon, now_millis.  Stored times are only compared *)
(* with the time that is read later, so each is kept as its age: the time  *)
(* read minus the time stored.  The wall clock may be set back, at most    *)
(* MaxSetBacks steps over a behaviour and all daemons; a stored time then  *)
(* lies in the future and its age is negative.                             *)
(***************************************************************************)
EXTENDS Integers

CONSTANT MaxSetBacks

VARIABLE setbacks

ASSUME ClockAssumption == MaxSetBacks \in Nat

ClockInit == setbacks = 0

\* now.saturating_sub(stored)
Elapsed(age) == IF age < 0 THEN 0 ELSE age

\* One clock step passes.  An age of `limit` and as many steps more as the
\* clock can be set back is as good as any greater one.
Older(age, limit) == IF age < limit + MaxSetBacks THEN age + 1 ELSE age

ClockSetBack == setbacks < MaxSetBacks /\ setbacks' = setbacks + 1
=============================================================================
