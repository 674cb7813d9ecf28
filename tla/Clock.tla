------------------------------- MODULE Clock --------------------------------
(***************************************************************************)
(* The clock of the service's memory stores, and how its requests read it. *)
(* An operation reads the clock and only then waits for its store's lock:  *)
(* when it acts its reading is up to Lag old, and two operations may act   *)
(* on readings in the wrong order.                                         *)
(***************************************************************************)
EXTENDS Integers, Sequences, FiniteSets

CONSTANTS
    Lag,          \* bound: how old a reading may be
    MaxTime       \* bound: the clock stops there

ASSUME ClockAssumption == Lag \in Nat /\ MaxTime \in Nat

VARIABLE now

Time == 0..MaxTime

\* What an operation that acts now may have read
Reading == {n \in Time : n <= now /\ now <= n + Lag}

Advance == now < MaxTime /\ now' = now + 1
=============================================================================
