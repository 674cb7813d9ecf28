----------------------------- MODULE MCPasskeys ------------------------------
(***************************************************************************)
(* A small instance of Passkeys for TLC.                                   *)
(***************************************************************************)
EXTENDS Passkeys, TLC

CONSTANTS r1, r2, r3, r4, phone, laptop, tablet, h1, h2

\* The phone is registered; it may be deleted and registered again.
Creds == [r \in Rec |-> CASE r = r2 -> laptop [] r = r4 -> tablet [] OTHER -> phone]
Names == [r \in Rec |-> CASE r = r2 -> "Laptop" [] r = r4 -> "Tablet" [] OTHER -> "Phone"]

Swaps == Permutations(Challenge)
=============================================================================
