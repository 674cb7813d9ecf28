------------------------------- MODULE MCLease -------------------------------
(***************************************************************************)
(* Small instances of Lease for TLC: one or two public hostnames.          *)
(***************************************************************************)
EXTENDS Lease, TLC

CONSTANTS h1, h2, c1, c2

Symm == Permutations(Host) \union Permutations(Commit)
=============================================================================
