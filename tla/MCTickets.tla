----------------------------- MODULE MCTickets ------------------------------
(***************************************************************************)
(* Passes, tokens, and attempts to sign in, for TLC.  The three share the  *)
(* clock and nothing else: no step of one can disturb another, so the run  *)
(* explores each with the other two at rest.                               *)
(***************************************************************************)
EXTENDS Tickets, Attempts, TLC

CONSTANTS p1, p2, p3, k1, k2, k3

VARIABLE world

Worlds == {"passes", "tokens", "attempts"}

MCInit == Init /\ AttemptsInit /\ world \in Worlds

MCNext ==
    /\ UNCHANGED world
    /\ \/ /\ world = "passes"
          /\ Tick \/ Step(Pass)
          /\ UNCHANGED attempts
       \/ /\ world = "tokens"
          /\ Tick \/ Step(Token)
          /\ UNCHANGED attempts
       \/ /\ world = "attempts"
          /\ AttemptsNext
          /\ UNCHANGED tickets

MCSpec == MCInit /\ [][MCNext]_<<now, tickets, attempts, world>>

\* Passes and tokens are exchanged together: only one kind is in use.
Symm == {[x \in Ticket |->
            CASE x = p1 -> p2 [] x = p2 -> p1 [] x = k1 -> k2 [] x = k2 -> k1 [] OTHER -> x],
         [x \in Ticket |->
            CASE x = p1 -> p3 [] x = p3 -> p1 [] x = k1 -> k3 [] x = k3 -> k1 [] OTHER -> x]}
        \union Permutations(Caller) \union Permutations(Address)
=============================================================================
