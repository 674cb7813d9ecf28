------------------------------ MODULE MCAccess ------------------------------
(***************************************************************************)
(* Small instances of Access for TLC.  The two stores meet only in the     *)
(* keyver, so the run starts from two states that Spec reaches: every      *)
(* consent's code has been lost, or every key has been deleted.  From each *)
(* of them one store does all it can.                                      *)
(***************************************************************************)
EXTENDS Access, TLC

CONSTANTS k0, k1, k2, c1, c2, c3, g1, g2

\* The first two keys are given the same name.
Names == [k \in Key |-> IF k = k2 THEN "laptop" ELSE "phone"]

\* Clients and consents are interchangeable.
Swaps == Permutations({c1, c2, c3} \intersect Client)
             \union Permutations({g1, g2} \intersect Consent)

MCInit ==
    \E gone \in {Key, Consent} :
        /\ authfile = [kv |-> 1, ok |-> TRUE]
        /\ asked = [x \in Credential |-> 0]
        /\ keys = [mem |-> Legacy \ gone, disk |-> Legacy \ gone]
        /\ oauth = [mem |-> NoGrants, disk |-> NoGrants]
        /\ codes = {}
        /\ client = [c \in Consent |-> IF c \in gone THEN c1 ELSE NoClient]
        /\ stamp = [x \in Credential |-> IF x \in gone \ Legacy THEN 1 ELSE 0]
        /\ note = [x \in Credential |->
                     IF x \in gone THEN IF x \in Key THEN "dead" ELSE "lost"
                     ELSE IF x \in Legacy THEN "live" ELSE "none"]
        /\ told = [c \in Consent |-> 0]
        /\ late = {}
        /\ buried = {}

MCSpec == MCInit /\ [][Next]_vars
=============================================================================
