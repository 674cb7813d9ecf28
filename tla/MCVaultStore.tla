---------------------------- MODULE MCVaultStore -----------------------------
(***************************************************************************)
(* Small instances of VaultStore for TLC.                                  *)
(***************************************************************************)
EXTENDS VaultStore, TLC

CONSTANTS c1, c2, c3, cat, doc, roster, proto, tmp,
          nul, one, two, crlf

\* two is the roster text that lists cat; crlf normalises to one.
MCNormalise == [b \in Content |-> IF b = crlf THEN one ELSE b]
\* Splicing a section text into a document: the text wins, except that the
\* crlf text has no heading and is refused.
MCSplice == [p \in Content \X Content |->
                IF p[1] = crlf \/ p[2] = nul THEN Refused ELSE p[1]]
\* Cutting a section of two leaves a shorter text; cutting the last section is
\* refused.
Shorter == IF one \in Content THEN one ELSE nul
MCCut == [p \in Content \X Content |-> IF p[2] = two THEN Shorter ELSE Refused]
MCLists == [b \in Content |-> IF b = two THEN {cat} \intersect Name ELSE {}]

Put(b) == [kind |-> "put", text |-> b]
Sec(b) == [kind |-> "section", text |-> b]
Del    == [kind |-> "delete", text |-> nul]
CutIt  == [kind |-> "cut", text |-> one]

IfMatch(b)  == [tags |-> {b}, create |-> FALSE]
IfAny       == [tags |-> {AnyTag}, create |-> FALSE]
Create      == [tags |-> {}, create |-> TRUE]
Bare        == [tags |-> {}, create |-> FALSE]

\* Contention on one file: every kind of edit, right and stale preconditions.
EditAll  == {Put(one), Put(crlf), Sec(two), CutIt, Del}
MatchAll == {IfMatch(one), IfAny, Create}
\* Two files, one of them the roster that lets the other exist.
EditRoster  == {Put(two), Del}
MatchRoster == {IfAny, Create}
\* Liveness: one edit is enough, the store's contents do not matter.
EditLive == {Put(nul)}
MatchOne == {IfAny}

Sym == Permutations({c1, c2, c3} \intersect Client)
=============================================================================
