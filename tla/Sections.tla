------------------------------ MODULE Sections ------------------------------
(***************************************************************************)
(* What a section edit promises: a document is a preamble and a sequence   *)
(* of named sections, and an edit changes the one it names.                *)
(*                                                                         *)
(* Two things spoil it, and how far is part of the promise.  A text that   *)
(* is not sound - more headings than one, or a code fence left open -      *)
(* may change everything from its place on, and nothing before.  A         *)
(* document that ends inside a code fence swallows what is added to it.    *)
(***************************************************************************)
EXTENDS Naturals, Sequences, SequencesExt

VARIABLES
    preamble,   \* the lines above the first section
    sections,   \* [name, body], in document order
    open,       \* whether the document ends inside a code fence
    asked       \* the last request and whether it was done

Named(s, n) == {i \in DOMAIN s : s[i].name = n}

\* Duplicate names: the first one counts.
First(s, n) == LET is == Named(s, n) IN CHOOSE i \in is : \A j \in is : i <= j

\* The first k sections stay.
Kept(s, t, k) == Len(t) >= k /\ SubSeq(t, 1, k) = SubSeq(s, 1, k)

\* Section i of s becomes r, and the sections t.
Write(s, t, i, r) ==
    IF asked'.sound
    THEN t = ReplaceAt(s, i, r) /\ open' = (open /\ i # Len(s))
    ELSE Kept(s, t, i - 1) /\ Len(t) >= i /\ t[i].name = r.name

Add(s, t, r) ==
    CASE open -> s # <<>> => Kept(s, t, Len(s) - 1)
      [] ~open /\ asked'.sound -> t = Append(s, r) /\ ~open'
      [] OTHER -> Kept(s, t, Len(s)) /\ Len(t) > Len(s) /\ t[Len(s) + 1].name = r.name

Put ==
    /\ asked'.op = "put" /\ asked'.done /\ asked'.fits
    /\ LET s == sections  t == sections'  n == asked'.name IN
        /\ IF Named(s, n) # {} THEN Write(s, t, First(s, n), asked'.new)
                               ELSE asked'.upsert /\ Add(s, t, asked'.new)
        /\ preamble' = preamble \/ (open /\ s = <<>>)

Delete ==
    /\ asked'.op = "delete" /\ asked'.done
    /\ LET s == sections  n == asked'.name IN
        /\ Named(s, n) # {}
        /\ sections' = RemoveAt(s, First(s, n))
        /\ Len(s) > 1 \/ preamble # <<>>
        /\ open' = (open /\ First(s, n) # Len(s))
    /\ UNCHANGED preamble

\* Refused, and only for cause.
Refuse ==
    /\ ~asked'.done
    /\ LET s == sections  n == asked'.name IN
        \/ asked'.op = "put" /\ (~asked'.fits \/ (Named(s, n) = {} /\ ~asked'.upsert))
        \/ asked'.op = "delete" /\ (Named(s, n) = {} \/ (Len(s) = 1 /\ preamble = <<>>))
    /\ UNCHANGED <<preamble, sections, open>>

\* The whole document is replaced.
Whole == asked'.op = "whole"

Init == asked.op = "none"
Next == Put \/ Delete \/ Refuse \/ Whole
Spec == Init /\ [][Next]_<<preamble, sections, open, asked>>
=============================================================================
