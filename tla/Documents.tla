----------------------------- MODULE Documents ------------------------------
(***************************************************************************)
(* Section edits: the text of one document, as the section functions of    *)
(* main.py read and write it, line by line.                                *)
(*                                                                         *)
(* A text is what split("\n") makes of it: its last piece is blank when it *)
(* ends with a line end.  A piece is a plain line, of one of a few kinds,  *)
(* or has several in it: a "cut" piece holds characters that splitlines    *)
(* takes for line ends and split does not (U+2028, a form feed), a "cr"    *)
(* piece bare carriage returns.  Such a piece has its plain lines as its   *)
(* parts.  A piece with both kinds of characters in it is left out.        *)
(***************************************************************************)
EXTENDS Naturals, Sequences, FiniteSets, FiniteSetsExt, SequencesExt

CONSTANTS
    Name, NoName,    \* section names
    Texts,           \* documents as they may be found
    Blocks,          \* bodies of section writes
    MaxEdits         \* bound: section edits

VARIABLES
    text,
    seen,            \* history: the text as its readers get it
    did,             \* history: the last request and whether it was done
    edits            \* history: section edits made

Blank == <<"blank", 0>>
Space == <<"space", 0>>
Line  == <<"line">>
Hash  == <<"hash">>                                    \* ## and no more
Heading(n) == <<"head", n>>
Fence(escapes, flags) == <<"fence", escapes, flags>>   \* ``` behind that many backslashes

Flags == {"crlf", "noeol", "esc", "word"}      \* what an opening fence may say

\* What a line is to splitlines, to split in a document, and in a file.  Blanks
\* behind backslashes are no blanks.
Plain ==
    {Line, Hash} \union ({"blank", "space"} \X Nat) \union ({"head"} \X Name)
    \union ({"fence"} \X Nat \X SUBSET Flags)
Written == Plain \union ({"cut"} \X {p \in Seq(Plain) : Len(p) > 1})
Piece == Written \union ({"cr"} \X (Seq(Plain) \ {<<>>}))

Parts(l) == IF l[1] \in {"cut", "cr"} THEN l[2] ELSE <<l>>

(***************************************************************************)
(* What a pattern takes a piece for.  To \s the characters in question are *)
(* blanks like others, and "." matches them.                               *)
(***************************************************************************)
IsBlank(l) == \A i \in DOMAIN Parts(l) : Parts(l)[i] \in {Blank, Space}

\* FENCE_RE
Toggles(l) ==
    LET p == Parts(l)
    IN  \E i \in DOMAIN p : /\ p[i][1] = "fence" /\ p[i][2] = 0
                            /\ \A j \in 1..(i - 1) : p[j] \in {Blank, Space}

\* SECTION_RE; a heading that goes on behind a cut has a name of its own.
IsHead(l) == Parts(l)[1][1] = "head" \/ (Parts(l)[1] = Hash /\ l # Hash)
NameOf(l) ==
    LET p == Parts(l)
    IN  IF p[1][1] = "head" /\ \A i \in 2..Len(p) : p[i] \in {Blank, Space} THEN p[1][2] ELSE NoName

\* A text is normalised and has a line at least, maybe blank; the body of a
\* section write has gone through splitlines too.
ASSUME DocumentAssumption == Texts \subseteq Seq(Written) \ {<<>>} /\ Blocks \subseteq Seq(Plain)

(***************************************************************************)
(* Text and lines                                                          *)
(***************************************************************************)
\* The parts of pieces of a kind become pieces.
Split(t, kind) == FlattenSeq([i \in DOMAIN t |-> IF t[i][1] = kind THEN t[i][2] ELSE <<t[i]>>])

NoEnd(t) == IF Last(t) = Blank THEN Front(t) ELSE t

SplitLines(t) == NoEnd(Split(t, "cut"))

\* "\n".join, and a line end unless there is one
Joined(lines) ==
    LET t == IF lines = <<>> THEN <<Blank>> ELSE lines
    IN  IF Len(t) > 1 /\ Last(t) = Blank THEN t ELSE Append(t, Blank)

\* normalise_body, of line ends
Normalise(t) == Split(t, "cr")

(***************************************************************************)
(* Where a section is: four computations of it                             *)
(***************************************************************************)
\* fence_mask, of a line that is no delimiter itself
Fenced(lines, i) == Cardinality({j \in 1..(i - 1) : Toggles(lines[j])}) % 2 = 1

\* section_headers
Headers(lines) == {i \in DOMAIN lines : IsHead(lines[i]) /\ ~Fenced(lines, i)}

\* The section's last line, but for trailing blanks
Trimmed(lines, start, end) ==
    Max({start} \union {i \in (start + 1)..end : ~IsBlank(lines[i])})

EndOf(lines, i) == Min({h - 1 : h \in {h \in Headers(lines) : h > i}} \union {Len(lines)})

\* find_section_bounds, which needs a heading of that name
Found(lines, n) == {i \in Headers(lines) : NameOf(lines[i]) = n}
Bounds(lines, n) ==
    LET i == Min(Found(lines, n)) IN <<i, Trimmed(lines, i, EndOf(lines, i))>>

\* section_bounds_at_index
BoundsAt(lines, idx) ==
    LET start == Max({1} \union {h \in Headers(lines) : h <= idx})
        above == {h \in Headers(lines) : h > idx}
    IN  <<start, Trimmed(lines, start, IF above = {} THEN Len(lines) ELSE Min(above) - 1)>>

\* section_at
NameAt(lines, idx) ==
    LET upto == {h \in Headers(lines) : h <= idx}
    IN  IF upto = {} THEN NoName ELSE NameOf(lines[Max(upto)])

\* A finite set of places, in order
Ordered(S) == [p \in 1..Cardinality(S) |-> CHOOSE i \in S : Cardinality({j \in S : j <= i}) = p]

\* Seeded fault: a section goes on to the next heading, blanks and all.
SpansUntrimmed(lines) ==
    LET hs == Ordered(Headers(lines))
    IN  [p \in DOMAIN hs |-> <<hs[p], IF p < Len(hs) THEN hs[p + 1] - 1 ELSE Len(lines), NameOf(lines[hs[p]])>>]

\* section_spans, but for the preamble
Spans(lines) ==
    LET hs == Ordered(Headers(lines))
        end(p) == IF p < Len(hs) THEN hs[p + 1] - 1 ELSE Len(lines)
    IN  [p \in DOMAIN hs |-> <<hs[p], Trimmed(lines, hs[p], end(p)), NameOf(lines[hs[p]])>>]

(***************************************************************************)
(* A document as its readers get it                                        *)
(***************************************************************************)
SectionsOf(lines) ==
    LET spans == Spans(lines)
    IN  [p \in DOMAIN spans |->
            [name |-> spans[p][3], body |-> SubSeq(lines, spans[p][1] + 1, spans[p][2])]]

UpTo(lines) == Min({h - 1 : h \in Headers(lines)} \union {Len(lines)})

See(t) ==
    LET lines == SplitLines(t)
        full == {i \in 1..UpTo(lines) : ~IsBlank(lines[i])}
    IN  [preamble |-> IF full = {} THEN <<>> ELSE SubSeq(lines, 1, Max(full)),
         sections |-> SectionsOf(lines),
         open     |-> Fenced(lines, Len(lines) + 1)]

\* One section, and no code block left open
Sound(block) == Headers(block) = {1} /\ ~Fenced(block, Len(block) + 1)

(***************************************************************************)
(* The edits                                                               *)
(***************************************************************************)
Fits(block, expected) == block # <<>> /\ block[1] = Heading(expected)

Ask(op, n, block, upsert, expected, done) ==
    LET fits == Fits(block, expected)
    IN  [op |-> op, name |-> n, upsert |-> upsert, expected |-> expected, done |-> done,
         fits |-> fits, sound |-> fits /\ Sound(block),
         new |-> IF fits THEN SectionsOf(block)[1] ELSE [name |-> NoName, body |-> <<>>]]

Unasked == Ask("none", NoName, <<>>, FALSE, NoName, FALSE)

Becomes(t) == text' = t /\ seen' = See(t)

Init == text \in Texts /\ seen = See(text) /\ did = Unasked /\ edits = 0

\* An absent section goes to the end, behind a blank line.
Appended(lines, block) ==
    lines \o (IF lines # <<>> /\ Last(lines) # Blank THEN <<Blank>> ELSE <<>>) \o block

\* Seeded fault: the line after the section goes with it.
ReplacedLong(lines, n, block) ==
    LET b == Bounds(lines, n)
    IN  SubSeq(lines, 1, b[1] - 1) \o block \o SubSeq(lines, b[2] + 2, Len(lines))

Replaced(lines, n, block) ==
    LET b == Bounds(lines, n)
    IN  SubSeq(lines, 1, b[1] - 1) \o block \o SubSeq(lines, b[2] + 1, Len(lines))

\* section_put_text, of a document that exists
PutSection(n, block, upsert, rename) ==
    LET lines == SplitLines(text)
        expected == IF rename = NoName THEN n ELSE rename
        absent == Found(lines, n) = {}
        done == Fits(block, expected) /\ (~absent \/ upsert)
    IN  /\ edits < MaxEdits
        /\ edits' = edits + 1
        /\ did' = Ask("put", n, block, upsert, expected, done)
        /\ Becomes(IF ~done THEN text
                   ELSE Joined(IF absent THEN Appended(lines, block) ELSE Replaced(lines, n, block)))

\* section_delete_text: one blank of two that meet goes, and a husk is refused.
Removed(lines, n) ==
    LET b == Bounds(lines, n)
        head == SubSeq(lines, 1, b[1] - 1)
        tail == SubSeq(lines, b[2] + 1, Len(lines))
        meet == head # <<>> /\ tail # <<>> /\ Last(head) = Blank /\ tail[1] = Blank
    IN  head \o (IF meet THEN Tail(tail) ELSE tail)

DeleteSection(n) ==
    LET lines == SplitLines(text)
        done == /\ Found(lines, n) # {}
                /\ \E i \in DOMAIN Removed(lines, n) : ~IsBlank(Removed(lines, n)[i])
    IN  /\ edits < MaxEdits
        /\ edits' = edits + 1
        /\ did' = Ask("delete", n, <<>>, FALSE, NoName, done)
        /\ Becomes(IF done THEN Joined(Removed(lines, n)) ELSE text)

Edit ==
    \/ \E n \in Name, block \in Blocks, upsert \in BOOLEAN, rename \in Name \union {NoName} :
        PutSection(n, block, upsert, rename)
    \/ \E n \in Name : DeleteSection(n)

\* put_doc of a whole text
PutWhole(t) ==
    /\ Becomes(Normalise(t))
    /\ did' = [Unasked EXCEPT !.op = "whole", !.done = TRUE]
    /\ UNCHANGED edits

(***************************************************************************)
(* Properties                                                              *)
(***************************************************************************)
Promise == INSTANCE Sections WITH
    preamble <- seen.preamble, sections <- seen.sections, open <- seen.open, asked <- did

\* An edit changes the section it names and no other: writing, renaming,
\* adding and deleting sections of the text are what Sections promises.
KeepsPromise == Promise!Spec

\* The section by name, the section around a line, the name above a line and
\* the spans of a search agree on every section ("GET/PUT/DELETE on a name all
\* agree on where the section actually ends").
BoundsAgree ==
    LET lines == SplitLines(text)
        spans == Spans(lines)
    IN  /\ \A p \in DOMAIN spans :
            /\ \A i \in spans[p][1]..EndOf(lines, spans[p][1]) :
                /\ BoundsAt(lines, i) = <<spans[p][1], spans[p][2]>>
                /\ NameAt(lines, i) = spans[p][3]
            /\ (\A q \in 1..(p - 1) : spans[q][3] # spans[p][3])
                => Bounds(lines, spans[p][3]) = <<spans[p][1], spans[p][2]>>
        /\ \A i \in 1..UpTo(lines) : BoundsAt(lines, i)[1] = 1 /\ NameAt(lines, i) = NoName
=============================================================================
