------------------------------ MODULE MemFiles ------------------------------
(***************************************************************************)
(* Local files in a document (clients/memfiles.py): doc_pack writes a      *)
(* document of one section per file, each a code block, and doc_unpack     *)
(* gets the files out again, from the document as it then is.              *)
(***************************************************************************)
EXTENDS Documents, Integers

CONSTANTS
    Contents,    \* what files hold: pieces of split("\n"), and their line ends
    Packs,       \* files to pack, in the order they are collected
    Preambles    \* what may stand above them; <<>> is none

ASSUME ContentsAssumption ==
    /\ Contents \subseteq [pieces : Seq(Piece) \ {<<>>}, eol : {"none", "lf", "crlf", "mixed"}]
    /\ \A c \in Contents : c.eol = "none" <=> Len(c.pieces) = 1

ASSUME PacksAssumption ==
    /\ Preambles \subseteq Seq(Piece)
    /\ Packs \subseteq Seq([name : Name, file : Contents]) \ {<<>>}
    /\ \A fs \in Packs : \A i, j \in DOMAIN fs : fs[i].name = fs[j].name => i = j

NoFile == [pieces |-> <<>>, eol |-> "none"]

VARIABLE packed   \* history: the files that doc_unpack should still find

files == <<text, seen, did, edits, packed>>

FilesInit == Init /\ packed = [n \in Name |-> NoFile]

(***************************************************************************)
(* The format                                                              *)
(***************************************************************************)
\* ESC_RE
IsFence(l) ==
    LET p == Parts(l)
    IN  \/ p[1][1] = "fence"
        \/ /\ p[1][1] \in {"blank", "space"}
           /\ \E i \in 2..Len(p) : Toggles(p[i]) /\ \A j \in 2..(i - 1) : IsBlank(p[j])

\* A piece with k backslashes more in front
Slashed(l, k) ==
    LET p == [Parts(l) EXCEPT ![1][2] = @ + k]
    IN  IF l[1] \in {"cut", "cr"} THEN <<l[1], p>> ELSE p[1]

\* Seeded fault: only what the server takes for a fence is escaped.
EscapeFew(l) == IF Toggles(l) THEN Slashed(l, 1) ELSE l

Escape(l) == IF IsFence(l) THEN Slashed(l, 1) ELSE l
Unescape(l) == IF IsFence(l) /\ Parts(l)[1][2] > 0 THEN Slashed(l, -1) ELSE l

\* What a fence says: what follows it in its piece
Says(l) ==
    LET p == Parts(l)
        i == Min({i \in DOMAIN p : p[i][1] = "fence"})
    IN  p[i][3] \union (IF \A j \in (i + 1)..Len(p) : IsBlank(p[j]) THEN {} ELSE {"word"})

\* What _pack_section writes below the heading.  A text that is nothing but a
\* line end has no lines.
Coded(c) ==
    LET ends == Len(c.pieces) > 1 /\ Last(c.pieces) = Blank
        cut == IF ends THEN Front(c.pieces) ELSE c.pieces
        body == IF cut = <<Blank>> THEN <<>> ELSE cut
        flags == (IF c.eol \in {"crlf", "mixed"} THEN {"crlf"} ELSE {})
                 \union (IF ~ends /\ c.pieces # <<Blank>> THEN {"noeol"} ELSE {})
                 \union (IF \E i \in DOMAIN body : IsFence(body[i]) THEN {"esc"} ELSE {})
    IN  <<Fence(0, flags)>> \o [i \in DOMAIN body |-> Escape(body[i])] \o <<Fence(0, {})>>

PackSection(n, c) == <<Heading(n)>> \o Coded(c) \o <<Blank>>

\* _unpack_section, of the lines below a heading: NoFile, or the file.
Unpack(lines) ==
    LET full == {i \in DOMAIN lines : ~IsBlank(lines[i])}
        i == Min(full)
        j == Max(full)
        flags == Says(lines[i])
        kept == SubSeq(lines, i + 1, j - 1)
        body == IF "esc" \in flags THEN [k \in DOMAIN kept |-> Unescape(kept[k])] ELSE kept
        pieces == (IF body = <<>> THEN <<Blank>> ELSE body)
                  \o (IF "noeol" \notin flags /\ body # <<>> THEN <<Blank>> ELSE <<>>)
        eol == IF Len(pieces) = 1 THEN "none" ELSE IF "crlf" \in flags THEN "crlf" ELSE "lf"
    IN  IF full = {} \/ i = j \/ ~Toggles(lines[i]) \/ ~Toggles(lines[j]) \/ Says(lines[j]) # {}
        THEN NoFile ELSE [pieces |-> pieces, eol |-> eol]

\* _sections, on the pieces: where a section begins and what it is called
ClientStarts(t) == Ordered({i \in DOMAIN t : IsHead(t[i]) /\ ~Fenced(t, i)})
ClientNames(t) == LET hs == ClientStarts(t) IN [p \in DOMAIN hs |-> NameOf(t[hs[p]])]

\* The file of that name, of the section by that name that comes last
Unpacked(n) ==
    LET hs == ClientStarts(text)
        mine == {p \in DOMAIN hs : NameOf(text[hs[p]]) = n}
        p == Max(mine)
    IN  IF mine = {} THEN NoFile
        ELSE Unpack(SubSeq(text, hs[p] + 1, IF p < Len(hs) THEN hs[p + 1] - 1 ELSE Len(text)))

(***************************************************************************)
(* Packing, and edits of the document by others                            *)
(***************************************************************************)
Has(c, kind) == \E i \in DOMAIN c.pieces : c.pieces[i][1] = kind

\* What the format can hold: no mixed line ends, no bare carriage return, and
\* not a line end alone
Held(c) == c.eol # "mixed" /\ ~Has(c, "cr") /\ c.pieces # <<Blank, Blank>>

\* What does not disturb its neighbours: a preamble without a heading or an open
\* fence, and no file with a fence in a line that normalise_body breaks
Calm(t) == Headers(t) = {} /\ ~Fenced(t, Len(t) + 1)
Tame(c) ==
    \A i \in DOMAIN c.pieces : c.pieces[i][1] = "cr" =>
        \A j \in DOMAIN c.pieces[i][2] : ~Toggles(c.pieces[i][2][j])
Peaceful(pre, fs) == Calm(Normalise(pre)) /\ \A i \in DOMAIN fs : Tame(fs[i].file)

Above(pre) == IF pre = <<>> THEN <<>> ELSE Append(pre, Blank)

\* t_doc_pack, of any number of files.  The parts are joined by a line end.
Pack(pre, fs) ==
    /\ PutWhole(Above(pre) \o FlattenSeq([i \in DOMAIN fs |-> PackSection(fs[i].name, fs[i].file)]))
    /\ packed' = [n \in Name |->
            IF Peaceful(pre, fs) /\ \E i \in DOMAIN fs : fs[i].name = n /\ Held(fs[i].file)
            THEN fs[CHOOSE i \in DOMAIN fs : fs[i].name = n].file ELSE NoFile]

\* What the client and the server take for the same text: beside a cut there is
\* no fence and nothing that looks like a heading.
Alike(t) ==
    \A i \in DOMAIN t : t[i][1] = "cut" =>
        \A j \in DOMAIN t[i][2] : LET l == t[i][2][j] IN l # Hash /\ ~IsHead(l) /\ ~Toggles(l)

\* An edit that should not touch file n: of other sections, with a body that is
\* sound, in a document that is alike to both.  A file with a cut in it is out of
\* luck: splitlines makes line ends of them all.
Spares(n) ==
    did'.done =>
        /\ n \notin {did'.name, did'.expected}
        /\ did'.op = "put" => did'.sound
        /\ Alike(text) /\ ~Has(packed[n], "cut")

\* Another client writes or deletes a section.
SomeEdit ==
    /\ Edit
    /\ packed' = [n \in Name |-> IF Spares(n) THEN packed[n] ELSE NoFile]

FilesNext ==
    \/ \E pre \in Preambles, fs \in Packs : Pack(pre, fs)
    \/ SomeEdit

FilesSpec == FilesInit /\ [][FilesNext]_files

(***************************************************************************)
(* Properties                                                              *)
(***************************************************************************)
\* A packed file unpacks to the same bytes, whatever its lines look like and
\* whatever is packed with it, and still does after other sections of the document
\* were written, added, renamed or deleted.  Excepted, because the code loses them:
\* files the format cannot hold (Held), what is packed beside a preamble or a file
\* that Peaceful rules out, and after an edit the files it does not spare (Spares:
\* its body unsound, a cut in the file, a fence or a heading beside a cut anywhere).
PackedComesBack == \A n \in Name : packed[n] # NoFile => Unpacked(n) = packed[n]

\* Why: a file's section is the only one of its name, and its body is as it was
\* written, in the pieces that the client sees and, where client and server see the
\* same, in the lines that an edit starts from.
Sits(s, n, body) ==
    \E p \in DOMAIN s : /\ s[p] = [name |-> n, body |-> body]
                        /\ \A q \in DOMAIN s : s[q].name = n => q = p

PackInv ==
    \A n \in Name : packed[n] # NoFile =>
        /\ Sits(SectionsOf(text), n, Coded(packed[n]))
        /\ Alike(text) =>
            /\ ~seen.open
            /\ ~Has(packed[n], "cut") => Sits(seen.sections, n, Coded(packed[n]))

\* The server's own ways of finding a section agree; and the client names the
\* sections as the server does, but only as long as the text is Alike ("section
\* names here always agree with what ?section= addresses" is more than is true).
SectionsAgree ==
    /\ BoundsAgree
    /\ Alike(text) => LET spans == Spans(SplitLines(text))
                      IN  ClientNames(text) = [p \in DOMAIN spans |-> spans[p][3]]
=============================================================================
