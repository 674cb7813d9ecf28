---------------------------- MODULE MCDocuments -----------------------------
(***************************************************************************)
(* Small documents and files for TLC.  Every short text is an initial      *)
(* state, so that one edit of each is every edit.                          *)
(***************************************************************************)
EXTENDS MemFiles

CONSTANTS alpha, beta, MaxPieces, MaxCut, MaxTail, MaxFile

Cut(parts) == <<"cut", parts>>
Cr(parts)  == <<"cr", parts>>
Tick == Fence(0, {})

\* Sequences of 1 to n of them
Some(S, n) == UNION {[1..k -> S] : k \in 1..n}

Lines == {Blank, Space, Line, Tick, Heading(alpha), Heading(beta)}

\* Pieces that are several lines to splitlines
Cuts ==
    {Cut(<<Line, Line>>), Cut(<<Line, Tick>>), Cut(<<Blank, Tick>>), Cut(<<Tick, Line>>),
     Cut(<<Line, Heading(beta)>>), Cut(<<Heading(beta), Line>>), Cut(<<Hash, Line>>), Cut(<<Line, Blank>>)}

\* A line of spaces has all the context it needs in one line less.
MCTexts ==
    Some(Lines, MaxPieces - 1) \union [1..MaxPieces -> Lines \ {Space}]
    \union Some((Lines \ {Space}) \union Cuts, MaxCut)

\* Bodies of section writes: a heading, or none, and what follows
MCBlocks ==
    {<<Heading(n)>> \o rest : n \in Name,
        rest \in Some({Blank, Tick}, MaxTail) \union {<<>>, <<Heading(beta)>>, <<Tick, Heading(beta)>>}}
    \union {<<>>, <<Line>>}

\* A bare carriage return before a line end makes no line of its own.
Pieces ==
    {Blank, Line, Heading(alpha), Tick, Fence(1, {}),
     Cut(<<Line, Line>>), Cut(<<Line, Tick>>), Cut(<<Blank, Tick>>), Cut(<<Tick, Line>>),
     Cr(<<Line>>), Cr(<<Line, Line>>), Cr(<<Line, Tick>>), Cr(<<Blank, Tick>>)}

\* The file that stands beside others
Other == [pieces |-> <<Line, Tick, Blank>>, eol |-> "lf"]

MCContents ==
    {Other,
     [pieces |-> <<Tick, Heading(beta), Tick>>, eol |-> "lf"],
     [pieces |-> <<Line, Blank, Blank>>, eol |-> "crlf"],
     [pieces |-> <<Fence(1, {}), Tick, Blank>>, eol |-> "lf"]} \union
    {[pieces |-> p, eol |-> IF Len(p) = 1 THEN "none" ELSE "lf"] : p \in Some(Pieces, MaxFile)} \union
    {[pieces |-> p, eol |-> e] : p \in [1..2 -> {Blank, Line, Tick}], e \in {"crlf", "mixed"}}

\* One file, or two of which one can be anything
MCPacks ==
    LET file(n, c) == [name |-> n, file |-> c]
    IN  UNION {{<<file(alpha, c)>>, <<file(alpha, c), file(beta, Other)>>, <<file(beta, Other), file(alpha, c)>>} :
                c \in Contents}

MCPreambles ==
    {<<>>, <<Line>>, <<Blank>>, <<Tick>>, <<Tick, Heading(alpha), Tick>>, <<Heading(alpha)>>,
     <<Cut(<<Line, Tick>>)>>, <<Cr(<<Line, Tick>>)>>, <<Cut(<<Hash, Line>>)>>}

\* The empty document is as good as any to pack over, and a preamble as good above
\* one file as above another.
MCNext ==
    \/ \E pre \in Preambles, fs \in Packs :
        /\ text = <<Blank>> /\ did = Unasked
        /\ pre # <<>> => \A i \in DOMAIN fs : fs[i].file = Other
        /\ Pack(pre, fs)
    \/ SomeEdit

MCSpec == FilesInit /\ [][MCNext]_files
=============================================================================
