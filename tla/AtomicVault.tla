----------------------------- MODULE AtomicVault -----------------------------
(***************************************************************************)
(* What the vault's write path promises to its clients: every accepted     *)
(* PUT or DELETE takes effect at one instant, at which the precondition it *)
(* carried (If-Match, If-None-Match) held of the very content it replaces, *)
(* and a section edit is computed from that same content.  A client that   *)
(* is never answered, or that is answered 500, may find its write applied, *)
(* not applied, or -- the file is rewritten in place -- cut down to an     *)
(* empty file.                                                             *)
(***************************************************************************)
CONSTANTS
    Client,          \* concurrent request slots
    Name,            \* file names under DATA_DIR
    External,        \* names replaced by a process other than the app
    Content,         \* byte contents, one element per git blob id
    Empty,           \* the content of a zero-length file
    Absent,          \* "the file does not exist"
    Refused,         \* "this edit does not apply" (a 400 or 404)
    Edit,            \* what a request asks to do
    Match,           \* what a request's conditional headers say
    Accepts(_, _),   \* Accepts(found, m): m allows replacing the content found
    Outcome(_, _)    \* Outcome(e, found): the content after edit e, or Refused

VARIABLES
    cell,   \* cell[n]: the content clients agree on
    ask     \* ask[c]: what client c is waiting for

avars == <<cell, ask>>

Stored == Content \union {Absent}

NoAsk == [state |-> "none"]

\* A request not yet applied ("open"), or applied and not yet answered ("done").
Ask == {NoAsk} \union
       [state : {"open", "done"}, name : Name, edit : Edit, match : Match]

ATypeOK == /\ cell \in [Name -> Stored]
           /\ ask \in [Client -> Ask]

AInit == /\ cell \in [Name -> Stored]
         /\ ask = [c \in Client |-> NoAsk]

Submit(c) ==
    /\ ask[c] = NoAsk
    /\ \E n \in Name, e \in Edit, m \in Match :
          ask' = [ask EXCEPT ![c] = [state |-> "open", name |-> n,
                                     edit |-> e, match |-> m]]
    /\ UNCHANGED cell

\* The one instant at which an accepted write replaces a content.
Apply(c) ==
    /\ ask[c] # NoAsk
    /\ ask[c].state = "open"
    /\ LET n == ask[c].name
           v == Outcome(ask[c].edit, cell[n])
       IN /\ Accepts(cell[n], ask[c].match)
          /\ v # Refused
          /\ cell' = [cell EXCEPT ![n] = v]
    /\ ask' = [ask EXCEPT ![c].state = "done"]

\* A refusal of an open request, or the 200 of an applied one.
Answer(c) ==
    /\ ask[c] # NoAsk
    /\ ask' = [ask EXCEPT ![c] = NoAsk]
    /\ UNCHANGED cell

\* The file system gave up after the file was truncated: a 500.
Spoil(c) ==
    /\ ask[c] # NoAsk
    /\ ask[c].state = "done"
    /\ cell' = [cell EXCEPT ![ask[c].name] = Empty]
    /\ ask' = [ask EXCEPT ![c] = NoAsk]

\* The process dies: nobody is answered, and one applied, unanswered write
\* may be found cut down to an empty file.
Die ==
    /\ ask' = [c \in Client |-> NoAsk]
    /\ \/ UNCHANGED cell
       \/ \E c \in Client :
             /\ ask[c] # NoAsk
             /\ ask[c].state = "done"
             /\ cell' = [cell EXCEPT ![ask[c].name] = Empty]

\* Another process replaces its own files; it sends no precondition.
Replace ==
    /\ cell' \in [Name -> Stored]
    /\ \A n \in Name \ External : cell'[n] = cell[n]
    /\ UNCHANGED ask

ANext == \/ \E c \in Client : Submit(c) \/ Apply(c) \/ Answer(c) \/ Spoil(c)
         \/ Replace
         \/ Die

ASpec == AInit /\ [][ANext]_avars
=============================================================================
