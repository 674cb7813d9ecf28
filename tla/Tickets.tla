------------------------------ MODULE Tickets -------------------------------
(***************************************************************************)
(* Tickets that die by themselves: container passes (passes.py) and the    *)
(* scoped tokens of delegated jobs (dstokens.py), with the requests that   *)
(* present, renew and revoke them.  Both stores live in memory only.       *)
(*                                                                         *)
(* A ticket lives while its window is open and its hard cap is not         *)
(* reached.  Using a pass slides its window, renewing a token resets its.  *)
(* Dead tickets leave the table when somebody next looks; a full table     *)
(* drops one to let a new one in.                                          *)
(***************************************************************************)
EXTENDS Clock

CONSTANTS
    Pass, Token, NoTicket,
    Request,      \* requests under way at the same time
    Idle, Ttl,    \* a pass's and a token's window
    Hard,         \* how long after issue either dies regardless
    MaxPasses, MaxTokens,   \* MAX_LIVE of either store
    MaxEnded,     \* ended tokens whose record is kept
    MaxReads      \* bound: reads answered on a token

Ticket == Pass \union Token

ASSUME TicketAssumption ==
    Pass \intersect Token = {} /\ NoTicket \notin Ticket /\ IsFiniteSet(Ticket) /\ IsFiniteSet(Request)
ASSUME WindowAssumption ==
    /\ Idle \in Nat \ {0} /\ Ttl \in Nat \ {0} /\ Hard \in Nat \ {0}
    /\ Idle <= Hard /\ Ttl <= Hard
ASSUME LimitAssumption ==
    MaxPasses \in Nat \ {0} /\ MaxTokens \in Nat \ {0} /\ MaxEnded \in Nat \ {0}

VARIABLES
    fate,      \* live: in its table; else, why it left (history, for a pass)
    times,     \* of the live: created (born), when the window closes (until);
               \* history: when the ticket was made, and when its window was
               \* last opened (open) - at issue, by use or by renewal
    ended,     \* the ended tokens on record, oldest first
    audit,     \* reads noted in a token's record
    call,      \* each request let through: where it is, and on which ticket
    answered   \* history: reads answered

tickets == <<fate, times, ended, audit, call, answered>>

live == {t \in Ticket : fate[t] = "live"}

Window(t)   == IF t \in Pass THEN Idle ELSE Ttl
MaxLive(t)  == IF t \in Pass THEN MaxPasses ELSE MaxTokens
Kin(t)      == IF t \in Pass THEN Pass ELSE Token
Lesser(a, b) == IF a < b THEN a ELSE b

Free == [at |-> "idle", of |-> NoTicket]
Blank == [born |-> 0, until |-> 0, made |-> 0, open |-> 0]
Fate == {"none", "live", "expired", "evicted", "revoked"}

TypeOK ==
    /\ now \in Time
    /\ fate \in [Ticket -> Fate]
    /\ times \in [Ticket -> [born : Time, until : 0..(MaxTime + Hard), made : Time, open : Time]]
    /\ call \in [Request -> [at : {"idle", "reading", "sending", "writing"},
                            of : Ticket \union {NoTicket}]]
    /\ ended \in Seq(Token)
    /\ audit \in [Token -> Nat] /\ answered \in [Token -> Nat]

Init ==
    /\ now = 0
    /\ fate = [t \in Ticket |-> "none"]
    /\ times = [t \in Ticket |-> Blank]
    /\ ended = <<>>
    /\ audit = [t \in Token |-> 0]
    /\ call = [c \in Request |-> Free]
    /\ answered = [t \in Token |-> 0]

Tick ==
    /\ Advance
    /\ UNCHANGED <<fate, times, ended, audit, call, answered>>

(***************************************************************************)
(* The stores.  Each operation holds its store's lock throughout.          *)
(***************************************************************************)
\* Seeded fault: the hard cap is not looked at.
AliveForever(t, n) == n < times[t].until

\* _alive
Alive(t, n) == n < times[t].until /\ n < times[t].born + Hard

Dead(kin, n) == {u \in live \intersect kin : ~Alive(u, n)}

\* The record of the tokens that ended, and one more
Keep(s) == IF Len(s) > MaxEnded THEN SubSeq(s, Len(s) - MaxEnded + 1, Len(s)) ELSE s

\* The order in which one look finds several tickets dead is left open.
Orders(D) ==
    {s \in [1..Cardinality(D) -> D] : \A i, j \in DOMAIN s : s[i] = s[j] => i = j}

\* Seeded fault: a token that has run out leaves no record.
RecordUnexpired(dead, out) ==
    \E s \in Orders(dead \intersect Token), e \in Orders(out \intersect Token) :
        ended' = Keep(ended \o e)

\* _end, of the tokens found dead and then of one that has to go: a token's
\* record joins the ended ones, of which the oldest are dropped.
Record(dead, out) ==
    \E s \in Orders(dead \intersect Token), e \in Orders(out \intersect Token) :
        ended' = Keep(ended \o s \o e)

Left(dead, out, why) ==
    [t \in Ticket |-> IF t \in dead THEN "expired" ELSE IF t \in out THEN why ELSE fate[t]]

\* What leaves its table is forgotten.
Kept(ts) == times' = [t \in Ticket |-> IF fate'[t] = "live" THEN ts[t] ELSE Blank]

\* Seeded fault: the pass to go is the one made first, though it is in use.
LeastByAge(t, left) == {u \in left : \A v \in left : times[u].born <= times[v].born}

\* Which one a full table drops: the pass least recently used (its window
\* closes first), the token made first.
Least(t, left) ==
    IF t \in Pass THEN {u \in left : \A v \in left : times[u].until <= times[v].until}
                  ELSE {u \in left : \A v \in left : times[u].born <= times[v].born}

\* Seeded fault: a full table is taken to have room for one more.
EvictableLate(t, left) ==
    IF Cardinality(left) <= MaxLive(t) THEN {{}} ELSE {{u} : u \in Least(t, left)}

\* issue never refuses for want of room.
Evictable(t, left) ==
    IF Cardinality(left) < MaxLive(t) THEN {{}} ELSE {{u} : u \in Least(t, left)}

Issue(t, n) ==
    /\ fate[t] = "none"
    /\ \E out \in Evictable(t, (live \intersect Kin(t)) \ Dead(Kin(t), n)) :
        /\ Record(Dead(Kin(t), n), out)
        /\ fate' = [Left(Dead(Kin(t), n), out, "evicted") EXCEPT ![t] = "live"]
    /\ Kept([times EXCEPT ![t] = [born |-> n, until |-> n + Window(t), made |-> now, open |-> now]])
    /\ UNCHANGED <<now, audit, call, answered>>

\* Whatever looks first: the dead leave the table.
Prune(kin, n) ==
    /\ Record(Dead(kin, n), {})
    /\ fate' = Left(Dead(kin, n), {}, "expired")

Found(t, n) == t \in live /\ Alive(t, n)

\* Seeded fault: a use of a pass leaves its window as it was.
SlidNot(t, n) == IF t \in Pass THEN times[t].until ELSE Lesser(n + Ttl, times[t].born + Hard)

\* The window opened anew: a pass's by use, a token's by renewal
Slid(t, n) == IF t \in Pass THEN n + Idle ELSE Lesser(n + Ttl, times[t].born + Hard)

Open(t, n, slides) ==
    Kept(IF Found(t, n) /\ slides
         THEN [times EXCEPT ![t].until = Slid(t, n), ![t].open = now] ELSE times)

\* verify, of a ticket somebody was given.  A pass's request goes on to its
\* body, a token's call to the tool it runs.
Use(c, t, n) ==
    /\ call[c].at = "idle" /\ fate[t] # "none"
    /\ Prune(Kin(t), n)
    /\ Open(t, n, t \in Pass)
    /\ call' = IF Found(t, n)
               THEN [call EXCEPT ![c] = [at |-> IF t \in Pass THEN "sending" ELSE "reading", of |-> t]]
               ELSE call
    /\ UNCHANGED <<now, audit, answered>>

Renew(t, n) ==
    /\ t \in Token /\ fate[t] # "none"
    /\ Prune(Kin(t), n)
    /\ Open(t, n, TRUE)
    /\ UNCHANGED <<now, audit, call, answered>>

\* A pass is revoked as it is; a token that has run out is found expired.
Revoke(t, n) ==
    LET dead == IF t \in Pass THEN {} ELSE Dead(Token, n)
        out == (live \intersect {t}) \ dead
    IN  /\ Record(dead, out)
        /\ fate' = Left(dead, out, "revoked")
        /\ Kept(times)
        /\ UNCHANGED <<now, audit, call, answered>>

RevokeAll(kin) ==
    /\ Record({}, live \intersect kin)
    /\ fate' = Left({}, live \intersect kin, "revoked")
    /\ Kept(times)
    /\ UNCHANGED <<now, audit, call, answered>>

\* list and get
Look(kin, n) ==
    /\ Prune(kin, n)
    /\ Kept(times)
    /\ UNCHANGED <<now, audit, call, answered>>

(***************************************************************************)
(* What a ticket was presented for                                         *)
(***************************************************************************)
\* note, when the tool has answered: nothing is noted of an ended token.
Noted(t) == IF t \in live THEN [audit EXCEPT ![t] = @ + 1] ELSE audit

Done(c) == call' = [call EXCEPT ![c] = Free]

\* Scoped.call, after its await
Answer(c) ==
    LET t == call[c].of IN
    /\ call[c].at = "reading"
    /\ answered[t] < MaxReads
    /\ audit' = Noted(t)
    /\ answered' = [answered EXCEPT ![t] = @ + 1]
    /\ Done(c)
    /\ UNCHANGED <<now, fate, times, ended>>

\* Nothing came of it: the category is not for this job, the tool or the
\* upload fails.  Or the write is done.
Leave(c) ==
    /\ call[c].at \in {"reading", "sending", "writing"}
    /\ Done(c)
    /\ UNCHANGED <<now, fate, times, ended, audit, answered>>

\* put_doc, its body in: alive, under the write lock.  Else "pass expired or
\* revoked mid-request".
Recheck(c, n) ==
    /\ call[c].at = "sending"
    /\ IF Found(call[c].of, n) THEN call' = [call EXCEPT ![c].at = "writing"] ELSE Done(c)
    /\ UNCHANGED <<now, fate, times, ended, audit, answered>>

\* What is done about the tickets of one kind
Step(kin) ==
    \/ \E t \in kin, n \in Reading :
        \/ Issue(t, n) \/ Renew(t, n) \/ Revoke(t, n)
        \/ \E c \in Request : Use(c, t, n)
    \/ \E n \in Reading : Look(kin, n)
    \/ RevokeAll(kin)
    \/ \E c \in Request :
        /\ call[c].of \in kin
        /\ Answer(c) \/ Leave(c) \/ \E n \in Reading : Recheck(c, n)

Next == Tick \/ Step(Pass) \/ Step(Token)

Spec == Init /\ [][Next]_<<now, tickets>>

(***************************************************************************)
(* Properties                                                              *)
(***************************************************************************)
Closes(t) == Lesser(times[t].open + Window(t), times[t].made + Hard)

\* A table never outgrows its limit, and what is kept of a ticket says, up to
\* the age of a reading, when it was made and last opened.
Tables ==
    /\ Cardinality(live \intersect Pass) <= MaxPasses
    /\ Cardinality(live \intersect Token) <= MaxTokens

Dated(t) ==
    LET r == times[t]
    IN  /\ r.born <= r.made /\ r.made <= r.born + Lag
        /\ r.made <= r.open /\ r.open <= now
        /\ r.until <= r.open + Window(t)
        /\ r.until >= r.open + Window(t) - Lag \/ (t \in Token /\ r.until >= r.born + Hard)

TicketInv == TypeOK /\ Tables /\ \A t \in live : Dated(t)

\* Nobody gets anywhere on a ticket, at its first check or when its body has
\* arrived, past its window or its cap: by no more than a reading may be old,
\* whatever the order in which uses, renewals and looks take the lock.
WithinLease ==
    [][\A c \in Request :
        LET t == call'[c].of IN
        t # NoTicket /\ call'[c] # call[c] =>
            fate[t] = "live" /\ now < Closes(t) + Lag]_<<now, tickets>>

\* Nor is a ticket found expired before its time: a reading out of order
\* shortens a window by no more than its age.
LeaseHolds ==
    [][\A t \in Ticket :
        fate[t] = "live" /\ fate'[t] = "expired" => now >= Closes(t) - Lag]_<<now, tickets>>

\* A full table drops the pass used least recently, never one in use for one
\* left lying about; the token made first.
EvictsTheIdle ==
    [][\A t, u \in Ticket :
        /\ fate[t] = "live" /\ fate'[t] = "evicted"
        /\ Kin(u) = Kin(t) /\ fate[u] = "live" /\ fate'[u] = "live"
        => IF t \in Pass THEN times[t].open <= times[u].open + Lag
                         ELSE times[t].made <= times[u].made + Lag]_<<now, tickets>>

Gone == {t \in Token : fate[t] \notin {"none", "live"}}
Reads(t) == {c \in Request : call[c].at = "reading" /\ call[c].of = t}

\* However a token ended, its record is kept while no more than MaxEnded have
\* ended since, and lacks no read but those under way when it ended: what was
\* answered on it beyond its record, each request did once at most.  Nobody
\* reads on a token that was never issued.
ReadsOnRecord ==
    /\ Len(ended) = Lesser(Cardinality(Gone), MaxEnded)
    /\ \A c \in Request : call[c].at = "reading" => call[c].of \in Token /\ fate[call[c].of] # "none"
    /\ \A t \in Token :
        IF t \in Gone THEN answered[t] - audit[t] + Cardinality(Reads(t)) <= Cardinality(Request)
                      ELSE audit[t] = answered[t]
=============================================================================
