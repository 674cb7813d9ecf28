------------------------------ MODULE Attempts ------------------------------
(***************************************************************************)
(* Who may try to sign in, and with what: the login throttle (webauth.py)  *)
(* and the list of spent challenges (passkeys.py), as the verify routes    *)
(* of main.py use them.                                                    *)
(*                                                                         *)
(* A route asks the throttle, spends the challenge of its cookie, awaits   *)
(* the body and, if that is no good, records a failure.  Any number of     *)
(* requests may be between the first and the last.  Both memories are      *)
(* purged by the clock, which each look reads anew.                        *)
(***************************************************************************)
EXTENDS Clock

CONSTANTS
    Caller,       \* requests under way at the same time
    Address, Nobody,          \* throttle keys
    Challenge, NoChallenge,
    MaxAttempts, Span,        \* the throttle's limit and window
    MaxKeys,      \* addresses it remembers before it looks for stale ones
    Lifetime, Slack,          \* a cookie's, and how much longer it is remembered
    MaxSpent      \* challenges remembered

ASSUME AttemptsAssumption ==
    /\ NoChallenge \notin Challenge /\ IsFiniteSet(Caller)
    /\ Lifetime \in Nat /\ Slack \in Nat /\ Span \in Nat
    /\ MaxAttempts \in Nat \ {0} /\ MaxKeys \in Nat /\ MaxSpent \in Nat
    /\ Lag < Slack      \* "a little past the cookie's own lifetime": 5 s

VARIABLES
    hits,      \* the throttle: an address's failures (the code keeps seen, in a list)
    issued,    \* when a challenge's cookie was signed
    spent,     \* until when a challenge is remembered as spent
    try,       \* each request: where it is, its address, and if it may succeed
    failed,    \* history: an address's failures, while it matters
    wins       \* history: how often a challenge was accepted

attempts == <<hits, issued, spent, try, failed, wins>>

Never == -1
AtRest == [at |-> "idle", from |-> Nobody, good |-> FALSE]
Try == [at : {"waiting"}, from : Address, good : BOOLEAN] \union {AtRest}

AttemptsInit ==
    /\ now = 0
    /\ hits = [a \in Address |-> {}]
    /\ issued = [h \in Challenge |-> Never]
    /\ spent = [h \in Challenge |-> Never]
    /\ try = [c \in Caller |-> AtRest]
    /\ failed = [a \in Address |-> {}]
    /\ wins = [h \in Challenge |-> 0]

\* Whether a failure of time t still counts, beyond doubt
Counts(t, n) == n < t + Span - Lag

TimePasses ==
    /\ Advance
    /\ failed' = [a \in Address |-> {f \in failed[a] : Counts(f.when, now')}]
    /\ UNCHANGED <<hits, issued, spent, try, wins>>

(***************************************************************************)
(* The throttle                                                            *)
(***************************************************************************)
Recent(a, n) == {f \in hits[a] : n - f.seen < Span}

\* allow, which also forgets what is too old
Allowed(a, n) == Cardinality(Recent(a, n)) < MaxAttempts

Trim(a, n) == hits' = [hits EXCEPT ![a] = Recent(a, n)]

Known == {a \in Address : hits[a] # {}}

\* A failure: when it was recorded, as the how manieth of its address at that
\* time, and with which reading of the clock.
Now(a) == {f \in failed[a] : f.when = now}
New(a, n) == [when |-> now, nth |-> Cardinality(Now(a)) + 1, seen |-> n]

\* The one recorded last, whatever reading it has
LastOf(a, f) ==
    \A g \in hits[a] : g.when < f.when \/ (g.when = f.when /\ g.nth <= f.nth)

\* Seeded fault: a crowded table is emptied.
UncrowdedAll(a, n) ==
    IF a \notin Known /\ Cardinality(Known) >= MaxKeys THEN [b \in Address |-> {}] ELSE hits

\* Addresses whose last failure is too old go when there are too many.
Uncrowded(a, n) ==
    IF a \notin Known /\ Cardinality(Known) >= MaxKeys
    THEN [b \in Address |->
            IF \E f \in hits[b] : LastOf(b, f) /\ n - f.seen >= Span THEN {} ELSE hits[b]]
    ELSE hits

\* Throttle.record
Failure(a, n) ==
    /\ hits' = [Uncrowded(a, n) EXCEPT ![a] = @ \union {New(a, n)}]
    /\ failed' = [failed EXCEPT ![a] = @ \union {New(a, n)}]

(***************************************************************************)
(* The challenges                                                          *)
(***************************************************************************)
\* passkey_options, for an address the throttle allows
Options(a, h, n) ==
    /\ Trim(a, n)
    /\ issued[h] = Never /\ Allowed(a, n)
    /\ issued' = [issued EXCEPT ![h] = now]
    /\ UNCHANGED <<now, spent, try, failed, wins>>

\* read_challenge: the cookie's age when it is looked at
Fresh(h, n) == issued[h] # Never /\ 0 <= n - issued[h] /\ n - issued[h] <= Lifetime

Listed(s) == {h \in Challenge : s[h] # Never}

\* Challenges.spend: a full list is purged of what would have expired.
Purged(n) ==
    IF Cardinality(Listed(spent)) >= MaxSpent
    THEN [h \in Challenge |-> IF spent[h] > n THEN spent[h] ELSE Never]
    ELSE spent

Spends(h, n) == h \notin Listed(Purged(n)) /\ Cardinality(Listed(Purged(n))) < MaxSpent

\* Seeded fault: remembered for the cookie's lifetime and no longer.
RememberedExactly(n) == n + Lifetime

RememberedUntil(n) == n + Lifetime + Slack

(***************************************************************************)
(* A verify route.  n, m and k are its readings of the clock for the       *)
(* throttle, the cookie and the list, in this order; NoChallenge stands    *)
(* for a route that takes none, or a cookie that is not ours.              *)
(***************************************************************************)
Enter(c, a, h, n, m, k) ==
    /\ try[c].at = "idle"
    /\ n <= m /\ m <= k
    /\ Trim(a, n)
    /\ IF ~Allowed(a, n) THEN UNCHANGED <<spent, try, wins>>
       ELSE IF h = NoChallenge \/ ~Fresh(h, m)
       THEN /\ try' = [try EXCEPT ![c] = [at |-> "waiting", from |-> a, good |-> h = NoChallenge]]
            /\ UNCHANGED <<spent, wins>>
       ELSE /\ try' = [try EXCEPT ![c] = [at |-> "waiting", from |-> a, good |-> Spends(h, k)]]
            /\ spent' = IF Spends(h, k) THEN [Purged(k) EXCEPT ![h] = RememberedUntil(k)]
                                        ELSE Purged(k)
            /\ wins' = IF Spends(h, k) THEN [wins EXCEPT ![h] = @ + 1] ELSE wins
    /\ UNCHANGED <<now, issued, failed>>

\* The body is no good, or nothing could have been.
Refused(c, n) ==
    /\ try[c].at = "waiting"
    /\ Failure(try[c].from, n)
    /\ try' = [try EXCEPT ![c] = AtRest]
    /\ UNCHANGED <<now, issued, spent, wins>>

\* A session is opened, or the store is unavailable: no failure is recorded.
Succeed(c) ==
    /\ try[c].at = "waiting" /\ try[c].good
    /\ try' = [try EXCEPT ![c] = AtRest]
    /\ UNCHANGED <<now, hits, issued, spent, failed, wins>>

AttemptsNext ==
    \/ TimePasses
    \/ \E a \in Address, h \in Challenge, n \in Reading : Options(a, h, n)
    \/ \E c \in Caller, a \in Address, h \in Challenge \union {NoChallenge} :
        \E n, m, k \in Reading : Enter(c, a, h, n, m, k)
    \/ \E c \in Caller, n \in Reading : Refused(c, n)
    \/ \E c \in Caller : Succeed(c)

AttemptsSpec == AttemptsInit /\ [][AttemptsNext]_<<now, attempts>>

(***************************************************************************)
(* Properties                                                              *)
(***************************************************************************)
\* A challenge is accepted once, although the list that says so is purged
\* while its cookie may still be presented (Challenges.spend).
AcceptedOnce == \A h \in Challenge : wins[h] <= 1

\* Why: an accepted challenge is forgotten only when its cookie is too old for
\* every request, whatever it read of the clock.
TooOld(h, n) == n >= issued[h] + Lifetime + Slack

SpentInv ==
    /\ now \in Time
    /\ issued \in [Challenge -> Time \union {Never}]
    /\ spent \in [Challenge -> Int]
    /\ wins \in [Challenge -> Nat]
    /\ AcceptedOnce
    /\ \A h \in Challenge :
        wins[h] = 1 => issued[h] # Never /\ (TooOld(h, spent[h]) \/ TooOld(h, now))

Counting(a) == {f \in failed[a] : Counts(f.when, now)}
Waiting(a) == {c \in Caller : try[c].at = "waiting" /\ try[c].from = a}

\* An address gets MaxAttempts failures in a window, and one more for each
\* other request that was let in before they were recorded, however crowded
\* the throttle's memory is (Throttle.allow, Throttle.record).
FailuresBounded ==
    \A a \in Address : Cardinality(Counting(a)) <= MaxAttempts - 1 + Cardinality(Caller)

\* Why: no failure that counts is forgotten, and what was let in was let in
\* when all of them together left room.
ThrottleInv ==
    /\ now \in Time
    /\ try \in [Caller -> Try]
    /\ \A a \in Address : \A F \in {hits[a], failed[a]} :
        /\ IsFiniteSet(F)
        /\ F \subseteq [when : 0..now, nth : Nat, seen : Time]
        /\ \A f \in F : f.seen <= f.when /\ f.when <= f.seen + Lag
        /\ \A f \in F : f.when = now => f.nth <= Cardinality(Now(a))
    /\ DOMAIN hits = Address /\ DOMAIN failed = Address
    /\ \A a \in Address : Counting(a) \subseteq hits[a]
    /\ \A a \in Address :
        Cardinality(Counting(a)) + Cardinality(Waiting(a)) <= MaxAttempts - 1 + Cardinality(Caller)
=============================================================================
