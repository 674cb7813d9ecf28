--------------------------- MODULE AttemptsProofs ---------------------------
(***************************************************************************)
(* That a challenge is accepted once, and that an address gets only so     *)
(* many failures in a window, for any number of requests, addresses and    *)
(* challenges, any limits, and any reading of the clock less than Slack    *)
(* old.                                                                    *)
(***************************************************************************)
EXTENDS Attempts, FiniteSetTheorems, TLAPS

USE DEF Never

LEMMA SpentInitial == AttemptsInit => SpentInv
BY ClockAssumption DEF AttemptsInit, SpentInv, AcceptedOnce, Time

LEMMA TimeKeeps == SpentInv /\ TimePasses => SpentInv'
BY ClockAssumption, AttemptsAssumption
   DEF SpentInv, TimePasses, Advance, Time, AcceptedOnce, TooOld

LEMMA OptionsKeep ==
    ASSUME SpentInv, NEW a \in Address, NEW h \in Challenge, NEW n \in Reading, Options(a, h, n)
    PROVE  SpentInv'
BY ClockAssumption, AttemptsAssumption DEF SpentInv, Options, Time, AcceptedOnce, TooOld

\* What a purge drops is too old for its cookie.
LEMMA PurgeIsLate ==
    ASSUME SpentInv, NEW n \in Reading, NEW h \in Challenge
    PROVE  /\ Purged(n) \in [Challenge -> Int]
           /\ wins[h] = 1 => TooOld(h, Purged(n)[h]) \/ TooOld(h, now)
<1>1. n \in Int /\ n <= now /\ now \in Int
    BY ClockAssumption DEF SpentInv, Reading, Time
<1>2. Purged(n) \in [Challenge -> Int]
    BY <1>1 DEF Purged, SpentInv
<1>3. Purged(n)[h] = spent[h] \/ spent[h] <= n
    BY <1>1 DEF Purged, SpentInv
<1>4. ASSUME wins[h] = 1 PROVE TooOld(h, Purged(n)[h]) \/ TooOld(h, now)
    <2>1. TooOld(h, spent[h]) \/ TooOld(h, now)
        BY <1>4 DEF SpentInv
    <2>2. spent[h] \in Int /\ issued[h] \in Int /\ Lifetime \in Int /\ Slack \in Int
        BY AttemptsAssumption, ClockAssumption DEF SpentInv, Time
    <2> QED BY <1>1, <1>3, <2>1, <2>2 DEF TooOld
<1> QED BY <1>2, <1>4

\* A challenge whose cookie still passes has not been accepted, if it is not
\* on the list.
LEMMA FreshIsFirst ==
    ASSUME SpentInv, NEW m \in Reading, NEW k \in Reading, NEW h \in Challenge,
           Fresh(h, m), Spends(h, k)
    PROVE  wins[h] = 0
<1>1. SUFFICES ASSUME wins[h] # 0 PROVE FALSE
    OBVIOUS
<1>2. wins[h] = 1
    BY <1>1 DEF SpentInv, AcceptedOnce
<1>3. /\ now \in Int /\ m \in Int /\ now <= m + Lag /\ issued[h] \in Int /\ issued[h] >= 0
      /\ m <= issued[h] + Lifetime /\ Lag < Slack
      /\ Lag \in Int /\ Lifetime \in Int /\ Slack \in Int
      /\ Lifetime >= 0 /\ Slack >= 0
    BY ClockAssumption, AttemptsAssumption DEF Fresh, SpentInv, Reading, Time
<1>4. ~ TooOld(h, now)
    BY <1>3 DEF TooOld
<1>5. TooOld(h, Purged(k)[h])
    BY <1>2, <1>4, PurgeIsLate
<1>6. Purged(k)[h] = Never
    BY DEF Spends, Listed
<1> QED BY <1>3, <1>5, <1>6 DEF TooOld

LEMMA EnterKeeps ==
    ASSUME SpentInv, NEW c \in Caller, NEW a \in Address,
           NEW h \in Challenge \union {NoChallenge},
           NEW n \in Reading, NEW m \in Reading, NEW k \in Reading,
           Enter(c, a, h, n, m, k)
    PROVE  SpentInv'
<1>1. UNCHANGED <<now, issued>>
    BY DEF Enter
<1>2. CASE UNCHANGED <<spent, wins>>
    BY <1>1, <1>2 DEF SpentInv, AcceptedOnce, TooOld
<1>3. CASE h \in Challenge /\ Fresh(h, m) /\ spent' = Purged(k) /\ wins' = wins
    BY <1>1, <1>3, PurgeIsLate DEF SpentInv, AcceptedOnce, TooOld
<1>4. CASE /\ h \in Challenge /\ Fresh(h, m) /\ Spends(h, k)
           /\ spent' = [Purged(k) EXCEPT ![h] = RememberedUntil(k)]
           /\ wins' = [wins EXCEPT ![h] = @ + 1]
    <2>1. wins[h] = 0
        BY <1>4, FreshIsFirst
    <2>2. Purged(k) \in [Challenge -> Int]
        BY <1>4, PurgeIsLate
    <2>3. /\ k \in Int /\ now \in Int /\ m \in Int /\ issued[h] \in Int /\ issued[h] # Never
          /\ issued[h] <= m /\ Lifetime \in Int /\ Slack \in Int
        BY <1>4, ClockAssumption, AttemptsAssumption DEF Fresh, SpentInv, Reading, Time
    <2>4. m <= k
        BY DEF Enter
    <2>5. /\ spent' \in [Challenge -> Int] /\ wins' \in [Challenge -> Nat]
          /\ wins'[h] = 1 /\ spent'[h] = k + Lifetime + Slack
          /\ \A g \in Challenge \ {h} : wins'[g] = wins[g] /\ spent'[g] = Purged(k)[g]
        BY <1>4, <2>1, <2>2, <2>3 DEF SpentInv, RememberedUntil
    <2>6. AcceptedOnce'
        BY <2>5 DEF SpentInv, AcceptedOnce
    <2>7. TooOld(h, spent'[h])
        BY <2>3, <2>4, <2>5 DEF TooOld
    <2>8. ASSUME NEW g \in Challenge, wins'[g] = 1
          PROVE  issued[g] # Never /\ (TooOld(g, spent'[g]) \/ TooOld(g, now))
        <3>1. CASE g = h
            BY <2>3, <2>7, <3>1
        <3>2. CASE g # h
            BY <2>5, <2>8, <3>2, PurgeIsLate DEF SpentInv
        <3> QED BY <3>1, <3>2
    <2> QED BY <1>1, <2>5, <2>6, <2>8 DEF SpentInv, TooOld
<1> QED
    <2>1. CASE ~Allowed(a, n)
        BY <1>2, <2>1 DEF Enter
    <2>2. CASE Allowed(a, n) /\ (h = NoChallenge \/ ~Fresh(h, m))
        BY <1>2, <2>2 DEF Enter
    <2>3. CASE Allowed(a, n) /\ h # NoChallenge /\ Fresh(h, m) /\ Spends(h, k)
        BY <1>4, <2>3 DEF Enter
    <2>4. CASE Allowed(a, n) /\ h # NoChallenge /\ Fresh(h, m) /\ ~Spends(h, k)
        BY <1>3, <2>4 DEF Enter
    <2> QED BY <2>1, <2>2, <2>3, <2>4

LEMMA SpentStep == SpentInv /\ [AttemptsNext]_<<now, attempts>> => SpentInv'
<1> SUFFICES ASSUME SpentInv, [AttemptsNext]_<<now, attempts>> PROVE SpentInv'
    OBVIOUS
<1>1. CASE TimePasses
    BY <1>1, TimeKeeps
<1>2. ASSUME NEW a \in Address, NEW h \in Challenge, NEW n \in Reading, Options(a, h, n)
      PROVE  SpentInv'
    BY <1>2, OptionsKeep
<1>3. ASSUME NEW c \in Caller, NEW a \in Address, NEW h \in Challenge \union {NoChallenge},
             NEW n \in Reading, NEW m \in Reading, NEW k \in Reading, Enter(c, a, h, n, m, k)
      PROVE  SpentInv'
    BY <1>3, EnterKeeps
<1>4. ASSUME NEW c \in Caller, NEW n \in Reading, Refused(c, n) PROVE SpentInv'
    BY <1>4 DEF Refused, SpentInv, AcceptedOnce, TooOld
<1>5. ASSUME NEW c \in Caller, Succeed(c) PROVE SpentInv'
    BY <1>5 DEF Succeed, SpentInv, AcceptedOnce, TooOld
<1>6. CASE UNCHANGED <<now, attempts>>
    BY <1>6 DEF attempts, SpentInv, AcceptedOnce, TooOld
<1> QED BY <1>1, <1>2, <1>3, <1>4, <1>5, <1>6 DEF AttemptsNext

\* A challenge is accepted once, whatever the list has forgotten.
THEOREM AcceptedOnceAlways == AttemptsSpec => []AcceptedOnce
<1>1. AttemptsSpec => []SpentInv
    BY SpentInitial, SpentStep, PTL DEF AttemptsSpec
<1>2. SpentInv => AcceptedOnce
    BY DEF SpentInv
<1> QED BY <1>1, <1>2, PTL
(***************************************************************************)
(* The throttle                                                            *)
(***************************************************************************)
\* A failure recorded at a time when the clock showed t
IsFailure(f, t) ==
    /\ f.when \in 0..t /\ f.nth \in Nat /\ f.seen \in Time
    /\ f.seen <= f.when /\ f.when <= f.seen + Lag

LEMMA Readings ==
    ASSUME now \in Time, NEW n \in Reading
    PROVE  n \in Nat /\ now \in Nat /\ n <= now /\ now <= n + Lag /\ n \in Time
BY ClockAssumption DEF Reading, Time

LEMMA CallersFinite ==
    ASSUME NEW a
    PROVE  /\ IsFiniteSet(Waiting(a)) /\ Cardinality(Waiting(a)) \in Nat
           /\ Cardinality(Waiting(a)) <= Cardinality(Caller) /\ Cardinality(Caller) \in Nat
<1>1. Waiting(a) \in SUBSET Caller
    BY DEF Waiting
<1>2. IsFiniteSet(Caller)
    BY AttemptsAssumption
<1> QED BY <1>1, <1>2, FS_Subset, FS_CardinalityType

LEMMA CountingFinite ==
    ASSUME ThrottleInv, NEW a \in Address
    PROVE  IsFiniteSet(Counting(a)) /\ Cardinality(Counting(a)) \in Nat
<1>1. Counting(a) \in SUBSET failed[a] /\ IsFiniteSet(failed[a])
    BY DEF Counting, ThrottleInv
<1> QED BY <1>1, FS_Subset, FS_CardinalityType

\* A failure that counts is recent for everybody who asks.
LEMMA CountsIsRecent ==
    ASSUME ThrottleInv, NEW n \in Reading, NEW a \in Address, NEW f \in hits[a], Counts(f.when, now)
    PROVE  n - f.seen < Span
<1>1. f.when \in Int /\ f.seen \in Int /\ f.when <= f.seen + Lag /\ n \in Int /\ n <= now /\ now \in Int
    BY Readings, ClockAssumption DEF ThrottleInv, Time
<1> QED BY <1>1, ClockAssumption, AttemptsAssumption DEF Counts

LEMMA RecentTyped ==
    ASSUME ThrottleInv, NEW n \in Reading, NEW a \in Address
    PROVE  /\ Recent(a, n) \subseteq hits[a] /\ Counting(a) \subseteq Recent(a, n)
           /\ IsFiniteSet(Recent(a, n)) /\ Cardinality(Recent(a, n)) \in Nat
           /\ Cardinality(Counting(a)) <= Cardinality(Recent(a, n))
<1>1. Recent(a, n) \in SUBSET hits[a] /\ IsFiniteSet(hits[a])
    BY DEF Recent, ThrottleInv
<1>2. IsFiniteSet(Recent(a, n)) /\ Cardinality(Recent(a, n)) \in Nat
    BY <1>1, FS_Subset, FS_CardinalityType
<1>3. Counting(a) \in SUBSET Recent(a, n)
    <2>1. Counting(a) \subseteq hits[a]
        BY DEF ThrottleInv
    <2>2. \A f \in Counting(a) : Counts(f.when, now)
        BY DEF Counting
    <2> QED BY <2>1, <2>2, CountsIsRecent DEF Recent
<1> QED BY <1>1, <1>2, <1>3, FS_Subset

\* The parts of the invariant that speak of one set of failures
Sound(F, a) ==
    /\ IsFiniteSet(F)
    /\ F \subseteq [when : 0..now, nth : Nat, seen : Time]
    /\ \A f \in F : f.seen <= f.when /\ f.when <= f.seen + Lag
    /\ \A f \in F : f.when = now => f.nth <= Cardinality(Now(a))

LEMMA SmallerSound == ASSUME NEW a, NEW F, Sound(F, a), NEW G \in SUBSET F PROVE Sound(G, a)
BY FS_Subset DEF Sound

\* Forgetting what is too old
LEMMA TrimKeeps ==
    ASSUME ThrottleInv, NEW a \in Address, NEW n \in Reading, Trim(a, n),
           UNCHANGED <<now, failed>>,
           try' \in [Caller -> Try],
           \A b \in Address :
                \/ Cardinality(Waiting(b)') <= Cardinality(Waiting(b))
                \/ b = a /\ Allowed(a, n)
    PROVE  ThrottleInv'
<1>1. hits' = [hits EXCEPT ![a] = Recent(a, n)] /\ DOMAIN hits = Address
    BY DEF Trim, ThrottleInv
<1>2. \A b \in Address : Counting(b)' = Counting(b) /\ Now(b)' = Now(b)
    BY DEF Counting, Now
<1>3. \A b \in Address : hits'[b] \in SUBSET hits[b] /\ Counting(b) \subseteq hits'[b]
    BY <1>1, RecentTyped DEF ThrottleInv
<1>4. \A b \in Address : Sound(hits[b], b) /\ Sound(failed[b], b)
    BY DEF ThrottleInv, Sound
<1>5. \A b \in Address : Sound(hits'[b], b) /\ Sound(failed'[b], b)
    BY <1>3, <1>4, SmallerSound
<1>6. ASSUME NEW b \in Address
      PROVE  Cardinality(Counting(b)) + Cardinality(Waiting(b)')
                <= MaxAttempts - 1 + Cardinality(Caller)
    <2>1. Cardinality(Counting(b)) \in Nat /\ Cardinality(Caller) \in Nat /\ MaxAttempts \in Nat
        BY CountingFinite, CallersFinite, AttemptsAssumption
    <2>2. Cardinality(Waiting(b)) \in Nat
        BY CallersFinite
    <2>3. Cardinality(Waiting(b)') \in Nat /\ Cardinality(Waiting(b)') <= Cardinality(Caller)
        <3>1. Waiting(b)' \in SUBSET Caller
            BY DEF Waiting
        <3> QED BY <3>1, AttemptsAssumption, FS_Subset, FS_CardinalityType
    <2>4. CASE Cardinality(Waiting(b)') <= Cardinality(Waiting(b))
        <3>1. Cardinality(Counting(b)) + Cardinality(Waiting(b))
                <= MaxAttempts - 1 + Cardinality(Caller)
            BY DEF ThrottleInv
        <3> QED BY <2>1, <2>2, <2>3, <2>4, <3>1
    <2>5. CASE b = a /\ Allowed(a, n)
        <3>1. Cardinality(Counting(b)) <= Cardinality(Recent(b, n)) /\ Cardinality(Recent(b, n)) \in Nat
            BY RecentTyped
        <3>2. Cardinality(Recent(b, n)) < MaxAttempts
            BY <2>5 DEF Allowed
        <3> QED BY <2>1, <2>3, <3>1, <3>2
    <2> QED BY <2>4, <2>5
<1>7. DOMAIN hits' = Address /\ DOMAIN failed' = Address /\ now' \in Time
    BY <1>1 DEF ThrottleInv
<1>8. \A b \in Address : \A F \in {hits'[b], failed'[b]} :
        /\ IsFiniteSet(F)
        /\ F \subseteq [when : 0..now', nth : Nat, seen : Time]
        /\ \A f \in F : f.seen <= f.when /\ f.when <= f.seen + Lag
        /\ \A f \in F : f.when = now' => f.nth <= Cardinality(Now(b)')
    BY <1>2, <1>5 DEF Sound
<1>9. \A b \in Address : Counting(b)' \subseteq hits'[b]
    BY <1>2, <1>3
<1> QED BY <1>2, <1>6, <1>7, <1>8, <1>9 DEF ThrottleInv

LEMMA ThrottleInitial == AttemptsInit => ThrottleInv
<1> SUFFICES ASSUME AttemptsInit PROVE ThrottleInv
    OBVIOUS
<1>1. \A a \in Address : hits[a] = {} /\ failed[a] = {} /\ Counting(a) = {} /\ Waiting(a) = {}
    BY DEF AttemptsInit, Counting, Waiting, AtRest
<1>2. IsFiniteSet({}) /\ Cardinality({}) = 0
    BY FS_EmptySet
<1>3. Cardinality(Caller) \in Nat /\ MaxAttempts \in Nat \ {0}
    BY CallersFinite, AttemptsAssumption
<1>4. now \in Time /\ DOMAIN hits = Address /\ DOMAIN failed = Address
    BY ClockAssumption DEF AttemptsInit, Time
<1>5. try \in [Caller -> Try]
    BY DEF AttemptsInit, Try
<1>6. \A a \in Address : \A F \in {hits[a], failed[a]} : F = {}
    BY <1>1
<1>7. ASSUME NEW a \in Address
      PROVE  /\ Counting(a) \subseteq hits[a]
             /\ Cardinality(Counting(a)) + Cardinality(Waiting(a)) <= MaxAttempts - 1 + Cardinality(Caller)
    <2>1. Cardinality(Counting(a)) = 0 /\ Cardinality(Waiting(a)) = 0
        BY <1>1, <1>2
    <2> QED BY <1>1, <1>3, <2>1
<1> QED BY <1>2, <1>4, <1>5, <1>6, <1>7 DEF ThrottleInv

LEMMA TimeCounts ==
    ASSUME ThrottleInv, TimePasses, NEW a \in Address
    PROVE  /\ failed'[a] \in SUBSET failed[a] /\ Counting(a)' \in SUBSET Counting(a)
           /\ Now(a)' = {} /\ hits'[a] = hits[a] /\ now \in Nat /\ now' = now + 1 /\ now' \in Time
           /\ \A F \in {hits[a], failed[a]} : \A f \in F : f.when \in 0..now
<1>1. now \in Nat /\ now' = now + 1 /\ now' \in Time
    BY ClockAssumption DEF ThrottleInv, TimePasses, Advance, Time
<1>2. failed'[a] = {f \in failed[a] : Counts(f.when, now')} /\ hits'[a] = hits[a]
    BY DEF TimePasses
<1>3. \A F \in {hits[a], failed[a]} : \A f \in F : f.when \in 0..now
    BY DEF ThrottleInv
<1>4. \A f \in failed[a] : Counts(f.when, now') => Counts(f.when, now)
    BY <1>1, <1>3, ClockAssumption, AttemptsAssumption DEF Counts
<1>5. Now(a)' = {}
    BY <1>1, <1>2, <1>3 DEF Now
<1> QED BY <1>1, <1>2, <1>3, <1>4, <1>5 DEF Counting

LEMMA TimeBounded == ThrottleInv /\ TimePasses => ThrottleInv'
<1> SUFFICES ASSUME ThrottleInv, TimePasses PROVE ThrottleInv'
    OBVIOUS
<1>1. ASSUME NEW a \in Address, NEW F \in {hits'[a], failed'[a]}
      PROVE  /\ IsFiniteSet(F)
             /\ F \subseteq [when : 0..now', nth : Nat, seen : Time]
             /\ \A f \in F : f.seen <= f.when /\ f.when <= f.seen + Lag
             /\ \A f \in F : f.when = now' => f.nth <= Cardinality(Now(a)')
    <2>1. PICK E \in {hits[a], failed[a]} : F \in SUBSET E
        BY <1>1, TimeCounts
    <2>2. /\ IsFiniteSet(E) /\ E \subseteq [when : 0..now, nth : Nat, seen : Time]
          /\ \A f \in E : f.seen <= f.when /\ f.when <= f.seen + Lag
        BY DEF ThrottleInv
    <2>3. now \in Nat /\ now' = now + 1
        BY TimeCounts
    <2>4. IsFiniteSet(F)
        BY <2>1, <2>2, FS_Subset
    <2>5. \A f \in F : f.when # now'
        BY <2>1, <2>2, <2>3
    <2>6. 0..now \subseteq 0..now'
        BY <2>3
    <2> QED BY <2>1, <2>2, <2>4, <2>5, <2>6
<1>2. ASSUME NEW a \in Address
      PROVE  /\ Counting(a)' \subseteq hits'[a]
             /\ Cardinality(Counting(a)') + Cardinality(Waiting(a)')
                    <= MaxAttempts - 1 + Cardinality(Caller)
    <2>1. Counting(a)' \in SUBSET Counting(a) /\ hits'[a] = hits[a] /\ Waiting(a)' = Waiting(a)
        BY TimeCounts DEF Waiting, TimePasses
    <2>2. /\ Cardinality(Counting(a)') <= Cardinality(Counting(a))
          /\ Cardinality(Counting(a)') \in Nat /\ Cardinality(Counting(a)) \in Nat
        BY <2>1, CountingFinite, FS_Subset, FS_CardinalityType
    <2>3. Cardinality(Waiting(a)) \in Nat /\ Cardinality(Caller) \in Nat /\ MaxAttempts \in Nat
        BY CallersFinite, AttemptsAssumption
    <2> QED BY <2>1, <2>2, <2>3 DEF ThrottleInv
<1>3. /\ now' \in Time /\ DOMAIN hits' = Address /\ DOMAIN failed' = Address
      /\ try' \in [Caller -> Try]
    BY ClockAssumption DEF ThrottleInv, TimePasses, Advance, Time
<1> QED BY <1>1, <1>2, <1>3 DEF ThrottleInv

\* Dropping an address whose last failure is too old drops none that counts.
LEMMA UncrowdedKeeps ==
    ASSUME ThrottleInv, NEW a \in Address, NEW n \in Reading, NEW b \in Address
    PROVE  /\ Uncrowded(a, n)[b] \in SUBSET hits[b] /\ Counting(b) \subseteq Uncrowded(a, n)[b]
           /\ DOMAIN Uncrowded(a, n) = Address
<1>1. ASSUME NEW f \in hits[b], LastOf(b, f), n - f.seen >= Span
      PROVE  Counting(b) = {}
    <2>1. ASSUME NEW g \in Counting(b) PROVE FALSE
        <3>1. g \in hits[b] /\ Counts(g.when, now)
            BY <2>1 DEF Counting, ThrottleInv
        <3>2. g.when <= f.when /\ g.when \in Int /\ f.when \in Int /\ f.seen \in Int
            BY <1>1, <3>1 DEF LastOf, ThrottleInv, Time
        <3>3. now \in Int /\ n \in Int
            BY Readings DEF ThrottleInv
        <3>4. Counts(f.when, now)
            BY <3>1, <3>2, <3>3, ClockAssumption, AttemptsAssumption DEF Counts
        <3>5. n - f.seen < Span
            BY <3>4, CountsIsRecent
        <3> QED BY <1>1, <3>2, <3>3, <3>5, AttemptsAssumption
    <2> QED BY <2>1
<1>2. Counting(b) \subseteq hits[b] /\ DOMAIN hits = Address
    BY DEF ThrottleInv
<1> QED BY <1>1, <1>2 DEF Uncrowded

\* A failure is new, and numbered after those of its time.
LEMMA NewIsNew ==
    ASSUME ThrottleInv, NEW a \in Address, NEW n \in Reading
    PROVE  /\ New(a, n) \in [when : 0..now, nth : Nat, seen : Time]
           /\ New(a, n).when = now /\ New(a, n).seen = n
           /\ New(a, n).nth = Cardinality(Now(a)) + 1
           /\ New(a, n) \notin hits[a] /\ New(a, n) \notin failed[a]
           /\ IsFiniteSet(Now(a)) /\ Cardinality(Now(a)) \in Nat
<1>1. IsFiniteSet(Now(a)) /\ Cardinality(Now(a)) \in Nat
    <2>1. Now(a) \in SUBSET failed[a] /\ IsFiniteSet(failed[a])
        BY DEF Now, ThrottleInv
    <2> QED BY <2>1, FS_Subset, FS_CardinalityType
<1>2. now \in 0..now /\ n \in Time
    BY Readings DEF ThrottleInv
<1>3. /\ New(a, n).when = now /\ New(a, n).seen = n /\ New(a, n).nth = Cardinality(Now(a)) + 1
      /\ New(a, n) \in [when : 0..now, nth : Nat, seen : Time]
    BY <1>1, <1>2 DEF New
<1>4. ~(Cardinality(Now(a)) + 1 <= Cardinality(Now(a)))
    BY <1>1
<1>5. \A F \in {hits[a], failed[a]} : \A f \in F : f.when = now => f.nth <= Cardinality(Now(a))
    BY DEF ThrottleInv
<1>6. \A F \in {hits[a], failed[a]} : New(a, n) \notin F
    BY <1>3, <1>4, <1>5
<1> QED BY <1>1, <1>3, <1>6

LEMMA FailureBounded ==
    ASSUME ThrottleInv, NEW c \in Caller, NEW n \in Reading, Refused(c, n), try[c].from \in Address
    PROVE  ThrottleInv'
<1>2. PICK a \in Address : a = try[c].from
    OBVIOUS
<1>0. PICK f : f = New(a, n)
    OBVIOUS
<1>1. /\ hits' = [Uncrowded(a, n) EXCEPT ![a] = @ \union {f}]
      /\ failed' = [failed EXCEPT ![a] = @ \union {f}]
      /\ try' = [try EXCEPT ![c] = AtRest] /\ now' = now /\ try[c].at = "waiting"
    BY <1>2, <1>0 DEF Refused, Failure
<1>3. /\ f \in [when : 0..now, nth : Nat, seen : Time]
      /\ f.when = now /\ f.seen = n /\ f.nth = Cardinality(Now(a)) + 1
      /\ f \notin failed[a] /\ IsFiniteSet(Now(a)) /\ Cardinality(Now(a)) \in Nat
    BY <1>2, <1>0, NewIsNew
<1>4. /\ \A b \in Address : Uncrowded(a, n)[b] \in SUBSET hits[b]
      /\ \A b \in Address : Counting(b) \subseteq Uncrowded(a, n)[b]
      /\ DOMAIN Uncrowded(a, n) = Address
    BY UncrowdedKeeps
<1>5. DOMAIN hits = Address /\ DOMAIN failed = Address /\ now \in Time
    BY DEF ThrottleInv
<1>6. /\ hits'[a] = Uncrowded(a, n)[a] \union {f} /\ failed'[a] = failed[a] \union {f}
      /\ \A b \in Address \ {a} : hits'[b] = Uncrowded(a, n)[b] /\ failed'[b] = failed[b]
      /\ DOMAIN hits' = Address /\ DOMAIN failed' = Address
    BY <1>1, <1>4, <1>5
<1>7. /\ Now(a)' = Now(a) \union {f} /\ f \notin Now(a)
      /\ \A b \in Address \ {a} : Now(b)' = Now(b)
    BY <1>1, <1>3, <1>6 DEF Now
<1>8. Cardinality(Now(a)') = Cardinality(Now(a)) + 1
    BY <1>3, <1>7, FS_AddElement
<1>9. \A b \in Address : Cardinality(Now(b)) \in Nat /\ Cardinality(Now(b)) <= Cardinality(Now(b)')
    <2>1. \A b \in Address : Cardinality(Now(b)) \in Nat
        BY NewIsNew, ClockAssumption, <1>5 DEF Reading, Time
    <2> QED BY <1>7, <1>8, <2>1
<1>10. n \in Nat /\ now \in Nat /\ n <= now /\ now <= n + Lag
    BY <1>5, Readings
<1>11. ASSUME NEW b \in Address, NEW F \in {hits'[b], failed'[b]}
       PROVE  /\ IsFiniteSet(F)
              /\ F \subseteq [when : 0..now, nth : Nat, seen : Time]
              /\ \A g \in F : g.seen <= g.when /\ g.when <= g.seen + Lag
              /\ \A g \in F : g.when = now => g.nth <= Cardinality(Now(b)')
    <2>1. PICK E \in {hits[b], failed[b]} :
            \E G \in SUBSET E : F = G \/ (b = a /\ F = G \union {f})
        BY <1>4, <1>6, <1>11
    <2>2. PICK G \in SUBSET E : F = G \/ (b = a /\ F = G \union {f})
        BY <2>1
    <2>3. /\ IsFiniteSet(E) /\ E \subseteq [when : 0..now, nth : Nat, seen : Time]
          /\ \A g \in E : g.seen <= g.when /\ g.when <= g.seen + Lag
          /\ \A g \in E : g.when = now => g.nth <= Cardinality(Now(b))
        BY DEF ThrottleInv
    <2>4. IsFiniteSet(F)
        BY <2>2, <2>3, FS_Subset, FS_AddElement
    <2>5. \A g \in G : g.when = now => g.nth <= Cardinality(Now(b)')
        <3>1. \A g \in G : g.nth \in Nat
            BY <2>3
        <3>2. Cardinality(Now(b)') \in Nat
            BY <1>3, <1>7, <1>8, <1>9
        <3> QED BY <1>9, <2>3, <3>1, <3>2
    <2>6. b = a => f.nth <= Cardinality(Now(b)')
        BY <1>3, <1>8
    <2>7. f.seen <= f.when /\ f.when <= f.seen + Lag
        BY <1>3, <1>10
    <2> QED BY <1>3, <2>2, <2>3, <2>4, <2>5, <2>6, <2>7
<1>12. ASSUME NEW b \in Address
       PROVE  /\ Counting(b)' \subseteq hits'[b]
              /\ Cardinality(Counting(b)') + Cardinality(Waiting(b)')
                    <= MaxAttempts - 1 + Cardinality(Caller)
    <2>1. /\ Cardinality(Counting(b)) \in Nat /\ Cardinality(Waiting(b)) \in Nat
          /\ IsFiniteSet(Counting(b)) /\ IsFiniteSet(Waiting(b))
          /\ Cardinality(Caller) \in Nat /\ MaxAttempts \in Nat
        BY CountingFinite, CallersFinite, AttemptsAssumption
    <2>2. Cardinality(Counting(b)) + Cardinality(Waiting(b)) <= MaxAttempts - 1 + Cardinality(Caller)
        BY DEF ThrottleInv
    <2>3. DOMAIN try = Caller /\ \A d \in Caller \ {c} : try'[d] = try[d]
        BY <1>1 DEF ThrottleInv
    <2>4. Waiting(b)' = Waiting(b) \ {c}
        BY <1>1, <2>3 DEF Waiting, AtRest
    <2>5. CASE b = a
        <3>1. c \in Waiting(b)
            BY <1>2, <1>0, <1>1, <2>5 DEF Waiting
        <3>2. Cardinality(Waiting(b)') = Cardinality(Waiting(b)) - 1
            BY <2>1, <2>4, <3>1, FS_RemoveElement
        <3>3. Counting(b)' \in SUBSET (Counting(b) \union {f})
            BY <1>1, <1>6, <2>5 DEF Counting
        <3>4. /\ IsFiniteSet(Counting(b) \union {f})
              /\ Cardinality(Counting(b) \union {f}) <= Cardinality(Counting(b)) + 1
            <4>1. /\ IsFiniteSet(Counting(b) \union {f})
                  /\ Cardinality(Counting(b) \union {f}) = IF f \in Counting(b)
                        THEN Cardinality(Counting(b)) ELSE Cardinality(Counting(b)) + 1
                BY <2>1, FS_AddElement
            <4>2. Cardinality(Counting(b) \union {f}) \in {Cardinality(Counting(b)), Cardinality(Counting(b)) + 1}
                BY <4>1
            <4> QED BY <2>1, <4>1, <4>2
        <3>5. /\ Cardinality(Counting(b)') <= Cardinality(Counting(b)) + 1
              /\ Cardinality(Counting(b)') \in Nat
            <4>1. /\ Cardinality(Counting(b)') <= Cardinality(Counting(b) \union {f})
                  /\ Cardinality(Counting(b)') \in Nat
                  /\ Cardinality(Counting(b) \union {f}) \in Nat
                BY <3>3, <3>4, FS_Subset, FS_CardinalityType
            <4> QED BY <2>1, <3>4, <4>1
        <3>6. Counting(b)' \subseteq hits'[b]
            BY <1>4, <1>6, <2>5, <3>3
        <3> QED BY <2>1, <2>2, <3>2, <3>5, <3>6
    <2>6. CASE b # a
        <3>1. Counting(b)' = Counting(b) /\ hits'[b] = Uncrowded(a, n)[b]
            BY <1>1, <1>6, <2>6 DEF Counting
        <3>2. Cardinality(Waiting(b)') <= Cardinality(Waiting(b)) /\ Cardinality(Waiting(b)') \in Nat
            <4>1. Waiting(b)' \in SUBSET Waiting(b)
                BY <2>4
            <4> QED BY <2>1, <4>1, FS_Subset, FS_CardinalityType
        <3> QED BY <1>4, <2>1, <2>2, <3>1, <3>2
    <2> QED BY <2>5, <2>6
<1>13. try' \in [Caller -> Try]
    BY <1>1 DEF ThrottleInv, Try
<1>14. \A b \in Address : \A F \in {hits'[b], failed'[b]} :
        /\ IsFiniteSet(F)
        /\ F \subseteq [when : 0..now', nth : Nat, seen : Time]
        /\ \A g \in F : g.seen <= g.when /\ g.when <= g.seen + Lag
        /\ \A g \in F : g.when = now' => g.nth <= Cardinality(Now(b)')
    BY <1>1, <1>11
<1>15. now' \in Time /\ DOMAIN hits' = Address /\ DOMAIN failed' = Address
    BY <1>1, <1>5, <1>6
<1> QED BY <1>12, <1>13, <1>14, <1>15 DEF ThrottleInv

LEMMA OptionsBounded ==
    ASSUME ThrottleInv, NEW a \in Address, NEW h \in Challenge, NEW n \in Reading, Options(a, h, n)
    PROVE  ThrottleInv'
<1>1. Trim(a, n) /\ UNCHANGED <<now, failed>> /\ try' = try
    BY DEF Options
<1>2. try' \in [Caller -> Try]
    BY <1>1 DEF ThrottleInv
<1>3. \A b \in Address : Cardinality(Waiting(b)') <= Cardinality(Waiting(b))
    <2>1. \A b : Waiting(b)' = Waiting(b) /\ Cardinality(Waiting(b)) \in Nat
        BY <1>1, CallersFinite DEF Waiting
    <2> QED BY <2>1
<1> QED BY <1>1, <1>2, <1>3, TrimKeeps

LEMMA EnterBounded ==
    ASSUME ThrottleInv, NEW c \in Caller, NEW a \in Address,
           NEW h \in Challenge \union {NoChallenge},
           NEW n \in Reading, NEW m \in Reading, NEW k \in Reading,
           Enter(c, a, h, n, m, k)
    PROVE  ThrottleInv'
<1>1. Trim(a, n) /\ UNCHANGED <<now, failed>> /\ try[c].at = "idle"
    BY DEF Enter
<1>2. \/ try' = try
      \/ Allowed(a, n) /\ \E g \in BOOLEAN :
            try' = [try EXCEPT ![c] = [at |-> "waiting", from |-> a, good |-> g]]
    <2>1. (h = NoChallenge) \in BOOLEAN /\ Spends(h, k) \in BOOLEAN
        BY DEF Spends
    <2>2. CASE ~Allowed(a, n)
        BY <2>2 DEF Enter
    <2>3. CASE Allowed(a, n) /\ (h = NoChallenge \/ ~Fresh(h, m))
        BY <2>1, <2>3 DEF Enter
    <2>4. CASE Allowed(a, n) /\ ~(h = NoChallenge \/ ~Fresh(h, m))
        <3>1. try' = [try EXCEPT ![c] = [at |-> "waiting", from |-> a, good |-> Spends(h, k)]]
            BY <2>4 DEF Enter
        <3> QED BY <2>1, <2>4, <3>1
    <2> QED BY <2>2, <2>3, <2>4
<1>3. try \in [Caller -> Try]
    BY DEF ThrottleInv
<1>4. try' \in [Caller -> Try]
    BY <1>2, <1>3 DEF Try
<1>5. ASSUME NEW b \in Address
      PROVE  Cardinality(Waiting(b)') <= Cardinality(Waiting(b)) \/ (b = a /\ Allowed(a, n))
    <2>1. Cardinality(Waiting(b)) \in Nat
        BY CallersFinite
    <2>2. CASE Waiting(b)' = Waiting(b)
        BY <2>1, <2>2
    <2>3. CASE b # a
        <3>1. Waiting(b)' = Waiting(b)
            BY <1>1, <1>2, <1>3, <2>3 DEF Waiting
        <3> QED BY <2>2, <3>1
    <2>4. CASE try' = try
        BY <2>2, <2>4 DEF Waiting
    <2> QED BY <1>2, <2>3, <2>4
<1> QED BY <1>1, <1>4, <1>5, TrimKeeps

LEMMA SucceedBounded == ASSUME ThrottleInv, NEW c \in Caller, Succeed(c) PROVE ThrottleInv'
<1>1. UNCHANGED <<now, hits, failed>> /\ try' = [try EXCEPT ![c] = AtRest]
    BY DEF Succeed
<1>2. try \in [Caller -> Try] /\ try' \in [Caller -> Try]
    BY <1>1 DEF ThrottleInv, Try
<1>3. \A b \in Address : Counting(b)' = Counting(b) /\ Now(b)' = Now(b)
    BY <1>1 DEF Counting, Now
<1>4. ASSUME NEW b \in Address
      PROVE  Cardinality(Counting(b)) + Cardinality(Waiting(b)') <= MaxAttempts - 1 + Cardinality(Caller)
    <2>1. Waiting(b)' \in SUBSET Waiting(b)
        BY <1>1, <1>2 DEF Waiting, AtRest
    <2>2. /\ Cardinality(Waiting(b)') <= Cardinality(Waiting(b))
          /\ Cardinality(Waiting(b)') \in Nat /\ Cardinality(Waiting(b)) \in Nat
        BY <2>1, CallersFinite, FS_Subset, FS_CardinalityType
    <2>3. Cardinality(Counting(b)) \in Nat /\ Cardinality(Caller) \in Nat /\ MaxAttempts \in Nat
        BY CountingFinite, CallersFinite, AttemptsAssumption
    <2> QED BY <2>2, <2>3 DEF ThrottleInv
<1> QED BY <1>1, <1>2, <1>3, <1>4 DEF ThrottleInv

LEMMA ThrottleStep == ThrottleInv /\ [AttemptsNext]_<<now, attempts>> => ThrottleInv'
<1> SUFFICES ASSUME ThrottleInv, [AttemptsNext]_<<now, attempts>> PROVE ThrottleInv'
    OBVIOUS
<1>1. CASE TimePasses
    BY <1>1, TimeBounded
<1>2. ASSUME NEW a \in Address, NEW h \in Challenge, NEW n \in Reading, Options(a, h, n)
      PROVE  ThrottleInv'
    BY <1>2, OptionsBounded
<1>3. ASSUME NEW c \in Caller, NEW a \in Address, NEW h \in Challenge \union {NoChallenge},
             NEW n \in Reading, NEW m \in Reading, NEW k \in Reading, Enter(c, a, h, n, m, k)
      PROVE  ThrottleInv'
    BY <1>3, EnterBounded
<1>4. ASSUME NEW c \in Caller, NEW n \in Reading, Refused(c, n) PROVE ThrottleInv'
    <2>1. try[c].from \in Address
        BY <1>4 DEF Refused, ThrottleInv, Try, AtRest
    <2> QED BY <1>4, <2>1, FailureBounded
<1>5. ASSUME NEW c \in Caller, Succeed(c) PROVE ThrottleInv'
    BY <1>5, SucceedBounded
<1>6. CASE UNCHANGED <<now, attempts>>
    BY <1>6 DEF attempts, ThrottleInv, Counting, Waiting, Now
<1> QED BY <1>1, <1>2, <1>3, <1>4, <1>5, <1>6 DEF AttemptsNext

\* Whatever its requests race with, and whatever the throttle forgets, an
\* address gets no more failures in a window than were let in while there was
\* room.
THEOREM FailuresBoundedAlways == AttemptsSpec => []FailuresBounded
<1>1. AttemptsSpec => []ThrottleInv
    BY ThrottleInitial, ThrottleStep, PTL DEF AttemptsSpec
<1>2. ThrottleInv => FailuresBounded
    <2> SUFFICES ASSUME ThrottleInv, NEW a \in Address
                 PROVE  Cardinality(Counting(a)) <= MaxAttempts - 1 + Cardinality(Caller)
        BY DEF FailuresBounded
    <2>1. /\ Cardinality(Counting(a)) \in Nat /\ Cardinality(Waiting(a)) \in Nat
          /\ Cardinality(Caller) \in Nat /\ MaxAttempts \in Nat
        BY CountingFinite, CallersFinite, AttemptsAssumption
    <2> QED BY <2>1 DEF ThrottleInv
<1> QED BY <1>1, <1>2, PTL

=============================================================================
