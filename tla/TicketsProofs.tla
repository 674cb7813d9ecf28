--------------------------- MODULE TicketsProofs ----------------------------
(***************************************************************************)
(* That passes and tokens keep to their windows, for any number of         *)
(* tickets and requests, any limits, and any age of a reading.  Everything *)
(* follows from what the tables say of a live ticket (Dated): every        *)
(* operation either leaves a ticket's times alone, opens its window anew,  *)
(* or takes it out.                                                        *)
(***************************************************************************)
EXTENDS Tickets, FiniteSetTheorems, SequenceTheorems, TLAPS

\* What the constants are, in a form the provers like
LEMMA Constants ==
    /\ Idle \in Nat /\ Ttl \in Nat /\ Hard \in Nat /\ Lag \in Nat /\ MaxTime \in Nat
    /\ \A t : Window(t) \in Nat /\ Window(t) <= Hard
BY ClockAssumption, WindowAssumption DEF Window

LEMMA Readings ==
    ASSUME TypeOK, NEW n \in Reading
    PROVE  n \in Time /\ n \in Nat /\ now \in Nat /\ n <= now /\ now <= n + Lag /\ now <= MaxTime
BY ClockAssumption DEF TypeOK, Reading, Time

LEMMA LesserIs == \A a, b \in Int : Lesser(a, b) \in {a, b} /\ Lesser(a, b) <= a /\ Lesser(a, b) <= b
BY DEF Lesser

LEMMA LiveFinite ==
    ASSUME NEW S
    PROVE  IsFiniteSet(live \intersect S) /\ Cardinality(live \intersect S) \in Nat
<1>1. live \intersect S \in SUBSET Ticket
    BY DEF live
<1> QED BY <1>1, TicketAssumption, FS_Subset, FS_CardinalityType

(***************************************************************************)
(* The record of the ended tokens                                          *)
(***************************************************************************)
LEMMA KeepTyped == ASSUME NEW s \in Seq(Token) PROVE Keep(s) \in Seq(Token)
<1>1. Len(s) \in Nat /\ MaxEnded \in Nat
    BY LimitAssumption, LenProperties
<1>2. CASE Len(s) > MaxEnded
    <2>1. \A i \in (Len(s) - MaxEnded + 1)..Len(s) : s[i] \in Token
        BY <1>1, <1>2, ElementOfSeq
    <2>2. Len(s) - MaxEnded + 1 \in Int /\ Len(s) \in Int
        BY <1>1
    <2>3. SubSeq(s, Len(s) - MaxEnded + 1, Len(s)) \in Seq(Token)
        BY <2>1, <2>2, SubSeqProperties
    <2> QED BY <1>2, <2>3 DEF Keep
<1>3. CASE ~(Len(s) > MaxEnded)
    BY <1>3 DEF Keep
<1> QED BY <1>2, <1>3

LEMMA OrderTyped ==
    ASSUME NEW D, IsFiniteSet(D), NEW s \in Orders(D \intersect Token)
    PROVE  s \in Seq(Token)
<1>1. IsFiniteSet(D \intersect Token)
    BY FS_Subset
<1>2. Cardinality(D \intersect Token) \in Nat
    BY <1>1, FS_CardinalityType
<1>3. s \in [1..Cardinality(D \intersect Token) -> Token]
    BY DEF Orders
<1>4. [1..Cardinality(D \intersect Token) -> Token] \in {[1..m -> Token] : m \in Nat}
    BY <1>2, Zenon
<1> QED BY <1>3, <1>4, SeqDef, Zenon

LEMMA RecordTyped ==
    ASSUME ended \in Seq(Token), NEW dead, NEW out, IsFiniteSet(dead), IsFiniteSet(out),
           Record(dead, out)
    PROVE  ended' \in Seq(Token)
<1>1. PICK s \in Orders(dead \intersect Token), e \in Orders(out \intersect Token) :
        ended' = Keep(ended \o s \o e)
    BY DEF Record
<1>2. s \in Seq(Token) /\ e \in Seq(Token)
    BY OrderTyped
<1>3. ended \o s \in Seq(Token)
    BY <1>2, ConcatProperties
<1>4. ended \o s \o e \in Seq(Token)
    BY <1>2, <1>3, ConcatProperties
<1> QED BY <1>1, <1>4, KeepTyped

(***************************************************************************)
(* Operations that let no ticket in                                        *)
(***************************************************************************)
LEMMA LeftTyped ==
    ASSUME fate \in [Ticket -> Fate], NEW dead, NEW out, NEW why \in Fate \ {"live"}
    PROVE  /\ Left(dead, out, why) \in [Ticket -> Fate]
           /\ \A t \in Ticket : Left(dead, out, why)[t] = "live" =>
                fate[t] = "live" /\ t \notin dead /\ t \notin out
           /\ \A t \in Ticket : Left(dead, out, why)[t] = "expired" =>
                t \in dead \/ (t \in out /\ why = "expired") \/ fate[t] = "expired"
BY DEF Left, Fate

\* What stays in the tables was there.
Fewer == fate' \in [Ticket -> Fate] /\ \A t \in Ticket : fate'[t] = "live" => fate[t] = "live"

LEMMA FewerFit == ASSUME Tables, Fewer PROVE Tables'
<1>1. live' \subseteq live
    BY DEF Fewer, live
<1>2. ASSUME NEW S
      PROVE  /\ Cardinality(live' \intersect S) \in Nat
             /\ Cardinality(live' \intersect S) <= Cardinality(live \intersect S)
    <2>1. live' \intersect S \in SUBSET (live \intersect S)
        BY <1>1
    <2>2. IsFiniteSet(live' \intersect S)
        BY <2>1, LiveFinite, FS_Subset
    <2> QED BY <2>1, <2>2, LiveFinite, FS_Subset, FS_CardinalityType
<1>3. ASSUME NEW S, NEW m \in Nat, Cardinality(live \intersect S) <= m
      PROVE  Cardinality(live' \intersect S) <= m
    <2>1. Cardinality(live \intersect S) \in Nat
        BY LiveFinite
    <2> QED BY <1>2, <1>3, <2>1
<1>4. MaxPasses \in Nat /\ MaxTokens \in Nat
    BY LimitAssumption
<1>5. Cardinality(live' \intersect Pass) <= MaxPasses
    BY <1>3, <1>4 DEF Tables
<1>6. Cardinality(live' \intersect Token) <= MaxTokens
    BY <1>3, <1>4 DEF Tables
<1> QED BY <1>5, <1>6 DEF Tables

Times == [born : Time, until : 0..(MaxTime + Hard), made : Time, open : Time]

LEMMA KeptTyped ==
    ASSUME NEW ts \in [Ticket -> Times], Kept(ts)
    PROVE  /\ times' \in [Ticket -> Times]
           /\ \A t \in Ticket : fate'[t] = "live" => times'[t] = ts[t]
<1>1. Blank \in Times
    BY Constants DEF Blank, Times, Time
<1> QED BY <1>1 DEF Kept

LEMMA FewerDated ==
    ASSUME TypeOK, \A t \in live : Dated(t), Fewer, Kept(times), now' = now
    PROVE  times' \in [Ticket -> Times] /\ \A t \in live' : Dated(t)'
<1>1. times \in [Ticket -> Times]
    BY DEF TypeOK, Times
<1>2. times' \in [Ticket -> Times] /\ \A t \in Ticket : fate'[t] = "live" => times'[t] = times[t]
    BY <1>1, KeptTyped
<1>3. \A t \in live' : t \in live /\ times'[t] = times[t]
    BY <1>2 DEF Fewer, live
<1> QED BY <1>2, <1>3 DEF Dated

\* The window opened anew
LEMMA SlidDated ==
    ASSUME TypeOK, NEW t \in Ticket, t \in live, Dated(t), NEW n \in Reading
    PROVE  /\ Slid(t, n) \in 0..(MaxTime + Hard)
           /\ Slid(t, n) <= now + Window(t)
           /\ \/ Slid(t, n) >= now + Window(t) - Lag
              \/ (t \in Token /\ Slid(t, n) >= times[t].born + Hard)
<1>1. /\ times[t].born \in Nat /\ times[t].born <= MaxTime
      /\ n \in Nat /\ n <= now /\ now <= n + Lag /\ now <= MaxTime /\ now \in Nat
    BY Readings, Constants DEF TypeOK, Time
<1>2. CASE t \in Pass
    BY <1>1, <1>2, Constants DEF Slid, Window
<1>3. CASE t \notin Pass
    <2>1. t \in Token
        BY <1>3 DEF Ticket
    <2> QED BY <1>1, <1>3, <2>1, Constants DEF Slid, Window, Lesser
<1> QED BY <1>2, <1>3

LEMMA OpenDated ==
    ASSUME TypeOK, \A u \in live : Dated(u), Fewer, now' = now,
           NEW t \in Ticket, NEW n \in Reading, NEW slides \in BOOLEAN, Open(t, n, slides)
    PROVE  times' \in [Ticket -> Times] /\ \A u \in live' : Dated(u)'
<1>1. CASE ~(Found(t, n) /\ slides)
    <2>1. Kept(times)
        BY <1>1 DEF Open
    <2> QED BY <2>1, FewerDated
<1>2. CASE Found(t, n) /\ slides
    <2> DEFINE ts == [times EXCEPT ![t].until = Slid(t, n), ![t].open = now]
    <2>1. Kept(ts)
        BY <1>2 DEF Open
    <2>2. t \in live /\ Dated(t)
        BY <1>2 DEF Found
    <2>3. times \in [Ticket -> Times] /\ now \in Time
        BY DEF TypeOK, Times
    <2>4. Slid(t, n) \in 0..(MaxTime + Hard)
        BY <2>2, SlidDated
    <2>5. ts[t] = [times[t] EXCEPT !.until = Slid(t, n), !.open = now]
        BY <2>3
    <2>6. \A u \in Ticket : u # t => ts[u] = times[u]
        BY <2>3
    <2>7. ts[t] \in Times /\ ts[t].until = Slid(t, n) /\ ts[t].open = now
          /\ ts[t].born = times[t].born /\ ts[t].made = times[t].made
        BY <2>3, <2>4, <2>5, ZenonT(40) DEF Times
    <2>8. ts \in [Ticket -> Times]
        BY <2>3, <2>6, <2>7
    <2> HIDE DEF ts
    <2>9. times' \in [Ticket -> Times] /\ \A u \in Ticket : fate'[u] = "live" => times'[u] = ts[u]
        BY <2>1, <2>8, KeptTyped
    <2>10. ASSUME NEW u \in live' PROVE Dated(u)'
        <3>1. u \in live /\ u \in Ticket /\ times'[u] = ts[u]
            BY <2>9, <2>10 DEF Fewer, live
        <3>2. CASE u # t
            BY <2>6, <3>1, <3>2 DEF Dated
        <3>3. CASE u = t
            <4>1. /\ Slid(t, n) <= now + Window(t)
                  /\ \/ Slid(t, n) >= now + Window(t) - Lag
                     \/ (t \in Token /\ Slid(t, n) >= times[t].born + Hard)
                BY <2>2, SlidDated
            <4>2. /\ times[t].born <= times[t].made /\ times[t].made <= times[t].born + Lag
                  /\ times[t].made <= now
                <5>1. times[t].made \in Int /\ times[t].open \in Int /\ now \in Int
                    BY <2>3 DEF Times, Time
                <5> QED BY <2>2, <5>1 DEF Dated
            <4>3. now <= now
                BY <2>3 DEF Time
            <4> QED BY <2>7, <3>1, <3>3, <4>1, <4>2, <4>3 DEF Dated, Window
        <3> QED BY <3>2, <3>3
    <2> QED BY <2>9, <2>10
<1> QED BY <1>1, <1>2

(***************************************************************************)
(* Issue                                                                   *)
(***************************************************************************)
LEMMA IssueDated ==
    ASSUME TypeOK, \A u \in live : Dated(u), NEW t \in Ticket, NEW n \in Reading,
           Issue(t, n), fate' \in [Ticket -> Fate],
           \A u \in Ticket : u # t /\ fate'[u] = "live" => fate[u] = "live"
    PROVE  times' \in [Ticket -> Times] /\ \A u \in live' : Dated(u)'
<1> DEFINE new == [born |-> n, until |-> n + Window(t), made |-> now, open |-> now]
           ts == [times EXCEPT ![t] = new]
<1>1. /\ n \in Time /\ now \in Time /\ n \in Nat /\ now \in Nat
      /\ n <= now /\ now <= n + Lag /\ now <= MaxTime
    BY Readings DEF TypeOK
<1>2. n + Window(t) \in 0..(MaxTime + Hard)
    BY <1>1, Constants
<1>3. new \in Times
    BY <1>1, <1>2 DEF Times
<1>4. ts \in [Ticket -> Times] /\ ts[t] = new /\ \A u \in Ticket : u # t => ts[u] = times[u]
    BY <1>3 DEF TypeOK, Times
<1>5. Kept(ts) /\ now' = now
    BY DEF Issue
<1>6. new.born = n /\ new.until = n + Window(t) /\ new.made = now /\ new.open = now
    OBVIOUS
<1> HIDE DEF ts, new
<1>7. times' \in [Ticket -> Times] /\ \A u \in Ticket : fate'[u] = "live" => times'[u] = ts[u]
    BY <1>4, <1>5, KeptTyped
<1>8. ASSUME NEW u \in live' PROVE Dated(u)'
    <2>1. times'[u] = ts[u] /\ u \in Ticket /\ fate'[u] = "live"
        BY <1>7, <1>8 DEF live
    <2>2. CASE u # t
        BY <1>4, <1>5, <2>1, <2>2 DEF Dated, live
    <2>3. CASE u = t
        <3>1. times'[u] = new
            BY <1>4, <2>1, <2>3
        <3>2. Window(t) \in Nat /\ Lag \in Nat
            BY Constants
        <3> QED BY <1>1, <1>5, <1>6, <2>3, <3>1, <3>2 DEF Dated, Window
    <2> QED BY <2>2, <2>3
<1> QED BY <1>7, <1>8

\* What is dropped of a table that is full makes room for one.
LEMMA RoomMade ==
    ASSUME NEW t \in Ticket, NEW left, IsFiniteSet(left), Cardinality(left) <= MaxLive(t),
           NEW out \in Evictable(t, left), NEW x
    PROVE  /\ IsFiniteSet((left \ out) \union {x})
           /\ Cardinality((left \ out) \union {x}) <= MaxLive(t)
<1>1. Cardinality(left) \in Nat /\ MaxLive(t) \in Nat \ {0}
    BY FS_CardinalityType, LimitAssumption DEF MaxLive
<1>2. CASE Cardinality(left) < MaxLive(t)
    <2>1. left \ out = left
        BY <1>2 DEF Evictable
    <2>2. /\ IsFiniteSet(left \union {x})
          /\ Cardinality(left \union {x}) = IF x \in left THEN Cardinality(left)
                                             ELSE Cardinality(left) + 1
        BY FS_AddElement
    <2> QED BY <1>1, <1>2, <2>1, <2>2
<1>3. CASE ~(Cardinality(left) < MaxLive(t))
    <2>1. PICK u \in left : out = {u}
        BY <1>3 DEF Evictable, Least
    <2>2. IsFiniteSet(left \ {u}) /\ Cardinality(left \ {u}) = Cardinality(left) - 1
        BY <2>1, FS_RemoveElement
    <2>3. /\ IsFiniteSet((left \ {u}) \union {x})
          /\ Cardinality((left \ {u}) \union {x}) =
                IF x \in left \ {u} THEN Cardinality(left \ {u}) ELSE Cardinality(left \ {u}) + 1
        BY <2>2, FS_AddElement
    <2> QED BY <1>1, <2>1, <2>2, <2>3
<1> QED BY <1>2, <1>3

LEMMA IssueFits ==
    ASSUME TypeOK, Tables, NEW t \in Ticket, NEW n \in Reading, Issue(t, n)
    PROVE  Tables'
<1> DEFINE left == (live \intersect Kin(t)) \ Dead(Kin(t), n)
<1>1. PICK out \in Evictable(t, left) :
        fate' = [Left(Dead(Kin(t), n), out, "evicted") EXCEPT ![t] = "live"]
    BY DEF Issue
<1>2. /\ \A u \in live' : u = t \/ (u \in live /\ u \notin Dead(Kin(t), n) /\ u \notin out)
      /\ live' \subseteq Ticket
    BY <1>1 DEF live, Left
<1>3. live' \intersect Kin(t) \subseteq (left \ out) \union {t}
    BY <1>2
<1>4. left \subseteq live \intersect Kin(t)
    OBVIOUS
<1>5. IsFiniteSet(live \intersect Kin(t)) /\ Cardinality(live \intersect Kin(t)) \in Nat
    BY LiveFinite
<1>6. MaxLive(t) \in Nat /\ Cardinality(live \intersect Kin(t)) <= MaxLive(t)
    BY LimitAssumption DEF Tables, MaxLive, Kin
<1>7. IsFiniteSet(left) /\ Cardinality(left) \in Nat /\ Cardinality(left) <= MaxLive(t)
    <2>1. IsFiniteSet(left) /\ Cardinality(left) <= Cardinality(live \intersect Kin(t))
        BY <1>4, <1>5, FS_Subset
    <2> QED BY <1>5, <1>6, <2>1, FS_CardinalityType
<1> HIDE DEF left
<1>8. /\ IsFiniteSet((left \ out) \union {t})
      /\ Cardinality((left \ out) \union {t}) <= MaxLive(t)
    BY <1>1, <1>7, RoomMade
<1>9. Cardinality(live' \intersect Kin(t)) <= MaxLive(t)
    <2>1. /\ IsFiniteSet(live' \intersect Kin(t))
          /\ Cardinality(live' \intersect Kin(t)) <= Cardinality((left \ out) \union {t})
        BY <1>3, <1>8, FS_Subset
    <2>2. /\ Cardinality(live' \intersect Kin(t)) \in Nat
          /\ Cardinality((left \ out) \union {t}) \in Nat
        BY <1>8, <2>1, FS_CardinalityType
    <2> QED BY <1>6, <1>8, <2>1, <2>2
<1>10. ASSUME NEW S, S \intersect Kin(t) = {}, t \in Kin(t), NEW m \in Nat,
              Cardinality(live \intersect S) <= m
       PROVE  Cardinality(live' \intersect S) <= m
    <2>1. live' \intersect S \in SUBSET (live \intersect S)
        BY <1>2, <1>10
    <2>2. IsFiniteSet(live \intersect S) /\ Cardinality(live \intersect S) \in Nat
        BY LiveFinite
    <2>3. /\ IsFiniteSet(live' \intersect S)
          /\ Cardinality(live' \intersect S) <= Cardinality(live \intersect S)
        BY <2>1, <2>2, FS_Subset
    <2>4. Cardinality(live' \intersect S) \in Nat
        BY <2>3, FS_CardinalityType
    <2> QED BY <1>10, <2>2, <2>3, <2>4
<1>11. CASE t \in Pass
    <2>1. Kin(t) = Pass /\ MaxLive(t) = MaxPasses /\ Token \intersect Kin(t) = {}
        BY <1>11, TicketAssumption DEF Kin, MaxLive
    <2>2. Cardinality(live' \intersect Token) <= MaxTokens
        BY <1>10, <1>11, <2>1, LimitAssumption DEF Tables
    <2> QED BY <1>9, <2>1, <2>2 DEF Tables
<1>12. CASE t \notin Pass
    <2>1. /\ Kin(t) = Token /\ MaxLive(t) = MaxTokens /\ Pass \intersect Kin(t) = {}
          /\ t \in Token
        BY <1>12, TicketAssumption DEF Kin, MaxLive, Ticket
    <2>2. Cardinality(live' \intersect Pass) <= MaxPasses
        BY <1>10, <2>1, LimitAssumption DEF Tables
    <2> QED BY <1>9, <2>1, <2>2 DEF Tables
<1> QED BY <1>11, <1>12

(***************************************************************************)
(* The invariant                                                           *)
(***************************************************************************)
LEMMA RemovalTyped ==
    ASSUME TypeOK, NEW dead \in SUBSET Ticket, NEW out \in SUBSET Ticket,
           NEW why \in Fate \ {"live"}, Record(dead, out), fate' = Left(dead, out, why)
    PROVE  Fewer /\ ended' \in Seq(Token)
<1>1. IsFiniteSet(dead) /\ IsFiniteSet(out)
    BY TicketAssumption, FS_Subset
<1>2. ended' \in Seq(Token)
    BY <1>1, RecordTyped DEF TypeOK
<1> QED BY <1>2, LeftTyped DEF TypeOK, Fewer

LEMMA PruneTyped ==
    ASSUME TypeOK, NEW kin, NEW n, Prune(kin, n) PROVE Fewer /\ ended' \in Seq(Token)
<1>1. Dead(kin, n) \in SUBSET Ticket /\ {} \in SUBSET Ticket
    BY DEF Dead, live
<1>2. "expired" \in Fate \ {"live"}
    BY DEF Fate
<1> QED BY <1>1, <1>2, RemovalTyped DEF Prune

LEMMA TicketInitial == Init => TicketInv
<1> SUFFICES ASSUME Init PROVE TicketInv
    OBVIOUS
<1>1. TypeOK
    BY Constants, EmptySeq DEF Init, TypeOK, Time, Fate, Blank, Free
<1>2. live = {}
    BY DEF Init, live
<1>3. Cardinality({}) = 0 /\ live \intersect Pass = {} /\ live \intersect Token = {}
    BY <1>2, FS_EmptySet
<1>4. Tables
    BY <1>3, LimitAssumption DEF Tables
<1> QED BY <1>1, <1>2, <1>4 DEF TicketInv

LEMMA TickKeeps == TicketInv /\ Tick => TicketInv'
<1> SUFFICES ASSUME TicketInv, Tick PROVE TicketInv'
    OBVIOUS
<1>1. now' \in Time /\ now \in Int /\ now' = now + 1
    BY Constants DEF TicketInv, TypeOK, Tick, Advance, Time
<1>2. TypeOK' /\ Tables'
    BY <1>1 DEF TicketInv, TypeOK, Tables, Tick, live
<1>3. ASSUME NEW t \in live' PROVE Dated(t)'
    <2>1. t \in live /\ times' = times /\ times[t].open \in Int
        BY <1>3, Constants DEF Tick, live, TicketInv, TypeOK, Time
    <2> QED BY <1>1, <2>1 DEF TicketInv, Dated, Window
<1> QED BY <1>2, <1>3 DEF TicketInv

LEMMA IssueKeeps ==
    ASSUME TicketInv, NEW t \in Ticket, NEW n \in Reading, Issue(t, n)
    PROVE  TicketInv'
<1>1. PICK out \in Evictable(t, (live \intersect Kin(t)) \ Dead(Kin(t), n)) :
        /\ Record(Dead(Kin(t), n), out)
        /\ fate' = [Left(Dead(Kin(t), n), out, "evicted") EXCEPT ![t] = "live"]
    BY DEF Issue
<1>2. Dead(Kin(t), n) \in SUBSET Ticket /\ out \in SUBSET Ticket
    BY <1>1 DEF Dead, live, Evictable, Least
<1>3. IsFiniteSet(Dead(Kin(t), n)) /\ IsFiniteSet(out)
    BY <1>2, TicketAssumption, FS_Subset
<1>4. ended' \in Seq(Token)
    BY <1>1, <1>3, RecordTyped DEF TicketInv, TypeOK
<1>5. "evicted" \in Fate \ {"live"} /\ "live" \in Fate
    BY DEF Fate
<1>6. /\ fate' \in [Ticket -> Fate]
      /\ \A u \in Ticket : u # t /\ fate'[u] = "live" => fate[u] = "live"
    BY <1>1, <1>2, <1>5, LeftTyped DEF TicketInv, TypeOK
<1>7. times' \in [Ticket -> Times] /\ \A u \in live' : Dated(u)'
    BY <1>6, IssueDated DEF TicketInv
<1>8. TypeOK'
    BY <1>4, <1>6, <1>7 DEF TicketInv, TypeOK, Times, Issue
<1> QED BY <1>7, <1>8, IssueFits DEF TicketInv

LEMMA RenewKeeps ==
    ASSUME TicketInv, NEW t \in Ticket, NEW n \in Reading, Renew(t, n)
    PROVE  TicketInv'
<1>1. Fewer /\ ended' \in Seq(Token)
    BY PruneTyped DEF Renew, TicketInv
<1>2. times' \in [Ticket -> Times] /\ \A u \in live' : Dated(u)'
    BY <1>1, OpenDated DEF Renew, TicketInv
<1>3. TypeOK'
    BY <1>1, <1>2 DEF TicketInv, TypeOK, Times, Renew, Fewer
<1> QED BY <1>1, <1>2, <1>3, FewerFit DEF TicketInv

LEMMA UseKeeps ==
    ASSUME TicketInv, NEW c \in Request, NEW t \in Ticket, NEW n \in Reading, Use(c, t, n)
    PROVE  TicketInv'
<1>1. Fewer /\ ended' \in Seq(Token)
    BY PruneTyped DEF Use, TicketInv
<1>2. times' \in [Ticket -> Times] /\ \A u \in live' : Dated(u)'
    <2>1. Open(t, n, t \in Pass) /\ now' = now /\ (t \in Pass) \in BOOLEAN
        BY DEF Use
    <2> QED BY <1>1, <2>1, OpenDated DEF TicketInv
<1>3. call' \in [Request -> [at : {"idle", "reading", "sending", "writing"},
                             of : Ticket \union {NoTicket}]]
    BY DEF Use, TicketInv, TypeOK
<1>4. TypeOK'
    BY <1>1, <1>2, <1>3 DEF TicketInv, TypeOK, Times, Use, Fewer
<1> QED BY <1>1, <1>2, <1>4, FewerFit DEF TicketInv

\* A ticket taken out
LEMMA RemovalKeeps ==
    ASSUME TicketInv, Fewer, ended' \in Seq(Token), Kept(times),
           UNCHANGED <<now, audit, call, answered>>
    PROVE  TicketInv'
<1>1. times' \in [Ticket -> Times] /\ \A u \in live' : Dated(u)'
    BY FewerDated DEF TicketInv
<1>2. TypeOK'
    BY <1>1 DEF TicketInv, TypeOK, Times, Fewer
<1> QED BY <1>1, <1>2, FewerFit DEF TicketInv

LEMMA RevokeKeeps ==
    ASSUME TicketInv, NEW t \in Ticket, NEW n \in Reading, Revoke(t, n)
    PROVE  TicketInv'
<1> DEFINE dead == IF t \in Pass THEN {} ELSE Dead(Token, n)
           out == (live \intersect {t}) \ dead
<1>1. dead \in SUBSET Ticket /\ out \in SUBSET Ticket
    BY DEF Dead, live
<1>2. /\ Record(dead, out) /\ fate' = Left(dead, out, "revoked") /\ Kept(times)
      /\ UNCHANGED <<now, audit, call, answered>>
    BY DEF Revoke
<1>3. "revoked" \in Fate \ {"live"}
    BY DEF Fate
<1> HIDE DEF dead, out
<1>4. Fewer /\ ended' \in Seq(Token)
    BY <1>1, <1>2, <1>3, RemovalTyped DEF TicketInv
<1> QED BY <1>2, <1>4, RemovalKeeps

LEMMA RevokeAllKeeps ==
    ASSUME TicketInv, NEW kin, RevokeAll(kin) PROVE TicketInv'
<1>1. {} \in SUBSET Ticket /\ live \intersect kin \in SUBSET Ticket
    BY DEF live
<1>2. "revoked" \in Fate \ {"live"}
    BY DEF Fate
<1>3. Fewer /\ ended' \in Seq(Token)
    BY <1>1, <1>2, RemovalTyped DEF TicketInv, RevokeAll
<1> QED BY <1>3, RemovalKeeps DEF RevokeAll

LEMMA LookKeeps ==
    ASSUME TicketInv, NEW kin, NEW n \in Reading, Look(kin, n) PROVE TicketInv'
<1>1. Fewer /\ ended' \in Seq(Token)
    BY PruneTyped DEF TicketInv, Look
<1> QED BY <1>1, RemovalKeeps DEF Look

\* Steps of a request already let through
LEMMA RequestKeeps ==
    ASSUME TicketInv, NEW c \in Request, NEW n \in Reading,
           Answer(c) \/ Leave(c) \/ Recheck(c, n)
    PROVE  TicketInv'
<1>1. UNCHANGED <<now, fate, times, ended>>
    BY DEF Answer, Leave, Recheck
<1> DEFINE Call == [at : {"idle", "reading", "sending", "writing"}, of : Ticket \union {NoTicket}]
<1>2. call' \in [Request -> Call]
    <2>1. call \in [Request -> Call] /\ Free \in Call
        BY DEF TicketInv, TypeOK, Free
    <2>2. CASE Done(c)
        BY <2>1, <2>2 DEF Done
    <2>3. CASE call' = [call EXCEPT ![c].at = "writing"]
        <3>1. [call[c] EXCEPT !.at = "writing"] \in Call
            BY <2>1
        <3> QED BY <2>1, <2>3, <3>1
    <2> QED BY <2>2, <2>3 DEF Answer, Leave, Recheck
<1>3. audit' \in [Token -> Nat] /\ answered' \in [Token -> Nat]
    <2>1. audit \in [Token -> Nat] /\ answered \in [Token -> Nat]
        BY DEF TicketInv, TypeOK
    <2>2. CASE UNCHANGED <<audit, answered>>
        BY <2>1, <2>2
    <2>3. CASE Answer(c)
        <3> DEFINE t == call[c].of
        <3>1. /\ audit' = IF t \in live THEN [audit EXCEPT ![t] = @ + 1] ELSE audit
              /\ answered' = [answered EXCEPT ![t] = @ + 1]
            BY <2>3 DEF Answer, Noted
        <3> HIDE DEF t
        <3>2. ASSUME NEW f \in [Token -> Nat] PROVE [f EXCEPT ![t] = @ + 1] \in [Token -> Nat]
            <4>1. CASE t \in Token
                BY <4>1
            <4>2. CASE t \notin Token
                BY <4>2
            <4> QED BY <4>1, <4>2
        <3>3. answered' \in [Token -> Nat] /\ audit' \in [Token -> Nat]
            BY <2>1, <3>1, <3>2
        <3> QED BY <3>3
    <2> QED BY <2>2, <2>3 DEF Leave, Recheck
<1> QED BY <1>1, <1>2, <1>3 DEF TicketInv, TypeOK, Tables, Dated, live, Window

LEMMA TicketStep == TicketInv /\ [Next]_<<now, tickets>> => TicketInv'
<1> SUFFICES ASSUME TicketInv, [Next]_<<now, tickets>> PROVE TicketInv'
    OBVIOUS
<1>1. ASSUME NEW kin \in {Pass, Token}, Step(kin) PROVE TicketInv'
    <2>1. kin \subseteq Ticket
        BY DEF Ticket
    <2>2. ASSUME NEW t \in kin, NEW n \in Reading,
                 \/ Issue(t, n) \/ Renew(t, n) \/ Revoke(t, n)
                 \/ \E c \in Request : Use(c, t, n)
          PROVE  TicketInv'
        BY <2>1, <2>2, IssueKeeps, RenewKeeps, RevokeKeeps, UseKeeps
    <2>3. ASSUME NEW n \in Reading, Look(kin, n) PROVE TicketInv'
        BY <2>3, LookKeeps
    <2>4. CASE RevokeAll(kin)
        BY <2>4, RevokeAllKeeps
    <2>5. ASSUME NEW c \in Request,
                 Answer(c) \/ Leave(c) \/ \E n \in Reading : Recheck(c, n)
          PROVE  TicketInv'
        <3>1. now \in Reading
            BY Constants DEF Reading, TicketInv, TypeOK, Time
        <3> QED BY <2>5, <3>1, RequestKeeps
    <2> QED BY <1>1, <2>2, <2>3, <2>4, <2>5 DEF Step
<1>2. CASE Tick
    BY <1>2, TickKeeps
<1>3. CASE UNCHANGED <<now, tickets>>
    BY <1>3 DEF tickets, TicketInv, TypeOK, Tables, Dated, live, Window
<1> QED BY <1>1, <1>2, <1>3 DEF Next

\* The tables keep to their limits and tell, up to the age of a reading, when
\* every live ticket was made and last opened.
THEOREM TicketInvariant == Spec => []TicketInv
BY TicketInitial, TicketStep, PTL DEF Spec

(***************************************************************************)
(* What a single step may do                                               *)
(***************************************************************************)
LEMMA ClosesIs ==
    ASSUME TypeOK, NEW t \in Ticket
    PROVE  /\ Closes(t) \in Int
           /\ Closes(t) = times[t].open + Window(t) \/ Closes(t) = times[t].made + Hard
           /\ Closes(t) <= times[t].open + Window(t) /\ Closes(t) <= times[t].made + Hard
<1>1. /\ times[t].open + Window(t) \in Int /\ times[t].made + Hard \in Int
    BY Constants DEF TypeOK, Time
<1> QED BY <1>1 DEF Closes, Lesser

\* A ticket found, whatever was read of the clock, is within its lease.
LEMMA FoundInTime ==
    ASSUME TicketInv, NEW t \in Ticket, NEW n \in Reading, Found(t, n)
    PROVE  fate[t] = "live" /\ now < Closes(t) + Lag
<1>1. fate[t] = "live" /\ Dated(t) /\ Alive(t, n)
    BY DEF Found, live, TicketInv
<1>2. /\ times[t].born \in Int /\ times[t].until \in Int
      /\ times[t].made \in Int /\ times[t].open \in Int
      /\ n \in Int /\ now \in Int /\ now <= n + Lag
      /\ Lag \in Int /\ Hard \in Int /\ Window(t) \in Int
    BY Constants, Readings, SMTT(30) DEF TicketInv, TypeOK, Time
<1>3. n < times[t].open + Window(t) /\ n < times[t].made + Hard
    BY <1>1, <1>2 DEF Dated, Alive
<1>4. n < Closes(t) /\ Closes(t) \in Int
    BY <1>2, <1>3, ClosesIs DEF TicketInv
<1> QED BY <1>1, <1>2, <1>4

\* A ticket found dead is past its lease, but for the age of a reading.
LEMMA DeadInTime ==
    ASSUME TicketInv, NEW kin, NEW n \in Reading, NEW t \in Dead(kin, n)
    PROVE  now >= Closes(t) - Lag
<1>1. t \in Ticket /\ Dated(t) /\ ~Alive(t, n)
    BY DEF Dead, live, TicketInv
<1>2. /\ times[t].born \in Int /\ times[t].until \in Int
      /\ times[t].made \in Int /\ times[t].open \in Int
      /\ n \in Int /\ now \in Int /\ n <= now
      /\ Lag \in Int /\ Hard \in Int /\ Window(t) \in Int
    BY <1>1, Constants, Readings DEF TicketInv, TypeOK, Time
<1>3. n >= times[t].open + Window(t) - Lag \/ n >= times[t].made + Hard - Lag
    BY <1>1, <1>2 DEF Dated, Alive
<1>4. n >= Closes(t) - Lag /\ Closes(t) \in Int
    BY <1>1, <1>2, <1>3, ClosesIs DEF TicketInv
<1> QED BY <1>2, <1>4

\* A request gets somewhere only on a ticket found.
LEMMA StepFinds ==
    ASSUME TicketInv, [Next]_<<now, tickets>>, NEW c \in Request,
           call'[c].of # NoTicket, call'[c] # call[c]
    PROVE  \E n \in Reading : Found(call'[c].of, n) /\ call'[c].of \in Ticket
<1> DEFINE Call == [at : {"idle", "reading", "sending", "writing"}, of : Ticket \union {NoTicket}]
<1>1. call \in [Request -> Call]
    BY DEF TicketInv, TypeOK
<1>2. ASSUME NEW d \in Request, Done(d) PROVE FALSE
    BY <1>1, <1>2 DEF Done, Free
<1>3. ASSUME NEW d \in Request, NEW t \in Ticket, NEW n \in Reading, Use(d, t, n)
      PROVE  Found(call'[c].of, n) /\ call'[c].of \in Ticket
    <2>1. Found(t, n) /\ call'[c].of = t
        BY <1>1, <1>3 DEF Use
    <2> QED BY <2>1
<1>4. ASSUME NEW d \in Request, NEW n \in Reading, Recheck(d, n), call[d].of \in Ticket
      PROVE  Found(call'[c].of, n) /\ call'[c].of \in Ticket
    <2>1. Found(call[d].of, n) /\ call' = [call EXCEPT ![d].at = "writing"]
        BY <1>2, <1>4 DEF Recheck
    <2>2. d = c
        BY <1>1, <2>1
    <2>3. call'[c].of = call[c].of
        <3>1. call'[c] = [call[c] EXCEPT !.at = "writing"]
            BY <1>1, <2>1, <2>2
        <3> QED BY <1>1, <3>1
    <2> QED BY <1>4, <2>1, <2>2, <2>3
<1>5. ASSUME NEW kin \in {Pass, Token}, Step(kin)
      PROVE  \E n \in Reading : Found(call'[c].of, n) /\ call'[c].of \in Ticket
    <2>1. kin \subseteq Ticket
        BY DEF Ticket
    <2>2. ASSUME NEW t \in kin, NEW n \in Reading,
                 \/ Issue(t, n) \/ Renew(t, n) \/ Revoke(t, n)
                 \/ \E d \in Request : Use(d, t, n)
          PROVE  \E m \in Reading : Found(call'[c].of, m) /\ call'[c].of \in Ticket
        <3>1. CASE UNCHANGED call
            BY <3>1
        <3>2. CASE \E d \in Request : Use(d, t, n)
            BY <1>3, <2>1, <3>2
        <3> QED BY <2>2, <3>1, <3>2 DEF Issue, Renew, Revoke
    <2>3. ASSUME NEW d \in Request, call[d].of \in kin,
                 Answer(d) \/ Leave(d) \/ \E n \in Reading : Recheck(d, n)
          PROVE  \E m \in Reading : Found(call'[c].of, m) /\ call'[c].of \in Ticket
        <3>1. CASE Done(d)
            BY <1>2, <3>1
        <3>2. CASE \E n \in Reading : Recheck(d, n)
            BY <1>4, <2>1, <2>3, <3>2
        <3> QED BY <2>3, <3>1, <3>2 DEF Answer, Leave
    <2>4. ASSUME UNCHANGED call PROVE FALSE
        BY <2>4
    <2> QED BY <1>5, <2>2, <2>3, <2>4 DEF Step, Look, RevokeAll
<1>6. ~UNCHANGED call
    OBVIOUS
<1> QED BY <1>5, <1>6 DEF Next, Tick, tickets

\* Nobody gets anywhere on a pass or a token past its window or its cap, but
\* for the age of a reading.
THEOREM WithinLeaseAlways == Spec => WithinLease
<1>1. ASSUME TicketInv, [Next]_<<now, tickets>>
      PROVE  [\A c \in Request :
                LET t == call'[c].of IN
                t # NoTicket /\ call'[c] # call[c] =>
                    fate[t] = "live" /\ now < Closes(t) + Lag]_<<now, tickets>>
    BY <1>1, StepFinds, FoundInTime
<1> QED BY <1>1, TicketInvariant, PTL DEF Spec, WithinLease

\* What each step that takes tickets out finds dead, and what a full table drops
LEMMA StepTakes ==
    ASSUME TicketInv, [Next]_<<now, tickets>>, NEW t \in Ticket, fate[t] = "live",
           fate'[t] \in {"expired", "evicted"}
    PROVE  \E n \in Reading :
              \/ fate'[t] = "expired" /\ \E kin \in {Pass, Token} : t \in Dead(kin, n)
              \/ /\ fate'[t] = "evicted"
                 /\ \E new \in Ticket :
                       /\ t \in Least(new, (live \intersect Kin(new)) \ Dead(Kin(new), n))
                       /\ \A u \in Ticket : fate[u] = "live" /\ fate'[u] = "live"
                                         => u \notin Dead(Kin(new), n)
<1> DEFINE Goal(n) ==
              \/ fate'[t] = "expired" /\ \E kin \in {Pass, Token} : t \in Dead(kin, n)
              \/ /\ fate'[t] = "evicted"
                 /\ \E new \in Ticket :
                       /\ t \in Least(new, (live \intersect Kin(new)) \ Dead(Kin(new), n))
                       /\ \A u \in Ticket : fate[u] = "live" /\ fate'[u] = "live"
                                         => u \notin Dead(Kin(new), n)
<1>1. ASSUME NEW kin \in {Pass, Token}, NEW n \in Reading, Prune(kin, n) PROVE Goal(n)
    BY <1>1 DEF Prune, Left
<1>2. ASSUME NEW new \in Ticket, NEW n \in Reading, Issue(new, n) PROVE Goal(n)
    <2>1. PICK out \in Evictable(new, (live \intersect Kin(new)) \ Dead(Kin(new), n)) :
            fate' = [Left(Dead(Kin(new), n), out, "evicted") EXCEPT ![new] = "live"]
        BY <1>2 DEF Issue
    <2>2. t # new /\ Kin(new) \in {Pass, Token}
        BY <1>2 DEF Issue, Kin
    <2>3. fate'[t] = Left(Dead(Kin(new), n), out, "evicted")[t]
        BY <2>1, <2>2 DEF Left
    <2>4. CASE t \in Dead(Kin(new), n)
        BY <2>2, <2>3, <2>4 DEF Left
    <2>5. CASE t \notin Dead(Kin(new), n)
        <3>1. t \in out /\ fate'[t] = "evicted"
            BY <2>3, <2>5 DEF Left
        <3>2. t \in Least(new, (live \intersect Kin(new)) \ Dead(Kin(new), n))
            BY <2>1, <3>1 DEF Evictable
        <3>3. ASSUME NEW u \in Ticket, fate[u] = "live", fate'[u] = "live"
              PROVE  u \notin Dead(Kin(new), n)
            <4>1. u # new
                BY <1>2, <3>3 DEF Issue
            <4> QED BY <2>1, <3>3, <4>1 DEF Left
        <3> QED BY <3>1, <3>2, <3>3
    <2> QED BY <2>4, <2>5
<1>3. ASSUME NEW u \in Ticket, NEW n \in Reading, Revoke(u, n) PROVE Goal(n)
    <2> DEFINE dead == IF u \in Pass THEN {} ELSE Dead(Token, n)
               out == (live \intersect {u}) \ dead
    <2>1. fate' = Left(dead, out, "revoked")
        BY <1>3 DEF Revoke
    <2>2. t \in dead /\ fate'[t] = "expired"
        BY <2>1 DEF Left
    <2> QED BY <2>2
<1>4. ASSUME NEW kin, RevokeAll(kin) PROVE FALSE
    BY <1>4 DEF RevokeAll, Left
<1>5. ASSUME NEW kin \in {Pass, Token}, Step(kin) PROVE \E n \in Reading : Goal(n)
    <2>1. kin \subseteq Ticket /\ \A u \in Ticket : Kin(u) \in {Pass, Token}
        BY DEF Ticket, Kin
    <2>2. ASSUME NEW u \in kin, NEW n \in Reading, Issue(u, n) \/ Revoke(u, n) PROVE Goal(n)
        BY <1>2, <1>3, <2>1, <2>2
    <2>3. ASSUME NEW u \in kin, NEW n \in Reading,
                 Renew(u, n) \/ \E c \in Request : Use(c, u, n)
          PROVE  Goal(n)
        <3>1. Prune(Kin(u), n)
            BY <2>3 DEF Renew, Use
        <3> QED BY <1>1, <2>1, <3>1
    <2>4. ASSUME NEW n \in Reading, Look(kin, n) PROVE Goal(n)
        BY <1>1, <2>4 DEF Look
    <2>5. ASSUME UNCHANGED fate PROVE FALSE
        BY <2>5
    <2>6. ASSUME NEW c \in Request, Answer(c) \/ Leave(c) \/ \E n \in Reading : Recheck(c, n)
          PROVE  FALSE
        BY <2>5, <2>6 DEF Answer, Leave, Recheck
    <2> HIDE DEF Goal
    <2> QED BY <1>4, <1>5, <2>2, <2>3, <2>4, <2>6 DEF Step
<1>6. CASE UNCHANGED fate
    BY <1>6
<1>7. CASE Step(Pass) \/ Step(Token)
    BY <1>5, <1>7
<1> QED BY <1>6, <1>7 DEF Next, Tick, tickets

\* Nor is a ticket found expired before its time, but for the age of a reading.
THEOREM LeaseHoldsAlways == Spec => LeaseHolds
<1>1. ASSUME TicketInv, [Next]_<<now, tickets>>,
             NEW t \in Ticket, fate[t] = "live", fate'[t] = "expired"
      PROVE  now >= Closes(t) - Lag
    <2>1. PICK n \in Reading, kin \in {Pass, Token} : t \in Dead(kin, n)
        BY <1>1, StepTakes
    <2> QED BY <1>1, <2>1, DeadInTime
<1>2. TicketInv /\ [Next]_<<now, tickets>> =>
        [\A t \in Ticket :
            fate[t] = "live" /\ fate'[t] = "expired" => now >= Closes(t) - Lag]_<<now, tickets>>
    BY <1>1
<1> QED BY <1>2, TicketInvariant, PTL DEF Spec, LeaseHolds

\* A full table drops the pass used least recently, the token made first.
THEOREM EvictsTheIdleAlways == Spec => EvictsTheIdle
<1>1. ASSUME TicketInv, [Next]_<<now, tickets>>, NEW t \in Ticket, NEW u \in Ticket,
             fate[t] = "live", fate'[t] = "evicted", Kin(u) = Kin(t),
             fate[u] = "live", fate'[u] = "live"
      PROVE  IF t \in Pass THEN times[t].open <= times[u].open + Lag
                           ELSE times[t].made <= times[u].made + Lag
    <2>1. PICK n \in Reading, new \in Ticket :
            /\ t \in Least(new, (live \intersect Kin(new)) \ Dead(Kin(new), n))
            /\ u \notin Dead(Kin(new), n)
        BY <1>1, StepTakes
    <2>2. t \in Kin(new) /\ t \in Kin(t)
        BY <2>1 DEF Least, Kin, Ticket
    <2>3. (t \in Pass <=> new \in Pass) /\ Kin(t) = Kin(new)
        BY <2>2, TicketAssumption DEF Kin, Ticket
    <2>4. u \in (live \intersect Kin(new)) \ Dead(Kin(new), n) /\ Window(u) = Window(t)
        <3>1. u \in Kin(u)
            BY DEF Kin, Ticket
        <3>2. u \in Pass <=> t \in Pass
            BY <1>1, <3>1, <2>2, TicketAssumption DEF Kin, Ticket
        <3> QED BY <1>1, <2>1, <2>3, <3>1, <3>2 DEF live, Window
    <2>5. Dated(t) /\ Dated(u)
        BY <1>1 DEF TicketInv, live
    <2>6. /\ times[t].born \in Int /\ times[t].until \in Int
          /\ times[t].made \in Int /\ times[t].open \in Int
          /\ times[u].born \in Int /\ times[u].until \in Int
          /\ times[u].made \in Int /\ times[u].open \in Int
          /\ Lag \in Int /\ Hard \in Int /\ Window(t) \in Int
        BY <1>1, Constants DEF TicketInv, TypeOK, Time
    <2>7. CASE t \in Pass
        <3>1. times[t].until <= times[u].until
            BY <2>1, <2>3, <2>4, <2>7 DEF Least
        <3>2. t \notin Token
            BY <2>7, TicketAssumption
        <3>3. /\ times[t].until >= times[t].open + Window(t) - Lag
              /\ times[u].until <= times[u].open + Window(u)
            BY <2>5, <3>2 DEF Dated
        <3> QED BY <2>4, <2>6, <2>7, <3>1, <3>3
    <2>8. CASE t \notin Pass
        <3>1. times[t].born <= times[u].born
            BY <2>1, <2>3, <2>4, <2>8 DEF Least
        <3> QED BY <2>5, <2>6, <2>8, <3>1 DEF Dated
    <2> QED BY <2>7, <2>8
<1>2. TicketInv /\ [Next]_<<now, tickets>> =>
        [\A t, u \in Ticket :
            /\ fate[t] = "live" /\ fate'[t] = "evicted"
            /\ Kin(u) = Kin(t) /\ fate[u] = "live" /\ fate'[u] = "live"
            => IF t \in Pass THEN times[t].open <= times[u].open + Lag
                             ELSE times[t].made <= times[u].made + Lag]_<<now, tickets>>
    BY <1>1
<1> QED BY <1>2, TicketInvariant, PTL DEF Spec, EvictsTheIdle
(***************************************************************************)
(* What a token's record says                                              *)
(***************************************************************************)
LEMMA OrderLength ==
    ASSUME NEW D, IsFiniteSet(D), NEW s \in Orders(D \intersect Token)
    PROVE  s \in Seq(Token) /\ Len(s) = Cardinality(D \intersect Token)
<1>1. s \in Seq(Token)
    BY OrderTyped
<1>2. IsFiniteSet(D \intersect Token)
    BY FS_Subset
<1>3. Cardinality(D \intersect Token) \in Nat
    BY <1>2, FS_CardinalityType
<1>4. DOMAIN s = 1..Cardinality(D \intersect Token) /\ DOMAIN s = 1..Len(s) /\ Len(s) \in Nat
    BY <1>1, LenProperties DEF Orders
<1> QED BY <1>1, <1>3, <1>4

LEMMA KeepLength ==
    ASSUME NEW s \in Seq(Token) PROVE Len(Keep(s)) = Lesser(Len(s), MaxEnded)
<1>1. Len(s) \in Nat /\ MaxEnded \in Nat
    BY LimitAssumption, LenProperties
<1>2. CASE Len(s) > MaxEnded
    <2>1. \A i \in (Len(s) - MaxEnded + 1)..Len(s) : s[i] \in Token
        BY <1>1, <1>2, ElementOfSeq
    <2>2. Len(s) - MaxEnded + 1 \in Int /\ Len(s) \in Int
        BY <1>1
    <2>3. Len(SubSeq(s, Len(s) - MaxEnded + 1, Len(s))) =
            IF Len(s) - MaxEnded + 1 <= Len(s) THEN Len(s) - (Len(s) - MaxEnded + 1) + 1 ELSE 0
        BY <2>1, <2>2, SubSeqProperties
    <2> QED BY <1>1, <1>2, <2>3 DEF Keep, Lesser
<1>3. CASE ~(Len(s) > MaxEnded)
    BY <1>1, <1>3 DEF Keep, Lesser
<1> QED BY <1>2, <1>3

\* The record grows by what leaves, as far as there is room.
LEMMA RecordLength ==
    ASSUME ended \in Seq(Token), NEW dead, NEW out, IsFiniteSet(dead), IsFiniteSet(out),
           dead \intersect out = {}, Record(dead, out)
    PROVE  Len(ended') =
              Lesser(Len(ended) + Cardinality((dead \union out) \intersect Token), MaxEnded)
<1> DEFINE d == dead \intersect Token
           o == out \intersect Token
<1>1. PICK s \in Orders(d), e \in Orders(o) : ended' = Keep(ended \o s \o e)
    BY DEF Record
<1>2. /\ s \in Seq(Token) /\ Len(s) = Cardinality(d)
      /\ e \in Seq(Token) /\ Len(e) = Cardinality(o)
    BY <1>1, OrderLength
<1>3. ended \o s \in Seq(Token) /\ Len(ended \o s) = Len(ended) + Len(s)
    BY <1>2, ConcatProperties
<1>4. ended \o s \o e \in Seq(Token) /\ Len(ended \o s \o e) = Len(ended \o s) + Len(e)
    BY <1>2, <1>3, ConcatProperties
<1>5. Cardinality((dead \union out) \intersect Token) = Cardinality(d) + Cardinality(o)
    <2>1. IsFiniteSet(d) /\ IsFiniteSet(o)
        BY FS_Subset
    <2>2. Cardinality(d \union o) = Cardinality(d) + Cardinality(o) - Cardinality(d \intersect o)
        BY <2>1, FS_Union
    <2>3. d \intersect o = {} /\ d \union o = (dead \union out) \intersect Token
        OBVIOUS
    <2>4. Cardinality(d) \in Nat /\ Cardinality(o) \in Nat
        BY <2>1, FS_CardinalityType
    <2>5. Cardinality(d \intersect o) = 0
        BY <2>3, FS_EmptySet
    <2> HIDE DEF d, o
    <2>6. Cardinality(d \union o) = Cardinality(d) + Cardinality(o)
        BY <2>2, <2>4, <2>5
    <2> QED BY <2>3, <2>6, Zenon
<1>6. Len(ended) \in Nat /\ Len(s) \in Nat /\ Len(e) \in Nat
    BY <1>2, LenProperties
<1> HIDE DEF d, o
<1>7. Len(ended') = Lesser(Len(ended \o s \o e), MaxEnded)
    BY <1>1, <1>4, KeepLength
<1>8. Len(ended \o s \o e) = Len(ended) + Cardinality((dead \union out) \intersect Token)
    BY <1>2, <1>3, <1>4, <1>5, <1>6
<1> QED BY <1>7, <1>8

\* What a step takes out of the table of tokens, it puts on record.
Ends(D) ==
    /\ D \in SUBSET live
    /\ Gone' = Gone \union (D \intersect Token)
    /\ Len(ended') = Lesser(Len(ended) + Cardinality(D \intersect Token), MaxEnded)

LEMMA EndsCounted ==
    ASSUME NEW D, Ends(D), Len(ended) = Lesser(Cardinality(Gone), MaxEnded)
    PROVE  Len(ended') = Lesser(Cardinality(Gone'), MaxEnded)
<1> DEFINE d == D \intersect Token
<1>1. Gone \in SUBSET Ticket /\ d \in SUBSET Ticket
    BY DEF Gone, Ends, live, Ticket
<1>2. IsFiniteSet(Gone) /\ IsFiniteSet(d)
    BY <1>1, TicketAssumption, FS_Subset
<1>3. Gone \intersect d = {}
    BY DEF Gone, Ends, live
<1>4. Cardinality(Gone \union d) = Cardinality(Gone) + Cardinality(d) - Cardinality(Gone \intersect d)
    BY <1>2, FS_Union
<1>5. Cardinality(Gone) \in Nat /\ Cardinality(d) \in Nat /\ MaxEnded \in Nat
    BY <1>2, FS_CardinalityType, LimitAssumption
<1>6. Cardinality(Gone') = Cardinality(Gone) + Cardinality(d)
    <2>1. Gone' = Gone \union d
        BY DEF Ends
    <2>2. Cardinality(Gone \intersect d) = 0
        BY <1>3, FS_EmptySet
    <2> HIDE DEF d
    <2> QED BY <1>4, <1>5, <2>1, <2>2
<1>7. Len(ended') = Lesser(Lesser(Cardinality(Gone), MaxEnded) + Cardinality(d), MaxEnded)
    BY DEF Ends
<1> HIDE DEF d
<1> QED BY <1>5, <1>6, <1>7 DEF Lesser

LEMMA RemovalEnds ==
    ASSUME TypeOK, NEW dead \in SUBSET live, NEW out \in SUBSET live, dead \intersect out = {},
           NEW why \in Fate \ {"none", "live"}, Record(dead, out), fate' = Left(dead, out, why)
    PROVE  Ends(dead \union out)
<1>1. dead \in SUBSET Ticket /\ out \in SUBSET Ticket
    BY DEF live
<1>2. IsFiniteSet(dead) /\ IsFiniteSet(out)
    BY <1>1, TicketAssumption, FS_Subset
<1>3. Len(ended') = Lesser(Len(ended) + Cardinality((dead \union out) \intersect Token), MaxEnded)
    BY <1>2, RecordLength DEF TypeOK
<1>4. Gone' = Gone \union ((dead \union out) \intersect Token)
    <2>1. \A t \in Token : t \in Ticket
        BY DEF Ticket
    <2>2. ASSUME NEW t \in Token
          PROVE  fate'[t] \notin {"none", "live"}
                    <=> fate[t] \notin {"none", "live"} \/ t \in dead \/ t \in out
        BY <2>1 DEF Left, live, Fate
    <2> QED BY <2>2 DEF Gone
<1> QED BY <1>3, <1>4 DEF Ends

LEMMA PruneEnds ==
    ASSUME TypeOK, NEW kin, NEW n, Prune(kin, n) PROVE \E D : Ends(D)
<1>1. Dead(kin, n) \in SUBSET live /\ {} \in SUBSET live
    BY DEF Dead
<1>2. "expired" \in Fate \ {"none", "live"}
    BY DEF Fate
<1> QED BY <1>1, <1>2, RemovalEnds DEF Prune

LEMMA IssueEnds ==
    ASSUME TypeOK, NEW t \in Ticket, NEW n, Issue(t, n) PROVE \E D : Ends(D)
<1> DEFINE dead == Dead(Kin(t), n)
<1>1. PICK out \in Evictable(t, (live \intersect Kin(t)) \ dead) :
        /\ Record(dead, out)
        /\ fate' = [Left(dead, out, "evicted") EXCEPT ![t] = "live"]
    BY DEF Issue
<1>2. dead \in SUBSET live /\ out \in SUBSET live /\ dead \intersect out = {}
    BY <1>1 DEF Dead, Evictable, Least
<1>3. dead \in SUBSET Ticket /\ out \in SUBSET Ticket
    BY <1>2 DEF live
<1>4. IsFiniteSet(dead) /\ IsFiniteSet(out)
    BY <1>3, TicketAssumption, FS_Subset
<1> HIDE DEF dead
<1>5. Len(ended') = Lesser(Len(ended) + Cardinality((dead \union out) \intersect Token), MaxEnded)
    BY <1>1, <1>2, <1>4, RecordLength DEF TypeOK
<1>6. Gone' = Gone \union ((dead \union out) \intersect Token)
    <2>1. \A u \in Token : u \in Ticket
        BY DEF Ticket
    <2>2. fate[t] = "none" /\ t \notin dead /\ t \notin out
        BY <1>2 DEF Issue, live
    <2>3. ASSUME NEW u \in Token
          PROVE  fate'[u] \notin {"none", "live"}
                    <=> fate[u] \notin {"none", "live"} \/ u \in dead \/ u \in out
        <3>1. CASE u = t
            BY <1>1, <2>1, <2>2, <3>1 DEF Left
        <3>2. CASE u # t
            <4>1. fate'[u] = Left(dead, out, "evicted")[u]
                BY <1>1, <2>1, <3>2 DEF Left
            <4> QED BY <1>2, <2>1, <4>1 DEF Left, live
        <3> QED BY <3>1, <3>2
    <2> QED BY <2>3 DEF Gone
<1>7. Ends(dead \union out)
    BY <1>2, <1>5, <1>6 DEF Ends
<1> QED BY <1>7

LEMMA RevokeEnds ==
    ASSUME TypeOK, NEW t \in Ticket, NEW n, Revoke(t, n) PROVE \E D : Ends(D)
<1> DEFINE dead == IF t \in Pass THEN {} ELSE Dead(Token, n)
           out == (live \intersect {t}) \ dead
<1>1. dead \in SUBSET live /\ out \in SUBSET live /\ dead \intersect out = {}
    BY DEF Dead
<1>2. Record(dead, out) /\ fate' = Left(dead, out, "revoked")
    BY DEF Revoke
<1>3. "revoked" \in Fate \ {"none", "live"}
    BY DEF Fate
<1> HIDE DEF dead, out
<1> QED BY <1>1, <1>2, <1>3, RemovalEnds

LEMMA RevokeAllEnds ==
    ASSUME TypeOK, NEW kin, RevokeAll(kin) PROVE \E D : Ends(D)
<1>1. {} \in SUBSET live /\ live \intersect kin \in SUBSET live /\ {} \intersect (live \intersect kin) = {}
    OBVIOUS
<1>2. "revoked" \in Fate \ {"none", "live"}
    BY DEF Fate
<1> QED BY <1>1, <1>2, RemovalEnds DEF RevokeAll

\* Nothing that was issued is as if it had never been.
NoneIssued == \A t \in Ticket : fate'[t] = "none" => fate[t] = "none"

LEMMA ReadsFinite ==
    ASSUME NEW t
    PROVE  /\ IsFiniteSet(Reads(t)) /\ Cardinality(Reads(t)) \in Nat
           /\ Cardinality(Reads(t)) <= Cardinality(Request) /\ Cardinality(Request) \in Nat
<1>1. Reads(t) \in SUBSET Request
    BY DEF Reads
<1>2. IsFiniteSet(Request)
    BY TicketAssumption
<1> QED BY <1>1, <1>2, FS_Subset, FS_CardinalityType

\* Taking tokens out touches no record of what was read.
LEMMA EndsKeep ==
    ASSUME TypeOK, TypeOK', ReadsOnRecord, NoneIssued, \E D : Ends(D),
           UNCHANGED <<audit, answered>>,
           \A t \in Gone : Reads(t)' = Reads(t),
           \A c \in Request : call'[c].at = "reading" =>
                call'[c] = call[c] \/ (call'[c].of \in Token /\ fate[call'[c].of] # "none")
    PROVE  ReadsOnRecord'
<1>1. Len(ended') = Lesser(Cardinality(Gone'), MaxEnded)
    BY EndsCounted DEF ReadsOnRecord
<1>2. ASSUME NEW c \in Request, call'[c].at = "reading"
      PROVE  call'[c].of \in Token /\ fate'[call'[c].of] # "none"
    BY <1>2 DEF ReadsOnRecord, NoneIssued, Ticket
<1>3. ASSUME NEW t \in Token
      PROVE  IF t \in Gone'
             THEN answered'[t] - audit'[t] + Cardinality(Reads(t)') <= Cardinality(Request)
             ELSE audit'[t] = answered'[t]
    <2>1. CASE t \in Gone
        <3>1. t \in Gone'
            BY <2>1 DEF Ends
        <3> QED BY <2>1, <3>1 DEF ReadsOnRecord
    <2>2. CASE t \notin Gone
        <3>1. audit[t] = answered[t] /\ audit[t] \in Nat
            BY <2>2 DEF ReadsOnRecord, TypeOK
        <3>2. Cardinality(Reads(t)') <= Cardinality(Request) /\ Cardinality(Reads(t)') \in Nat
            <4>1. Reads(t)' \in SUBSET Request
                BY DEF Reads
            <4>2. IsFiniteSet(Request)
                BY TicketAssumption
            <4> QED BY <4>1, <4>2, FS_Subset, FS_CardinalityType
        <3> QED BY <3>1, <3>2
    <2> QED BY <2>1, <2>2
<1> QED BY <1>1, <1>2, <1>3 DEF ReadsOnRecord

LEMMA NoneByLeft ==
    ASSUME NEW dead, NEW out, NEW why \in Fate \ {"none"}, fate' = Left(dead, out, why)
    PROVE  NoneIssued
BY DEF NoneIssued, Left

LEMMA RemovalRecorded ==
    ASSUME TypeOK, TypeOK', ReadsOnRecord, NoneIssued, \E D : Ends(D),
           UNCHANGED <<audit, call, answered>>
    PROVE  ReadsOnRecord'
<1>1. \A t \in Gone : Reads(t)' = Reads(t)
    BY DEF Reads
<1> QED BY <1>1, EndsKeep

LEMMA IssueRecorded ==
    ASSUME TypeOK, TypeOK', ReadsOnRecord, NEW t \in Ticket, NEW n, Issue(t, n)
    PROVE  ReadsOnRecord'
<1>1. NoneIssued
    <2>1. PICK out : fate' = [Left(Dead(Kin(t), n), out, "evicted") EXCEPT ![t] = "live"]
        BY DEF Issue
    <2> QED BY <2>1 DEF NoneIssued, Left
<1> QED BY <1>1, IssueEnds, RemovalRecorded DEF Issue

LEMMA UseRecorded ==
    ASSUME TypeOK, TypeOK', ReadsOnRecord, NEW c \in Request, NEW t \in Ticket, NEW n, Use(c, t, n)
    PROVE  ReadsOnRecord'
<1>1. NoneIssued
    <2>1. "expired" \in Fate \ {"none"}
        BY DEF Fate
    <2> QED BY <2>1, NoneByLeft DEF Use, Prune
<1>2. \E D : Ends(D)
    BY PruneEnds DEF Use
<1>3. \A d \in Request : d # c => call'[d] = call[d]
    BY DEF Use, TypeOK
<1>4. call[c].at = "idle"
    BY DEF Use
<1>5. call'[c].at = "reading" => call'[c].of = t /\ t \in Token /\ fate[t] = "live"
    BY DEF Use, TypeOK, Found, live, Ticket
<1>6. \A u \in Gone : Reads(u)' = Reads(u)
    BY <1>3, <1>4, <1>5 DEF Reads, Gone
<1>7. \A d \in Request : call'[d].at = "reading" =>
            call'[d] = call[d] \/ (call'[d].of \in Token /\ fate[call'[d].of] # "none")
    BY <1>3, <1>5
<1> QED BY <1>1, <1>2, <1>6, <1>7, EndsKeep DEF Use

\* A request that is done with its ticket
LEMMA RequestRecorded ==
    ASSUME TypeOK, ReadsOnRecord, NEW c \in Request, UNCHANGED <<fate, ended>>,
           \A d \in Request : d # c => call'[d] = call[d], call'[c].at # "reading",
           UNCHANGED <<audit, answered>> \/ Answer(c)
    PROVE  ReadsOnRecord'
<1>1. Gone' = Gone /\ Len(ended') = Lesser(Cardinality(Gone'), MaxEnded)
    BY DEF Gone, ReadsOnRecord
<1>2. \A d \in Request : call'[d].at = "reading" => call'[d].of \in Token /\ fate'[call'[d].of] # "none"
    BY DEF ReadsOnRecord
<1>3. ASSUME NEW t \in Token, ~(Answer(c) /\ t = call[c].of)
      PROVE  IF t \in Gone'
             THEN answered'[t] - audit'[t] + Cardinality(Reads(t)') <= Cardinality(Request)
             ELSE audit'[t] = answered'[t]
    <2>1. Reads(t)' \in SUBSET Reads(t)
        BY DEF Reads
    <2>2. /\ Cardinality(Reads(t)') <= Cardinality(Reads(t)) /\ Cardinality(Reads(t)') \in Nat
          /\ Cardinality(Reads(t)) \in Nat /\ Cardinality(Request) \in Nat
        BY <2>1, ReadsFinite, FS_Subset, FS_CardinalityType
    <2>3. audit'[t] = audit[t] /\ answered'[t] = answered[t]
        BY <1>3 DEF Answer, Noted, TypeOK
    <2>4. audit[t] \in Int /\ answered[t] \in Int
        BY DEF TypeOK
    <2>5. IF t \in Gone THEN answered[t] - audit[t] + Cardinality(Reads(t)) <= Cardinality(Request)
                        ELSE audit[t] = answered[t]
        BY DEF ReadsOnRecord
    <2> QED BY <1>1, <2>2, <2>3, <2>4, <2>5
<1>4. ASSUME NEW t \in Token, Answer(c), t = call[c].of
      PROVE  IF t \in Gone'
             THEN answered'[t] - audit'[t] + Cardinality(Reads(t)') <= Cardinality(Request)
             ELSE audit'[t] = answered'[t]
    <2>1. audit[t] \in Nat /\ answered[t] \in Nat /\ answered'[t] = answered[t] + 1
        BY <1>4 DEF Answer, TypeOK
    <2>2. CASE t \in Gone
        <3>1. Reads(t)' = Reads(t) \ {c} /\ c \in Reads(t)
            BY <1>4 DEF Reads, Answer
        <3>2. Cardinality(Reads(t)') = Cardinality(Reads(t)) - 1
            BY <3>1, ReadsFinite, FS_RemoveElement
        <3>3. audit'[t] = audit[t]
            BY <1>4, <2>2 DEF Answer, Noted, live, Gone
        <3>4. answered[t] - audit[t] + Cardinality(Reads(t)) <= Cardinality(Request)
            BY <2>2 DEF ReadsOnRecord
        <3>5. Cardinality(Reads(t)) \in Nat /\ Cardinality(Request) \in Nat
            BY ReadsFinite
        <3> QED BY <1>1, <2>1, <2>2, <3>2, <3>3, <3>4, <3>5
    <2>3. CASE t \notin Gone
        <3>1. fate[t] = "live" /\ t \in Ticket
            BY <1>4, <2>3 DEF Gone, Answer, ReadsOnRecord, Ticket
        <3>2. audit'[t] = audit[t] + 1
            BY <1>4, <3>1 DEF Answer, Noted, live, TypeOK
        <3>3. audit[t] = answered[t]
            BY <2>3 DEF ReadsOnRecord
        <3> QED BY <1>1, <2>1, <2>3, <3>2, <3>3
    <2> QED BY <2>2, <2>3
<1> QED BY <1>1, <1>2, <1>3, <1>4 DEF ReadsOnRecord

LEMMA CallRecorded ==
    ASSUME TypeOK, ReadsOnRecord, NEW c \in Request, NEW n,
           Answer(c) \/ Leave(c) \/ Recheck(c, n)
    PROVE  ReadsOnRecord'
<1>1. UNCHANGED <<fate, ended>> /\ (UNCHANGED <<audit, answered>> \/ Answer(c))
    BY DEF Answer, Leave, Recheck
<1>2. Done(c) \/ call' = [call EXCEPT ![c].at = "writing"]
    BY DEF Answer, Leave, Recheck
<1>3. \A d \in Request : d # c => call'[d] = call[d]
    BY <1>2 DEF Done, TypeOK
<1>4. call'[c].at # "reading"
    <2>1. CASE Done(c)
        BY <2>1 DEF Done, TypeOK, Free
    <2>2. CASE call' = [call EXCEPT ![c].at = "writing"]
        BY <2>2 DEF TypeOK
    <2> QED BY <1>2, <2>1, <2>2
<1> QED BY <1>1, <1>3, <1>4, RequestRecorded

LEMMA RecordedStep ==
    TicketInv /\ TicketInv' /\ ReadsOnRecord /\ [Next]_<<now, tickets>> => ReadsOnRecord'
<1> SUFFICES ASSUME TypeOK, TypeOK', ReadsOnRecord, [Next]_<<now, tickets>> PROVE ReadsOnRecord'
    BY DEF TicketInv
<1>1. "expired" \in Fate \ {"none"} /\ "revoked" \in Fate \ {"none"}
    BY DEF Fate
<1>2. ASSUME NEW kin \in {Pass, Token}, Step(kin) PROVE ReadsOnRecord'
    <2>1. kin \subseteq Ticket
        BY DEF Ticket
    <2>2. ASSUME NEW t \in kin, NEW n \in Reading, Issue(t, n) PROVE ReadsOnRecord'
        BY <2>1, <2>2, IssueRecorded
    <2>3. ASSUME NEW t \in kin, NEW n \in Reading, Renew(t, n) PROVE ReadsOnRecord'
        BY <1>1, <2>3, PruneEnds, NoneByLeft, RemovalRecorded DEF Renew, Prune
    <2>4. ASSUME NEW t \in kin, NEW n \in Reading, Revoke(t, n) PROVE ReadsOnRecord'
        <3>1. \E D : Ends(D)
            BY <2>1, <2>4, RevokeEnds
        <3>2. NoneIssued
            BY <1>1, <2>4, NoneByLeft DEF Revoke
        <3> QED BY <2>4, <3>1, <3>2, RemovalRecorded DEF Revoke
    <2>5. ASSUME NEW t \in kin, NEW n \in Reading, NEW c \in Request, Use(c, t, n)
          PROVE  ReadsOnRecord'
        BY <2>1, <2>5, UseRecorded
    <2>6. ASSUME NEW n \in Reading, Look(kin, n) PROVE ReadsOnRecord'
        BY <1>1, <2>6, PruneEnds, NoneByLeft, RemovalRecorded DEF Look, Prune
    <2>7. CASE RevokeAll(kin)
        BY <1>1, <2>7, RevokeAllEnds, NoneByLeft, RemovalRecorded DEF RevokeAll
    <2>8. ASSUME NEW c \in Request, Answer(c) \/ Leave(c) \/ \E n \in Reading : Recheck(c, n)
          PROVE  ReadsOnRecord'
        BY <2>8, CallRecorded
    <2> QED BY <1>2, <2>2, <2>3, <2>4, <2>5, <2>6, <2>7, <2>8 DEF Step
<1>3. CASE Tick
    BY <1>3 DEF Tick, ReadsOnRecord, Gone, Reads
<1>4. CASE UNCHANGED <<now, tickets>>
    BY <1>4 DEF tickets, ReadsOnRecord, Gone, Reads
<1> QED BY <1>2, <1>3, <1>4 DEF Next

LEMMA RecordedInitial == Init => ReadsOnRecord
<1> SUFFICES ASSUME Init PROVE ReadsOnRecord
    OBVIOUS
<1>1. Gone = {} /\ Len(ended) = 0
    BY DEF Init, Gone, Ticket
<1>2. Cardinality(Gone) = 0
    BY <1>1, FS_EmptySet
<1>3. \A c \in Request : call[c].at # "reading"
    BY DEF Init, Free
<1> QED BY <1>1, <1>2, <1>3, LimitAssumption DEF Init, ReadsOnRecord, Lesser

\* However a token ended, its record is kept as long as there is room, and
\* lacks no read but those under way when it ended.
THEOREM ReadsOnRecordAlways == Spec => []ReadsOnRecord
BY RecordedInitial, RecordedStep, TicketInvariant, PTL DEF Spec

=============================================================================
