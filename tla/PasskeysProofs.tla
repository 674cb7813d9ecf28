--------------------------- MODULE PasskeysProofs ---------------------------
(***************************************************************************)
(* Proofs about Passkeys for any records, credentials, challenges and      *)
(* limits.                                                                 *)
(***************************************************************************)
EXTENDS Passkeys, FiniteSetTheorems, TLAPS

USE DEF Process

\* What the invariant says of the passkeys, as opposed to the challenges.
RowsInv == JobsInv /\ FreshInv /\ LiveInv /\ DeadInv /\ CountInv /\ OneRecordPerKey

LEMMA EmptyTable == Empty \in Table /\ Proper(Empty)
<1>1. Empty \in Table /\ Rows(Empty) = {}
  BY DEF Empty, Table, Rows, Absent
<1>2. Cardinality({}) <= MaxPasskeys
  BY FS_EmptySet, BoundAssumption
<1>. QED  BY <1>1, <1>2 DEF Proper

\* A table that holds no record another does not is as proper as that one.
LEMMA FewerRows ==
  ASSUME NEW t, NEW u, Rows(u) \subseteq Rows(t), Proper(t)
  PROVE  Proper(u)
<1>1. IsFiniteSet(Rows(t))
  BY RecAssumption, FS_Subset DEF Rows
<1>2. /\ Cardinality(Rows(u)) <= Cardinality(Rows(t))
      /\ Cardinality(Rows(u)) \in Nat /\ Cardinality(Rows(t)) \in Nat
  BY <1>1, FS_Subset, FS_CardinalityType
<1>3. Cardinality(Rows(u)) <= MaxPasskeys
  BY <1>2, BoundAssumption DEF Proper
<1>. QED  BY <1>3 DEF Proper

\* One record more, if there was room and nothing it shares.
LEMMA OneRowMore ==
  ASSUME NEW t \in Table, NEW r \in Rec, NEW n \in Count, Proper(t), HasRoom(t),
         \A s \in Rows(t) : CredOf[s] # CredOf[r] /\ NameOf[s] # NameOf[r]
  PROVE  Proper([t EXCEPT ![r] = n])
<1>. DEFINE u == [t EXCEPT ![r] = n]
<1>1. Rows(u) = Rows(t) \union {r}
  BY DEF Rows, Table, Count, Absent
<1>2. IsFiniteSet(Rows(t))
  BY RecAssumption, FS_Subset DEF Rows
<1>3. /\ Cardinality(Rows(t)) \in Nat
      /\ Cardinality(Rows(t) \union {r}) \in {Cardinality(Rows(t)), Cardinality(Rows(t)) + 1}
  BY <1>2, FS_AddElement, FS_CardinalityType
<1>. HIDE DEF u
<1>4. Cardinality(Rows(u)) <= MaxPasskeys
  BY <1>1, <1>3, BoundAssumption DEF HasRoom
<1>5. \A q, s \in Rows(u) : q # s => CredOf[q] # CredOf[s] /\ NameOf[q] # NameOf[s]
  BY <1>1 DEF Proper
<1>. QED  BY <1>4, <1>5 DEF Proper, u

\* What a load gives the service while it has no write under way.
LEMMA LoadedFacts ==
  ASSUME TypeOK, RowsInv
  PROVE  /\ Loaded \in [rows : Table, raw : SUBSET Table]
         /\ Proper(Loaded.rows)
         /\ \A t \in Loaded.raw : t = file.rows /\ file.is = "good"
         /\ job["service"].op = "none" => \A r \in Rec :
              /\ note[r] \in {"none", "dead"} => Loaded.rows[r] = Absent
              /\ note[r] = "live" /\ file.is # "bad" => Loaded.rows[r] # Absent
              /\ Loaded.rows[r] # Absent => r \in undone \/ high[r] <= Loaded.rows[r]
              /\ Loaded.raw # {} /\ file.rows[r] = Absent /\ Loaded.rows[r] # Absent =>
                     /\ job["tool"].new[r] = Absent
                     /\ ~Deletes("tool", r)
<1>1. CASE file.is # "good"
  <2>1. Loaded = [rows |-> Empty, raw |-> {}]
    BY <1>1 DEF Loaded
  <2>2. \A r \in Rec : Empty[r] = Absent
    BY DEF Empty
  <2>3. file.is = "gone" => \A r \in Rec : note[r] # "live"
    BY <2>2 DEF RowsInv, JobsInv, LiveInv
  <2>4. file.is \in {"bad", "gone"}
    BY <1>1 DEF TypeOK
  <2>. QED  BY <1>1, <2>1, <2>2, <2>3, <2>4, EmptyTable
<1>2. CASE file.is = "good" /\ mem.raw = {file.rows}
  <2>1. Loaded = mem
    BY <1>2 DEF Loaded
  <2>2. Loaded \in [rows : Table, raw : SUBSET Table] /\ Proper(Loaded.rows)
    BY <2>1 DEF TypeOK, RowsInv, OneRecordPerKey
  <2>3. \A t \in Loaded.raw : t = file.rows /\ file.is = "good"
    BY <1>2, <2>1
  <2>4. ASSUME job["service"].op = "none", NEW r \in Rec
        PROVE  /\ note[r] \in {"none", "dead"} => mem.rows[r] = Absent
               /\ note[r] = "live" => mem.rows[r] # Absent
               /\ mem.rows[r] # Absent => r \in undone \/ high[r] <= mem.rows[r]
               /\ file.rows[r] = Absent /\ mem.rows[r] # Absent =>
                     job["tool"].new[r] = Absent /\ ~Deletes("tool", r)
    BY <1>2, <2>4 DEF RowsInv, FreshInv, DeadInv, LiveInv, CountInv, Astray, Deletes
  <2>. QED  BY <2>1, <2>2, <2>3, <2>4
<1>3. CASE file.is = "good" /\ mem.raw # {file.rows}
  <2>1. Loaded = [rows |-> file.rows, raw |-> {file.rows}]
    BY <1>3 DEF Loaded
  <2>2. Loaded \in [rows : Table, raw : SUBSET Table] /\ Proper(Loaded.rows)
    BY <2>1 DEF TypeOK, RowsInv, OneRecordPerKey
  <2>3. \A r \in Rec :
              /\ note[r] \in {"none", "dead"} => file.rows[r] = Absent
              /\ note[r] = "live" => file.rows[r] # Absent
              /\ file.rows[r] # Absent => r \in undone \/ high[r] <= file.rows[r]
    BY DEF RowsInv, FreshInv, LiveInv, DeadInv, CountInv
  <2>. QED  BY <1>3, <2>1, <2>2, <2>3
<1>. QED  BY <1>1, <1>2, <1>3

(***************************************************************************)
(* The initial state                                                       *)
(***************************************************************************)
LEMMA InitInv == Init => PasskeyInv
<1>. SUFFICES ASSUME Init PROVE PasskeyInv
  OBVIOUS
<1>. DEFINE t == [r \in Rec |-> IF r \in Known THEN 0 ELSE Absent]
<1>1. t \in Table /\ Rows(t) = Known
  BY KnownAssumption, BoundAssumption DEF Table, Rows, Absent, Count
<1>2. Proper(t)
  BY <1>1, KnownAssumption DEF Proper
<1>3. \A p \in Process : job[p] = NoJob
  BY DEF Init
<1>4. \A r \in Rec : t[r] # Absent <=> r \in Known
  BY DEF Absent
<1>5. /\ NoJob \in Job
      /\ NoJob.op = "none" /\ NoJob.new = Empty /\ NoJob.chal = NoChallenge
  BY EmptyTable DEF NoJob, Job
<1>6. TypeOK
  <2>1. file \in [is : {"good", "bad", "gone"}, rows : Table]
    BY <1>1 DEF Init
  <2>2. mem \in [rows : Table, raw : SUBSET Table]
    BY EmptyTable DEF Init
  <2>3. job \in [Process -> Job]
    BY <1>5 DEF Init
  <2>. QED  BY <2>1, <2>2, <2>3, BoundAssumption DEF Init, TypeOK, Route, Notes, Count
<1>7. \A r \in Rec : Empty[r] = Absent
  BY DEF Empty
<1>8. file.rows = t /\ file.is = "good" /\ mem.raw = {} /\ mem.rows = Empty
  BY DEF Init
<1>. HIDE DEF t
<1>9. JobsInv
  BY <1>3, <1>5, <1>8 DEF JobsInv
<1>10. FreshInv /\ LiveInv /\ DeadInv
  BY <1>3, <1>4, <1>5, <1>7, <1>8 DEF Init, FreshInv, LiveInv, DeadInv, Astray, Deletes
<1>11. CountInv
  <2>1. \A r \in Rec : high[r] = 0 /\ (t[r] # Absent => t[r] = 0)
    BY DEF Init, t
  <2>. QED  BY <1>3, <1>5, <1>7, <1>8, <2>1 DEF CountInv
<1>12. ChallengeInv
  BY <1>3, <1>5, ChallengeAssumption DEF Init, ChallengeInv
<1>13. OneRecordPerKey
  BY <1>2, <1>3, <1>5, <1>8, EmptyTable DEF OneRecordPerKey
<1>. QED  BY <1>6, <1>9, <1>10, <1>11, <1>12, <1>13 DEF PasskeyInv

(***************************************************************************)
(* Ceremonies                                                              *)
(***************************************************************************)
\* A step that leaves the file, its copies, the writes and the notes alone.
LEMMA RowsStay ==
  ASSUME PasskeyInv, UNCHANGED <<file, mem, job, histories>>
  PROVE  RowsInv'
<1>1. (JobsInv /\ FreshInv)'
  BY DEF PasskeyInv, JobsInv, Passes, FreshInv, histories
<1>2. (LiveInv /\ DeadInv /\ CountInv)'
  BY DEF PasskeyInv, LiveInv, DeadInv, CountInv, Astray, Deletes, histories
<1>3. OneRecordPerKey'
  BY DEF PasskeyInv, OneRecordPerKey
<1>. QED  BY <1>1, <1>2, <1>3 DEF RowsInv

LEMMA IssueKeeps ==
  ASSUME PasskeyInv, NEW c \in Challenge, NEW route \in Route, Issue(c, route)
  PROVE  PasskeyInv'
<1>1. TypeOK /\ RowsInv'
  BY RowsStay DEF PasskeyInv, Issue
<1>. DEFINE new == [for |-> route, epoch |-> epoch]
<1>21. epoch \in 1..MaxEpoch /\ epoch \in Nat \ {0}
  BY <1>1, BoundAssumption DEF TypeOK
<1>22. new \in [for : Route, epoch : 0..MaxEpoch] /\ new.epoch = epoch
  BY <1>21, BoundAssumption
<1>23. cookie' = [cookie EXCEPT ![c] = new]
  BY DEF Issue
<1>. HIDE DEF new
<1>2. /\ cookie' \in [Challenge -> [for : Route, epoch : 0..MaxEpoch]]
      /\ cookie'[c].epoch = epoch
      /\ \A d \in Challenge \ {c} : cookie'[d] = cookie[d]
  BY <1>1, <1>22, <1>23 DEF TypeOK
<1>3. TypeOK'
  BY <1>1, <1>2 DEF Issue, TypeOK, histories
<1>4. uses[c] = 0 /\ flying[c] = "no" /\ c # job["service"].chal
  <2>1. cookie[c].epoch = 0 /\ cookie[c].epoch # epoch
    BY <1>21 DEF Issue
  <2>2. uses[c] # 1 /\ uses[c] <= 1 /\ uses[c] \in Nat
    BY <1>1, <2>1 DEF PasskeyInv, ChallengeInv, TypeOK
  <2>. QED  BY <2>1, <2>2 DEF PasskeyInv, ChallengeInv
<1>5. ChallengeInv'
  BY <1>2, <1>4, <1>21 DEF Issue, PasskeyInv, ChallengeInv, histories
<1>. QED  BY <1>1, <1>3, <1>5 DEF PasskeyInv, RowsInv

LEMMA TakeKeeps ==
  ASSUME PasskeyInv, NEW c \in Challenge, NEW route \in Route, Take(c, route)
  PROVE  PasskeyInv'
<1>1. TypeOK /\ RowsInv'
  BY RowsStay DEF PasskeyInv, Take
<1>2. TypeOK'
  BY <1>1 DEF Take, TypeOK, histories
<1>3. uses[c] = 0 /\ cookie[c].epoch = epoch /\ c # job["service"].chal
  <2>1. cookie[c].epoch = epoch /\ c \notin spent
    BY DEF Take, ReadsBack
  <2>2. uses[c] # 1 /\ uses[c] <= 1 /\ uses[c] \in Nat
    BY <1>1, <2>1 DEF PasskeyInv, ChallengeInv, TypeOK
  <2>. QED  BY <2>1, <2>2 DEF PasskeyInv, ChallengeInv
<1>4. \A d \in Challenge : flying'[d] = IF d = c THEN route ELSE flying[d]
  BY <1>1 DEF Take, TypeOK
<1>5. ChallengeInv'
  BY <1>3, <1>4 DEF Take, PasskeyInv, ChallengeInv, histories
<1>. QED  BY <1>1, <1>2, <1>5 DEF PasskeyInv, RowsInv

LEMMA RefuseKeeps ==
  ASSUME PasskeyInv, NEW c \in Challenge, Refuse(c)
  PROVE  PasskeyInv'
<1>1. TypeOK /\ RowsInv'
  BY RowsStay DEF PasskeyInv, Refuse
<1>2. TypeOK'
  BY <1>1 DEF Refuse, TypeOK, histories
<1>3. \A d \in Challenge : flying'[d] = IF d = c THEN "no" ELSE flying[d]
  BY <1>1 DEF Refuse, TypeOK
<1>4. ChallengeInv'
  BY <1>3 DEF Refuse, PasskeyInv, ChallengeInv, histories
<1>. QED  BY <1>1, <1>2, <1>4 DEF PasskeyInv, RowsInv

(***************************************************************************)
(* The store                                                               *)
(***************************************************************************)
\* What a process is about to write, and what makes it a write of that kind.
Sound(op, r, new) ==
    /\ op \in {"add", "delete", "signin"}
    /\ op = "add" => note[r] = "none" /\ new[r] # Absent
    /\ op = "delete" => note[r] # "none" /\ new[r] = Absent
    /\ op = "signin" => /\ note[r] # "none" /\ new[r] # Absent
                        /\ \/ new[r] > high[r]
                           \/ new[r] = 0 /\ high[r] = 0
                           \/ r \in undone
    /\ new[r] # Absent => r \in undone \/ high[r] <= new[r]

\* The service begins a write: add, sign-in or delete.
LEMMA ServiceBegins ==
  ASSUME PasskeyInv, job["service"].op = "none",
         NEW op, NEW r \in Rec, NEW c \in Challenge \union {NoChallenge}, NEW new \in Table,
         Begin("service", op, r, c, new), UNCHANGED <<file, histories>>,
         file.is # "bad", Sound(op, r, new), Proper(new),
         op \in {"add", "signin"} <=> c # NoChallenge,
         \A s \in Rec \ {r} : new[s] = Loaded.rows[s],
         op # "add" => Loaded.rows[r] # Absent
  PROVE  /\ RowsInv'
         /\ job' \in [Process -> Job] /\ mem' \in [rows : Table, raw : SUBSET Table]
         /\ job'["service"].chal = c /\ job'["tool"] = job["tool"]
<1>1. TypeOK /\ RowsInv
  BY DEF PasskeyInv, RowsInv
<1>. DEFINE j == [op |-> op, rec |-> r, chal |-> c, new |-> new]
            L == Loaded.raw
<1>2. /\ j \in Job /\ j.op = op /\ j.rec = r /\ j.chal = c /\ j.new = new
      /\ job' = [job EXCEPT !["service"] = j]
  BY DEF Begin, Sound, Job
<1>3. /\ mem'.rows = new /\ mem'.raw = L
      /\ mem' \in [rows : Table, raw : SUBSET Table]
  BY <1>1, LoadedFacts DEF Begin
<1>4. \A s \in Rec :
        /\ note[s] \in {"none", "dead"} => Loaded.rows[s] = Absent
        /\ note[s] = "live" => Loaded.rows[s] # Absent
        /\ Loaded.rows[s] # Absent => s \in undone \/ high[s] <= Loaded.rows[s]
        /\ L # {} /\ file.rows[s] = Absent /\ Loaded.rows[s] # Absent =>
               job["tool"].new[s] = Absent /\ ~Deletes("tool", s)
  BY <1>1, LoadedFacts
<1>5. \A t \in L : t = file.rows
  BY <1>1, LoadedFacts
<1>. HIDE DEF j, L
<1>6. /\ job'["service"] = j /\ job'["tool"] = job["tool"]
      /\ job' \in [Process -> Job]
  BY <1>1, <1>2 DEF TypeOK
<1>7. /\ JobsInv /\ FreshInv /\ LiveInv /\ DeadInv /\ CountInv /\ OneRecordPerKey
      /\ file' = file /\ note' = note /\ high' = high /\ undone' = undone
  BY <1>1 DEF RowsInv, histories
<1>8. JobsInv'
  <2>1. job'["service"].op # "none" /\ mem'.rows = job'["service"].new
    BY <1>2, <1>3, <1>6 DEF Sound
  <2>2. /\ j.op = "delete" => note[j.rec] # "none" /\ j.new[j.rec] = Absent
        /\ j.op = "signin" => /\ note[j.rec] # "none"
                              /\ \/ j.new[j.rec] > high[j.rec]
                                 \/ j.new[j.rec] = 0 /\ high[j.rec] = 0
                                 \/ j.rec \in undone
        /\ j.op = "add" => note[j.rec] = "none" /\ j.new[j.rec] # Absent
        /\ j.op \in {"add", "signin"} <=> j.chal # NoChallenge
        /\ j.rec \in Rec
    BY <1>2 DEF Sound
  <2>. QED  BY <1>6, <1>7, <2>1, <2>2 DEF JobsInv, Passes
<1>9. FreshInv'
  <2>1. \A s \in Rec : note[s] = "none" => (op = "add" /\ s = r) \/ new[s] = Absent
    BY <1>4 DEF Sound
  <2>. QED  BY <1>2, <1>3, <1>5, <1>6, <1>7, <2>1 DEF FreshInv
<1>10. \A s \in Rec : note[s] = "live" => new[s] # Absent \/ (op = "delete" /\ s = r)
  BY <1>4 DEF Sound
<1>11. LiveInv'
  BY <1>2, <1>3, <1>6, <1>7, <1>10 DEF LiveInv, Deletes
<1>12. DeadInv'
  <2>1. \A s \in Rec : note[s] = "dead" => new[s] = Absent
    BY <1>4 DEF Sound
  <2>2. \A s \in Rec : Astray(s)' => L # {} /\ file.rows[s] = Absent /\ new[s] # Absent
    BY <1>3, <1>5 DEF Astray
  <2>3. \A s \in Rec : Astray(s)' =>
            file.rows[s] = Absent /\ job["tool"].new[s] = Absent /\ ~Deletes("tool", s)
    <3>1. \A s \in Rec : Astray(s)' /\ (s # r \/ op # "add") => Loaded.rows[s] # Absent
      BY <2>2 DEF Sound
    <3>2. op = "add" => job["tool"].new[r] = Absent /\ ~Deletes("tool", r)
      BY <1>7 DEF Sound, FreshInv, JobsInv, Deletes
    <3>. QED  BY <1>4, <2>2, <3>1, <3>2
  <2>. QED  BY <1>2, <1>6, <1>7, <2>1, <2>2, <2>3 DEF DeadInv, Deletes
<1>13. CountInv'
  <2>1. \A s \in Rec \ undone : new[s] # Absent => high[s] <= new[s]
    BY <1>4 DEF Sound
  <2>. QED  BY <1>2, <1>3, <1>6, <1>7, <2>1 DEF CountInv
<1>14. OneRecordPerKey'
  BY <1>2, <1>3, <1>6, <1>7 DEF OneRecordPerKey
<1>. QED  BY <1>2, <1>3, <1>6, <1>8, <1>9, <1>11, <1>12, <1>13, <1>14 DEF RowsInv

\* A verify route hands its challenge on to the write it begins.
LEMMA HandsOn ==
  ASSUME PasskeyInv, NEW c \in Challenge, flying[c] # "no",
         flying' = [flying EXCEPT ![c] = "no"], UNCHANGED <<epoch, cookie, spent, histories>>,
         job'["service"].chal = c, job'["tool"] = job["tool"],
         job["service"].op = "none"
  PROVE  ChallengeInv' /\ flying' \in [Challenge -> Route \union {"no"}]
<1>1. flying \in [Challenge -> Route \union {"no"}]
  BY DEF PasskeyInv, TypeOK
<1>2. \A d \in Challenge : flying'[d] = IF d = c THEN "no" ELSE flying[d]
  BY <1>1
<1>. QED  BY <1>1, <1>2 DEF PasskeyInv, ChallengeInv, histories

LEMMA AddKeeps ==
  ASSUME PasskeyInv, NEW c \in Challenge, NEW r \in Rec, NEW n \in Count, Add(c, r, n)
  PROVE  PasskeyInv'
<1>. DEFINE new == [Loaded.rows EXCEPT ![r] = n]
<1>1. TypeOK /\ RowsInv /\ c # NoChallenge
  BY ChallengeAssumption DEF PasskeyInv, RowsInv
<1>2. Loaded.rows \in Table /\ Proper(Loaded.rows)
  BY <1>1, LoadedFacts
<1>3. Proper(new)
  BY <1>2, OneRowMore DEF Add, Registered
<1>4. new \in Table /\ new[r] = n /\ \A s \in Rec \ {r} : new[s] = Loaded.rows[s]
  BY <1>2 DEF Table
<1>5. Begin("service", "add", r, c, new) /\ UNCHANGED <<file, histories>>
  BY DEF Add, Registered
<1>. HIDE DEF new
<1>6. Sound("add", r, new)
  <2>1. note[r] = "none" /\ high[r] = 0
    BY <1>1 DEF Add, Registered, RowsInv, FreshInv
  <2>2. n \in Nat /\ n # Absent
    BY DEF Count, Absent
  <2>. QED  BY <1>4, <2>1, <2>2 DEF Sound
<1>7. job["service"].op = "none" /\ file.is # "bad"
  BY DEF Add, Registered, Writable
<1>8. /\ RowsInv'
      /\ job' \in [Process -> Job] /\ mem' \in [rows : Table, raw : SUBSET Table]
      /\ job'["service"].chal = c /\ job'["tool"] = job["tool"]
  BY <1>1, <1>3, <1>4, <1>5, <1>6, <1>7, ServiceBegins
<1>9. ChallengeInv' /\ flying' \in [Challenge -> Route \union {"no"}]
  BY <1>7, <1>8, HandsOn DEF Add, Registered
<1>10. TypeOK'
  BY <1>1, <1>8, <1>9 DEF Add, Registered, TypeOK, histories
<1>. QED  BY <1>8, <1>9, <1>10 DEF PasskeyInv, RowsInv

LEMMA SignInKeeps ==
  ASSUME PasskeyInv, NEW c \in Challenge, NEW r \in Rec, NEW n \in Count, SignIn(c, r, n)
  PROVE  PasskeyInv'
<1>. DEFINE new == [Loaded.rows EXCEPT ![r] = n]
<1>1. TypeOK /\ RowsInv /\ c # NoChallenge
  BY ChallengeAssumption DEF PasskeyInv, RowsInv
<1>2. Loaded.rows \in Table /\ Proper(Loaded.rows)
  BY <1>1, LoadedFacts
<1>3. r \in Rows(Loaded.rows) /\ Loaded.rows[r] # Absent
  BY DEF SignIn, Asserted, Rows
<1>4. new \in Table /\ new[r] = n /\ \A s \in Rec \ {r} : new[s] = Loaded.rows[s]
  BY <1>2 DEF Table
<1>5. Begin("service", "signin", r, c, new) /\ UNCHANGED <<file, histories>>
  BY DEF SignIn, Asserted
<1>. HIDE DEF new
<1>6. Proper(new)
  BY <1>2, <1>3, <1>4, FewerRows DEF Rows
<1>7. job["service"].op = "none"
  BY DEF SignIn, Asserted
<1>8. file.is # "bad"
  <2>1. \A s \in Rec : Empty[s] = Absent
    BY DEF Empty
  <2>. QED  BY <1>3, <2>1 DEF Loaded
<1>9. Sound("signin", r, new)
  <2>1. /\ note[r] # "none" /\ (r \in undone \/ high[r] <= Loaded.rows[r])
        /\ high[r] \in Nat /\ Loaded.rows[r] \in Nat
    BY <1>1, <1>2, <1>3, <1>7, LoadedFacts DEF TypeOK, Table, Count
  <2>2. (Loaded.rows[r] = 0 /\ n = 0) \/ n > Loaded.rows[r]
    BY DEF SignIn, Asserted, CountsUp
  <2>3. n \in Nat /\ n # Absent
    BY DEF Count, Absent
  <2>4. r \notin undone => n > high[r] \/ (n = 0 /\ high[r] = 0)
    BY <2>1, <2>2, <2>3
  <2>5. /\ note[r] # "none" /\ new[r] # Absent
        /\ r \notin undone => new[r] > high[r] \/ (new[r] = 0 /\ high[r] = 0)
        /\ r \notin undone => high[r] <= new[r]
    BY <1>4, <2>1, <2>3, <2>4
  <2>. QED  BY <2>5 DEF Sound
<1>10. /\ RowsInv'
      /\ job' \in [Process -> Job] /\ mem' \in [rows : Table, raw : SUBSET Table]
      /\ job'["service"].chal = c /\ job'["tool"] = job["tool"]
  BY <1>1, <1>3, <1>4, <1>5, <1>6, <1>7, <1>8, <1>9, ServiceBegins
<1>11. ChallengeInv' /\ flying' \in [Challenge -> Route \union {"no"}]
  BY <1>7, <1>10, HandsOn DEF SignIn, Asserted
<1>12. TypeOK'
  BY <1>1, <1>10, <1>11 DEF SignIn, Asserted, TypeOK, histories
<1>. QED  BY <1>10, <1>11, <1>12 DEF PasskeyInv, RowsInv

LEMMA ServiceDeleteKeeps ==
  ASSUME PasskeyInv, NEW r \in Rec, Delete("service", r)
  PROVE  PasskeyInv'
<1>. DEFINE new == [Loaded.rows EXCEPT ![r] = Absent]
<1>1. TypeOK /\ RowsInv
  BY DEF PasskeyInv, RowsInv
<1>2. Loaded.rows \in Table /\ Proper(Loaded.rows)
  BY <1>1, LoadedFacts
<1>3. r \in Rows(Loaded.rows) /\ Loaded.rows[r] # Absent
  BY DEF Delete, Rows
<1>4. new \in Table /\ new[r] = Absent /\ \A s \in Rec \ {r} : new[s] = Loaded.rows[s]
  BY <1>2 DEF Table
<1>5. Begin("service", "delete", r, NoChallenge, new) /\ UNCHANGED <<file, histories>>
  BY DEF Delete
<1>. HIDE DEF new
<1>6. Proper(new)
  BY <1>2, <1>3, <1>4, FewerRows DEF Rows
<1>7. job["service"].op = "none" /\ file.is # "bad"
  BY DEF Delete, Writable
<1>8. Sound("delete", r, new)
  BY <1>1, <1>3, <1>4, <1>7, LoadedFacts DEF Sound
<1>9. /\ RowsInv'
      /\ job' \in [Process -> Job] /\ mem' \in [rows : Table, raw : SUBSET Table]
      /\ job'["service"].chal = NoChallenge /\ job'["tool"] = job["tool"]
  BY <1>1, <1>3, <1>4, <1>5, <1>6, <1>7, <1>8, ServiceBegins
<1>10. ChallengeInv'
  BY <1>9, ChallengeAssumption DEF Delete, PasskeyInv, ChallengeInv, ceremonies, histories
<1>11. TypeOK'
  BY <1>1, <1>9 DEF Delete, TypeOK, ceremonies, histories
<1>. QED  BY <1>9, <1>10, <1>11 DEF PasskeyInv, RowsInv

LEMMA ToolDeleteKeeps ==
  ASSUME PasskeyInv, NEW r \in Rec, Delete("tool", r)
  PROVE  PasskeyInv'
<1>. DEFINE new == [file.rows EXCEPT ![r] = Absent]
            j == [op |-> "delete", rec |-> r, chal |-> NoChallenge, new |-> new]
<1>1. /\ TypeOK /\ RowsInv
      /\ JobsInv /\ FreshInv /\ LiveInv /\ DeadInv /\ CountInv /\ OneRecordPerKey
  BY DEF PasskeyInv, RowsInv
<1>2. file.is = "good" /\ file.rows[r] # Absent
  BY DEF Delete, Rows, Empty
<1>3. /\ new \in Table /\ new[r] = Absent
      /\ \A s \in Rec \ {r} : new[s] = file.rows[s]
  BY <1>1 DEF TypeOK, Table
<1>4. job' = [job EXCEPT !["tool"] = j]
  BY <1>2 DEF Delete, Begin
<1>5. j \in Job /\ j.op = "delete" /\ j.rec = r /\ j.chal = NoChallenge /\ j.new = new
  BY <1>3 DEF Job
<1>6. /\ file' = file /\ mem' = mem /\ note' = note /\ high' = high
      /\ epoch' = epoch /\ cookie' = cookie /\ spent' = spent /\ flying' = flying
      /\ uses' = uses /\ undone' = undone
  BY DEF Delete, Begin, ceremonies, histories
<1>. HIDE DEF new, j
<1>7. /\ job'["tool"] = j /\ job'["service"] = job["service"]
      /\ job' \in [Process -> Job]
  BY <1>1, <1>4, <1>5 DEF TypeOK
<1>8. Proper(new)
  BY <1>1, <1>2, <1>3, FewerRows DEF Rows, OneRecordPerKey
<1>9. note[r] # "none"
  BY <1>1, <1>2 DEF FreshInv
<1>10. JobsInv'
  BY <1>1, <1>3, <1>5, <1>6, <1>7, <1>9 DEF JobsInv, Passes
<1>11. FreshInv'
  BY <1>1, <1>3, <1>5, <1>6, <1>7, <1>9 DEF FreshInv
<1>12. LiveInv'
  BY <1>1, <1>3, <1>5, <1>6, <1>7 DEF LiveInv, Deletes
<1>13. DeadInv'
  BY <1>1, <1>2, <1>3, <1>5, <1>6, <1>7 DEF DeadInv, Astray, Deletes
<1>14. CountInv'
  BY <1>1, <1>3, <1>5, <1>6, <1>7 DEF CountInv
<1>15. OneRecordPerKey'
  BY <1>1, <1>5, <1>6, <1>7, <1>8 DEF OneRecordPerKey
<1>16. ChallengeInv'
  BY <1>5, <1>6, <1>7, ChallengeAssumption DEF PasskeyInv, ChallengeInv
<1>17. TypeOK'
  BY <1>1, <1>6, <1>7 DEF TypeOK
<1>. QED
  BY <1>10, <1>11, <1>12, <1>13, <1>14, <1>15, <1>16, <1>17 DEF PasskeyInv

\* The end of a write: what it leaves of the file, the notes and the counters.
LEMMA SaveKeeps ==
  ASSUME PasskeyInv, NEW p \in Process, NEW o \in Outcome, Save(p, o)
  PROVE  PasskeyInv'
<1>. DEFINE j == job[p]
            r == j.rec
            q == Other(p)
<1>1. /\ TypeOK /\ RowsInv
      /\ JobsInv /\ FreshInv /\ LiveInv /\ DeadInv /\ CountInv /\ OneRecordPerKey /\ ChallengeInv
  BY DEF PasskeyInv, RowsInv
<1>2. /\ q \in Process /\ q # p /\ Process = {p, q}
      /\ p = "service" <=> q = "tool"
  BY DEF Other
<1>3. /\ j \in Job /\ j.op # "none" /\ r \in Rec /\ j.new \in Table
      /\ Proper(j.new)
      /\ j.op = "delete" => note[r] # "none" /\ j.new[r] = Absent
      /\ j.op = "add" => note[r] = "none" /\ j.new[r] # Absent
      /\ p = "tool" => j.op = "delete"
      /\ j.op \in {"add", "delete", "signin"}
      /\ j.op = "signin" => /\ note[r] # "none"
                            /\ \/ j.new[r] > high[r]
                               \/ j.new[r] = 0 /\ high[r] = 0
                               \/ r \in undone
  BY <1>1 DEF Save, Passes, TypeOK, Job, JobsInv, OneRecordPerKey
<1>4. /\ NoJob \in Job
      /\ NoJob.op = "none" /\ NoJob.new = Empty /\ NoJob.chal = NoChallenge /\ NoJob.rec = NoRec
  BY EmptyTable DEF NoJob, Job
<1>5. /\ job'[p] = NoJob /\ job'[q] = job[q] /\ job' \in [Process -> Job]
  BY <1>1, <1>2, <1>4 DEF Save, TypeOK
<1>6. /\ file' \in [is : {"good", "bad", "gone"}, rows : Table]
      /\ file' = file \/ (file'.is = "good" /\ file'.rows = j.new)
      /\ o \in {"answered", "unanswered"} => file'.rows = j.new
  BY <1>1, <1>3 DEF Save, Replaces, TypeOK
<1>7. /\ mem' \in [rows : Table, raw : SUBSET Table]
      /\ mem'.rows = mem.rows
      /\ mem'.raw = {} \/ (mem'.raw = mem.raw /\ (p = "service" => file' = file))
      /\ p = "tool" => mem' = mem
      /\ p = "service" /\ o # "untried" => mem'.raw = {}
  BY <1>1 DEF Save, Replaces, TypeOK
<1>8. /\ note' \in [Rec -> Notes]
      /\ \A s \in Rec : note'[s] = note[s] \/ (s = r /\ j.op # "signin")
      /\ j.op = "add" =>
            /\ note'[r] \in {"live", "unsure"}
            /\ note'[r] = "live" => o = "answered" /\ job[q].op = "none"
      /\ j.op = "delete" =>
            /\ note'[r] \in {"dead", "unsure"}
            /\ note'[r] = "dead" => o = "answered" /\ job[q].op = "none"
  <2>1. \A g \in {"live", "dead"} :
            /\ Told(p, o, g) \in {g, "unsure"}
            /\ Told(p, o, g) # "unsure" => o = "answered" /\ job[q].op = "none"
    BY DEF Told
  <2>2. j.op = "add" => note' = [note EXCEPT ![r] = Told(p, o, "live")]
    BY DEF Save
  <2>3. j.op = "delete" => note' = [note EXCEPT ![r] = Told(p, o, "dead")]
    BY DEF Save
  <2>4. j.op = "signin" => note' = note
    BY DEF Save
  <2>. HIDE DEF j, r, q
  <2>. QED  BY <1>1, <1>3, <2>1, <2>2, <2>3, <2>4 DEF TypeOK, Notes
<1>9. /\ high' \in [Rec -> Count]
      /\ \A s \in Rec : \/ high'[s] = high[s]
                        \/ /\ s = r /\ j.op = "signin" /\ p = "service"
                           /\ high'[s] = j.new[s] /\ o = "answered"
      /\ undone' \in SUBSET Rec
      /\ undone \subseteq undone' \/ (undone' = undone \ {r} /\ high'[r] = j.new[r]
                                       /\ p = "service" /\ o = "answered")
      /\ \A s \in undone' : s \in undone \/ (j.new[s] # Absent /\ j.new[s] < high[s])
      /\ p = "tool" => high' = high /\ undone \subseteq undone'
      /\ p = "tool" /\ o \in {"answered", "unanswered"} =>
            \A s \in Rec : s \in undone' \/ j.new[s] = Absent \/ ~(j.new[s] < high[s])
  <2>1. j.op = "signin" /\ Passes(j) => j.new[r] \in Count
    <3>1. j.new[r] \in Count \union {Absent} /\ high[r] \in Count
      BY <1>1, <1>3 DEF TypeOK, Table
    <3>. QED  BY <3>1 DEF Passes, Count, Absent
  <2>2. \/ high' = high
        \/ /\ high' = [high EXCEPT ![r] = j.new[r]]
           /\ j.op = "signin" /\ o = "answered" /\ Passes(j)
    BY DEF Save, LetsIn
  <2>3. j.op = "signin" => p = "service"
    BY <1>3
  <2>4. /\ undone \subseteq Rec
        /\ p = "tool" => undone' = undone \/ undone' = undone \union PutBack(j.new)
        /\ p = "tool" /\ o \in {"answered", "unanswered"} =>
               undone' = undone \union PutBack(j.new)
        /\ p # "tool" => \/ undone' = undone
                         \/ /\ undone' = undone \ {r} /\ j.op = "signin" /\ o = "answered"
                            /\ high' = [high EXCEPT ![r] = j.new[r]]
    <3>1. undone \subseteq Rec
      BY <1>1 DEF TypeOK
    <3>2. undone' = CASE p = "tool" /\ Replaces(o) -> undone \union PutBack(j.new)
                       [] j.op = "signin" /\ LetsIn(j, o) /\ Passes(j) -> undone \ {r}
                       [] OTHER -> undone
      BY DEF Save
    <3>3. j.op = "signin" /\ LetsIn(j, o) /\ Passes(j) => high' = [high EXCEPT ![r] = j.new[r]]
      BY DEF Save
    <3>4. /\ Replaces(o) <=> o \in {"answered", "unanswered"}
          /\ LetsIn(j, o) => o = "answered"
      BY DEF Replaces, LetsIn
    <3>5. p = "tool" => j.op # "signin"
      BY <1>3
    <3>. HIDE DEF j, r, q
    <3>. QED  BY <3>1, <3>2, <3>3, <3>4, <3>5
  <2>. HIDE DEF j, r, q
  <2>5. /\ high' \in [Rec -> Count]
        /\ \A s \in Rec : \/ high'[s] = high[s]
                          \/ /\ s = r /\ j.op = "signin" /\ p = "service"
                             /\ high'[s] = j.new[s] /\ o = "answered"
        /\ p = "tool" => high' = high
    BY <1>1, <1>3, <2>1, <2>2, <2>3 DEF TypeOK
  <2>6. /\ PutBack(j.new) \subseteq Rec
        /\ \A s \in PutBack(j.new) : j.new[s] # Absent /\ j.new[s] < high[s]
        /\ \A s \in Rec : s \in PutBack(j.new) \/ j.new[s] = Absent \/ ~(j.new[s] < high[s])
    BY DEF PutBack, Rows
  <2>7. CASE p = "tool"
    BY <2>4, <2>5, <2>6, <2>7
  <2>8. CASE p # "tool"
    <3>1. high' = [high EXCEPT ![r] = j.new[r]] => high'[r] = j.new[r]
      BY <1>1, <1>3 DEF TypeOK
    <3>. QED  BY <1>2, <1>3, <2>3, <2>4, <2>5, <2>8, <3>1
  <2>. QED  BY <2>7, <2>8
<1>10. UNCHANGED <<epoch, cookie, spent, flying>>
  BY DEF Save, ceremonies
<1>11. \A s \in Rec : Empty[s] = Absent
  BY DEF Empty
<1>. HIDE DEF j, r, q
<1>12. /\ \A x \in Process : x = p \/ x = q
       /\ job[p] = j /\ r = j.rec /\ p \in Process
  BY <1>2 DEF j, r
<1>13. JobsInv'
  <2>1. \A s \in Rec : /\ note[s] # "none" => note'[s] # "none"
                       /\ p = "tool" /\ note[s] = "none" => note'[s] = "none"
    BY <1>3, <1>8
  <2>2. p = "tool" => high' = high /\ undone \subseteq undone'
    BY <1>9
  <2>3. file'.is = "gone" => file'.rows = Empty
    BY <1>1, <1>6 DEF JobsInv
  <2>4. job'["tool"].op \in {"none", "delete"}
    BY <1>1, <1>2, <1>4, <1>5, <1>12 DEF JobsInv
  <2>5. job'["service"].op # "none" => mem'.rows = job'["service"].new
    BY <1>1, <1>2, <1>4, <1>5, <1>7, <1>12 DEF JobsInv
  <2>6. job'[q] = job[q] /\ (job[q].op \in {"add", "signin"} => p = "tool")
    BY <1>1, <1>2, <1>5 DEF JobsInv
  <2>7. /\ job[q].op = "none" => job[q] = NoJob
        /\ job[q].op # "none" => job[q].rec \in Rec
        /\ job[q].op = "delete" => note'[job[q].rec] # "none" /\ job[q].new[job[q].rec] = Absent
        /\ job[q].op = "signin" => /\ note'[job[q].rec] # "none"
                                   /\ \/ job[q].new[job[q].rec] > high'[job[q].rec]
                                      \/ job[q].new[job[q].rec] = 0 /\ high'[job[q].rec] = 0
                                      \/ job[q].rec \in undone'
        /\ job[q].op = "add" => note'[job[q].rec] = "none" /\ job[q].new[job[q].rec] # Absent
        /\ job[q].op \in {"add", "signin"} <=> job[q].chal # NoChallenge
    BY <1>1, <1>2, <2>1, <2>2, <2>6 DEF JobsInv, Passes
  <2>. QED  BY <1>4, <1>5, <1>12, <2>3, <2>4, <2>5, <2>6, <2>7 DEF JobsInv, Passes
<1>14. FreshInv'
  <2>. SUFFICES ASSUME NEW s \in Rec, note'[s] = "none"
                PROVE  /\ high'[s] = 0 /\ s \notin undone'
                       /\ file'.rows[s] = Absent /\ job'["tool"].new[s] = Absent
                       /\ \A t \in mem'.raw : t[s] = Absent
                       /\ \/ job'["service"].op = "add" /\ job'["service"].rec = s
                          \/ mem'.rows[s] = Absent
    BY DEF FreshInv
  <2>1. note[s] = "none" /\ s # r
    BY <1>3, <1>8
  <2>2. /\ high[s] = 0 /\ s \notin undone /\ file.rows[s] = Absent /\ job["tool"].new[s] = Absent
        /\ \A t \in mem.raw : t[s] = Absent
        /\ \/ job["service"].op = "add" /\ job["service"].rec = s
           \/ mem.rows[s] = Absent
    BY <1>1, <2>1 DEF FreshInv
  <2>3. p = "service" => mem.rows[s] = Absent /\ mem.rows = j.new
    BY <1>1, <1>3, <1>12, <2>1, <2>2 DEF JobsInv
  <2>4. j.new[s] = Absent
    BY <1>2, <1>12, <2>2, <2>3
  <2>. QED  BY <1>2, <1>4, <1>5, <1>6, <1>7, <1>9, <1>11, <1>12, <2>1, <2>2, <2>3, <2>4
<1>15. LiveInv'
  <2>. SUFFICES ASSUME NEW s \in Rec, note'[s] = "live"
                PROVE  /\ file'.rows[s] # Absent
                       /\ job[q].op # "none" => job[q].new[s] # Absent \/ Deletes(q, s)
                       /\ \A t \in mem'.raw :
                            t[s] # Absent => mem.rows[s] # Absent \/ (p = "tool" /\ Deletes("service", s))
    BY <1>2, <1>4, <1>5, <1>7, <1>12 DEF LiveInv, Deletes
  <2>1. CASE note[s] = "live" /\ ~(s = r /\ j.op = "delete")
    <3>1. /\ file.rows[s] # Absent /\ j.new[s] # Absent
          /\ job[q].op # "none" => job[q].new[s] # Absent \/ Deletes(q, s)
          /\ \A t \in mem.raw :
               t[s] # Absent => mem.rows[s] # Absent \/ Deletes("service", s)
      BY <1>1, <1>2, <1>3, <1>12, <2>1 DEF LiveInv, Deletes
    <3>2. p = "service" => ~Deletes("service", s)
      BY <1>12, <2>1 DEF Deletes
    <3>. QED  BY <1>2, <1>6, <1>7, <3>1, <3>2
  <2>2. CASE s = r /\ j.op = "add"
    <3>1. o = "answered" /\ job[q].op = "none" /\ p = "service"
      BY <1>2, <1>3, <1>8, <2>2
    <3>. QED  BY <1>3, <1>6, <1>7, <2>2, <3>1
  <2>. QED  BY <1>3, <1>8, <2>1, <2>2
<1>16. DeadInv'
  <2>1. \A s \in Rec : Astray(s)' => Astray(s) /\ mem'.raw # {}
    BY <1>7 DEF Astray
  <2>2. \A s \in Rec : Astray(s)' =>
            file'.rows[s] = Absent /\ job'["tool"].new[s] = Absent /\ ~Deletes("tool", s)'
    <3>1. \A s \in Rec : Astray(s) =>
            file.rows[s] = Absent /\ job["tool"].new[s] = Absent /\ ~Deletes("tool", s)
      BY <1>1 DEF DeadInv
    <3>2. \A s \in Rec : Astray(s)' => file'.rows[s] = Absent
      BY <1>2, <1>6, <1>7, <1>12, <2>1, <3>1
    <3>. QED  BY <1>2, <1>4, <1>5, <1>11, <1>12, <2>1, <3>1, <3>2 DEF Deletes
  <2>3. ASSUME NEW s \in Rec, note'[s] = "dead"
        PROVE  /\ file'.rows[s] = Absent /\ job[q].new[s] = Absent /\ ~Astray(s)'
    <3>1. CASE note[s] = "dead"
      BY <1>1, <1>2, <1>6, <1>12, <2>1, <3>1 DEF DeadInv
    <3>2. CASE s = r /\ j.op = "delete"
      <4>1. o = "answered" /\ job[q] = NoJob
        BY <1>1, <1>2, <1>8, <2>3, <3>2 DEF JobsInv
      <4>2. p = "tool" => ~Astray(s)
        BY <1>1, <1>12, <3>2 DEF DeadInv, Deletes
      <4>. QED  BY <1>2, <1>3, <1>4, <1>6, <1>7, <1>11, <2>1, <3>2, <4>1, <4>2
    <3>. QED  BY <1>3, <1>8, <2>3, <3>1, <3>2
  <2>. QED  BY <1>4, <1>5, <1>11, <1>12, <2>2, <2>3 DEF DeadInv
<1>17. CountInv'
  <2>. SUFFICES ASSUME NEW s \in Rec, s \notin undone'
                PROVE  /\ file'.rows[s] # Absent => high'[s] <= file'.rows[s]
                       /\ job'["service"].new[s] # Absent => high'[s] <= job'["service"].new[s]
                       /\ mem'.raw # {} /\ mem'.rows[s] # Absent => high'[s] <= mem'.rows[s]
    BY DEF CountInv
  <2>1. CASE s \notin undone /\ high'[s] = high[s]
    <3>1. /\ file.rows[s] # Absent => high[s] <= file.rows[s]
          /\ job["service"].new[s] # Absent => high[s] <= job["service"].new[s]
          /\ mem.raw # {} /\ mem.rows[s] # Absent => high[s] <= mem.rows[s]
      BY <1>1, <2>1 DEF CountInv
    <3>2. /\ mem'.raw # {} => mem.raw # {}
          /\ mem'.rows = mem.rows
      BY <1>7
    <3>3. job'["service"].new[s] = Absent \/ job'["service"].new = job["service"].new
      BY <1>2, <1>4, <1>5, <1>11, <1>12
    <3>4. file'.rows = j.new /\ j.new[s] # Absent => high[s] <= j.new[s]
      <4>1. CASE p = "service"
        BY <1>12, <3>1, <4>1
      <4>2. CASE p = "tool" /\ o \in {"answered", "unanswered"}
        <5>1. j.new[s] \in Int /\ high[s] \in Int
          BY <1>1, <1>3 DEF TypeOK, Table, Count, Absent
        <5>2. j.new[s] # Absent => ~(j.new[s] < high[s])
          BY <1>9, <4>2
        <5>. QED  BY <5>1, <5>2
      <4>3. CASE o \notin {"answered", "unanswered"}
        <5>1. file' = file
          BY <4>3 DEF Save, Replaces
        <5>. QED  BY <3>1, <5>1
      <4>. QED  BY <1>12, <4>1, <4>2, <4>3
    <3>. QED  BY <1>6, <2>1, <3>1, <3>2, <3>3, <3>4
  <2>2. CASE p = "service" /\ high'[s] = j.new[s] /\ o = "answered"
    <3>1. high'[s] \in Nat /\ high'[s] <= high'[s]
      BY <1>9 DEF Count
    <3>2. file'.rows = j.new /\ mem'.raw = {} /\ job'["service"] = NoJob
      BY <1>5, <1>6, <1>7, <2>2
    <3>. QED  BY <1>4, <1>11, <2>2, <3>1, <3>2
  <2>. QED  BY <1>9, <2>1, <2>2
<1>18. OneRecordPerKey'
  BY <1>1, <1>2, <1>3, <1>4, <1>5, <1>6, <1>7, <1>12, EmptyTable DEF OneRecordPerKey
<1>19. uses' \in [Challenge -> Nat] /\ ChallengeInv'
  <2>1. CASE uses' = uses
    BY <1>1, <1>2, <1>4, <1>5, <1>10, <1>12, <2>1, ChallengeAssumption DEF TypeOK, ChallengeInv
  <2>2. CASE LetsIn(j, o)
    <3>1. p = "service" /\ j.chal \in Challenge
      BY <1>1, <1>2, <1>3, <1>12, <2>2 DEF LetsIn, JobsInv, Job
    <3>2. uses' = [uses EXCEPT ![j.chal] = uses[j.chal] + 1]
      BY <1>12, <2>2 DEF Save, j
    <3>3. /\ uses[j.chal] = 0 /\ cookie[j.chal].epoch = epoch /\ j.chal \in spent
          /\ flying[j.chal] = "no" /\ epoch # 0
      BY <1>1, <1>12, <3>1 DEF ChallengeInv, TypeOK
    <3>4. /\ uses'[j.chal] = 1
          /\ \A c \in Challenge \ {j.chal} : uses'[c] = uses[c]
          /\ uses' \in [Challenge -> Nat]
      BY <1>1, <3>1, <3>2, <3>3 DEF TypeOK
    <3>5. job'["service"].chal = NoChallenge /\ job'["tool"].chal = job["tool"].chal
      BY <1>2, <1>4, <1>5, <3>1
    <3>. QED
      BY <1>1, <1>10, <3>1, <3>3, <3>4, <3>5, ChallengeAssumption DEF ChallengeInv
  <2>. QED  BY <1>12, <2>1, <2>2 DEF Save, j
<1>20. TypeOK'
  BY <1>1, <1>5, <1>6, <1>7, <1>8, <1>9, <1>10, <1>19 DEF TypeOK
<1>. QED
  BY <1>13, <1>14, <1>15, <1>16, <1>17, <1>18, <1>19, <1>20 DEF PasskeyInv

LEMMA ReadKeeps == PasskeyInv /\ Read => PasskeyInv'
<1>. SUFFICES ASSUME PasskeyInv, Read PROVE PasskeyInv'
  OBVIOUS
<1>1. /\ TypeOK /\ RowsInv
      /\ JobsInv /\ FreshInv /\ LiveInv /\ DeadInv /\ CountInv /\ OneRecordPerKey
  BY DEF PasskeyInv, RowsInv
<1>2. /\ mem' \in [rows : Table, raw : SUBSET Table]
      /\ Proper(mem'.rows)
      /\ \A t \in mem'.raw : t = file.rows /\ file.is = "good"
      /\ \A r \in Rec :
              /\ note[r] \in {"none", "dead"} => mem'.rows[r] = Absent
              /\ note[r] = "live" /\ file.is # "bad" => mem'.rows[r] # Absent
              /\ mem'.rows[r] # Absent => r \in undone \/ high[r] <= mem'.rows[r]
              /\ mem'.raw # {} /\ file.rows[r] = Absent /\ mem'.rows[r] # Absent =>
                     /\ job["tool"].new[r] = Absent
                     /\ ~Deletes("tool", r)
  BY <1>1, LoadedFacts DEF Read
<1>3. /\ file' = file /\ job' = job /\ note' = note /\ high' = high
      /\ epoch' = epoch /\ cookie' = cookie /\ spent' = spent /\ flying' = flying
      /\ uses' = uses /\ undone' = undone /\ job["service"].op = "none"
  BY DEF Read, ceremonies, histories
<1>4. JobsInv' /\ FreshInv' /\ LiveInv' /\ CountInv' /\ OneRecordPerKey'
  <2>1. JobsInv'
    BY <1>1, <1>3 DEF JobsInv, Passes
  <2>2. FreshInv'
    BY <1>1, <1>2, <1>3 DEF FreshInv
  <2>3. LiveInv'
    BY <1>1, <1>2, <1>3 DEF LiveInv, Deletes
  <2>4. CountInv' /\ OneRecordPerKey'
    BY <1>1, <1>2, <1>3 DEF CountInv, OneRecordPerKey
  <2>. QED  BY <2>1, <2>2, <2>3, <2>4
<1>5. DeadInv'
  <2>1. \A r \in Rec : Astray(r)' => mem'.raw # {} /\ file.rows[r] = Absent /\ mem'.rows[r] # Absent
    BY <1>2 DEF Astray
  <2>. QED  BY <1>1, <1>2, <1>3, <2>1 DEF DeadInv, Deletes
<1>6. ChallengeInv' /\ TypeOK'
  BY <1>1, <1>2, <1>3 DEF PasskeyInv, ChallengeInv, TypeOK
<1>. QED  BY <1>4, <1>5, <1>6 DEF PasskeyInv

LEMMA RestartKeeps == PasskeyInv /\ Restart => PasskeyInv'
<1>. SUFFICES ASSUME PasskeyInv, Restart PROVE PasskeyInv'
  OBVIOUS
<1>1. /\ TypeOK
      /\ JobsInv /\ FreshInv /\ LiveInv /\ DeadInv /\ CountInv /\ OneRecordPerKey
  BY DEF PasskeyInv
<1>2. /\ NoJob \in Job
      /\ NoJob.op = "none" /\ NoJob.new = Empty /\ NoJob.chal = NoChallenge
  BY EmptyTable DEF NoJob, Job
<1>3. /\ job'["service"] = NoJob /\ job'["tool"] = job["tool"] /\ job' \in [Process -> Job]
      /\ mem' \in [rows : Table, raw : SUBSET Table] /\ mem'.rows = Empty /\ mem'.raw = {}
  BY <1>1, <1>2, EmptyTable DEF Restart, TypeOK
<1>4. /\ file' = file /\ note' = note /\ high' = high /\ uses' = uses /\ cookie' = cookie
      /\ undone' = undone
      /\ spent' = {} /\ flying' = [c \in Challenge |-> "no"]
      /\ epoch' = epoch + 1 /\ epoch \in 1..MaxEpoch /\ epoch < MaxEpoch
  BY <1>1 DEF Restart, histories, TypeOK
<1>5. \A r \in Rec : Empty[r] = Absent
  BY DEF Empty
<1>6. JobsInv' /\ FreshInv' /\ LiveInv'
  BY <1>1, <1>2, <1>3, <1>4, <1>5 DEF JobsInv, Passes, FreshInv, LiveInv, Deletes
<1>7. DeadInv' /\ CountInv'
  BY <1>1, <1>2, <1>3, <1>4, <1>5 DEF DeadInv, CountInv, Astray, Deletes
<1>8. OneRecordPerKey'
  BY <1>1, <1>2, <1>3, <1>4, EmptyTable DEF OneRecordPerKey
<1>9. ChallengeInv'
  <2>1. \A c \in Challenge : cookie[c].epoch \in Nat /\ cookie[c].epoch < epoch'
    BY <1>1, <1>4, BoundAssumption DEF PasskeyInv, ChallengeInv, TypeOK
  <2>2. \A c \in Challenge : /\ uses[c] <= 1
                             /\ uses[c] = 1 => cookie[c].epoch # 0
                             /\ c # job["tool"].chal
    BY DEF PasskeyInv, ChallengeInv
  <2>. QED  BY <1>2, <1>3, <1>4, <2>1, <2>2, ChallengeAssumption DEF ChallengeInv
<1>10. TypeOK'
  BY <1>1, <1>3, <1>4, BoundAssumption DEF TypeOK
<1>. QED  BY <1>6, <1>7, <1>8, <1>9, <1>10 DEF PasskeyInv

LEMMA MangleKeeps == PasskeyInv /\ Mangle => PasskeyInv'
<1>. SUFFICES ASSUME PasskeyInv, Mangle PROVE PasskeyInv'
  OBVIOUS
<1>1. /\ TypeOK
      /\ JobsInv /\ FreshInv /\ LiveInv /\ DeadInv /\ CountInv /\ OneRecordPerKey
  BY DEF PasskeyInv
<1>2. /\ file' \in [is : {"good", "bad", "gone"}, rows : Table]
      /\ file'.rows = file.rows /\ file'.is # "gone"
  BY <1>1 DEF Mangle, TypeOK
<1>3. /\ mem' = mem /\ job' = job /\ note' = note /\ high' = high
      /\ epoch' = epoch /\ cookie' = cookie /\ spent' = spent /\ flying' = flying
      /\ uses' = uses /\ undone' = undone
  BY DEF Mangle, ceremonies, histories
<1>4. (JobsInv /\ FreshInv /\ LiveInv)'
  BY <1>1, <1>2, <1>3 DEF JobsInv, Passes, FreshInv, LiveInv, Deletes
<1>5. (DeadInv /\ CountInv /\ OneRecordPerKey)'
  BY <1>1, <1>2, <1>3 DEF DeadInv, CountInv, OneRecordPerKey, Astray, Deletes
<1>6. (ChallengeInv /\ TypeOK)'
  BY <1>1, <1>2, <1>3 DEF PasskeyInv, ChallengeInv, TypeOK
<1>. QED  BY <1>4, <1>5, <1>6 DEF PasskeyInv

LEMMA RemoveKeeps == PasskeyInv /\ Remove => PasskeyInv'
<1>. SUFFICES ASSUME PasskeyInv, Remove PROVE PasskeyInv'
  OBVIOUS
<1>1. /\ TypeOK
      /\ JobsInv /\ FreshInv /\ LiveInv /\ DeadInv /\ CountInv /\ OneRecordPerKey
  BY DEF PasskeyInv
<1>2. /\ file' \in [is : {"good", "bad", "gone"}, rows : Table]
      /\ file'.rows = Empty
  BY EmptyTable DEF Remove
<1>3. /\ mem' = mem /\ job' = job /\ high' = high
      /\ epoch' = epoch /\ cookie' = cookie /\ spent' = spent /\ flying' = flying
      /\ uses' = uses /\ undone' = undone
  BY DEF Remove, ceremonies
<1>4. /\ note' \in [Rec -> Notes]
      /\ \A r \in Rec : /\ note'[r] # "live"
                        /\ note'[r] = "none" <=> note[r] = "none"
                        /\ note'[r] = "dead" <=> note[r] = "dead"
  BY <1>1 DEF Remove, TypeOK, Notes
<1>5. \A r \in Rec : Empty[r] = Absent
  BY DEF Empty
<1>6. JobsInv'
  BY <1>1, <1>2, <1>3, <1>4 DEF JobsInv, Passes
<1>7. (FreshInv /\ LiveInv)'
  BY <1>1, <1>2, <1>3, <1>4, <1>5 DEF FreshInv, LiveInv
<1>8. (DeadInv /\ CountInv /\ OneRecordPerKey)'
  BY <1>1, <1>2, <1>3, <1>4, <1>5, EmptyTable DEF DeadInv, CountInv, OneRecordPerKey, Astray, Deletes
<1>9. (ChallengeInv /\ TypeOK)'
  BY <1>1, <1>2, <1>3, <1>4 DEF PasskeyInv, ChallengeInv, TypeOK
<1>. QED  BY <1>6, <1>7, <1>8, <1>9 DEF PasskeyInv

(***************************************************************************)
(* Theorems                                                                *)
(***************************************************************************)
LEMMA StepKeeps == PasskeyInv /\ [Next]_vars => PasskeyInv'
<1>. SUFFICES ASSUME PasskeyInv, [Next]_vars PROVE PasskeyInv'
  OBVIOUS
<1>1. CASE UNCHANGED vars
  <2>1. UNCHANGED <<file, mem, job, histories>>
    BY <1>1 DEF vars, histories
  <2>2. RowsInv'
    BY <2>1, RowsStay
  <2>3. (ChallengeInv /\ TypeOK)'
    BY <1>1 DEF vars, PasskeyInv, ChallengeInv, TypeOK
  <2>. QED  BY <2>2, <2>3 DEF PasskeyInv, RowsInv
<1>2. CASE Next
  <2>1. ASSUME NEW c \in Challenge, NEW route \in Route, Issue(c, route) \/ Take(c, route)
        PROVE  PasskeyInv'
    BY <2>1, IssueKeeps, TakeKeeps
  <2>2. ASSUME NEW c \in Challenge, Refuse(c) PROVE PasskeyInv'
    BY <2>2, RefuseKeeps
  <2>3. ASSUME NEW c \in Challenge, NEW r \in Rec, NEW n \in Count, Add(c, r, n) \/ SignIn(c, r, n)
        PROVE  PasskeyInv'
    BY <2>3, AddKeeps, SignInKeeps
  <2>4. ASSUME NEW p \in Process, NEW r \in Rec, Delete(p, r) PROVE PasskeyInv'
    BY <2>4, ServiceDeleteKeeps, ToolDeleteKeeps
  <2>5. ASSUME NEW p \in Process, NEW o \in Outcome, Save(p, o) PROVE PasskeyInv'
    BY <2>5, SaveKeeps
  <2>6. CASE Read \/ Restart \/ Mangle \/ Remove
    BY <2>6, ReadKeeps, RestartKeeps, MangleKeeps, RemoveKeeps
  <2>. QED  BY <1>2, <2>1, <2>2, <2>3, <2>4, <2>5, <2>6 DEF Next
<1>. QED  BY <1>1, <1>2

\* Between any two steps of the two writers, of restarts and of a careless
\* editor: the file, its copy, what is about to be written and the challenges
\* agree as PasskeyInv says.
THEOREM PasskeyInvariant == Spec => []PasskeyInv
  BY InitInv, StepKeeps, PTL DEF Spec

LEMMA InvIsDeleted == PasskeyInv => DeletedStaysDeleted
<1>. SUFFICES ASSUME PasskeyInv, NEW r \in Rec, note[r] = "dead"
              PROVE  r \notin Rows(file.rows) \union Rows(Served)
  BY DEF DeletedStaysDeleted
<1>1. TypeOK /\ RowsInv
  BY DEF PasskeyInv, RowsInv
<1>2. file.rows[r] = Absent /\ job["service"].new[r] = Absent
  BY DEF PasskeyInv, DeadInv
<1>3. job["service"].op = "none" => Loaded.rows[r] = Absent
  BY <1>1, LoadedFacts
<1>. QED  BY <1>2, <1>3 DEF Served, Rows

\* A passkey whose deletion was answered is never served or stored again,
\* for any interleaving of failed saves, sign-ins, restarts and repairs.
THEOREM DeletedStaysDeletedAlways == Spec => []DeletedStaysDeleted
  BY PasskeyInvariant, InvIsDeleted, PTL

LEMMA InvIsSurviving == PasskeyInv => AnsweredSurvives
<1>. SUFFICES ASSUME PasskeyInv, NEW r \in Rec, note[r] = "live"
              PROVE  /\ r \in Rows(file.rows)
                     /\ \/ file.is = "bad"
                        \/ r \in Rows(Served)
                        \/ job["service"].op = "delete" /\ job["service"].rec = r
  BY DEF AnsweredSurvives
<1>1. TypeOK /\ RowsInv
  BY DEF PasskeyInv, RowsInv
<1>2. /\ file.rows[r] # Absent
      /\ job["service"].op # "none" =>
             job["service"].new[r] # Absent \/ Deletes("service", r)
  BY DEF PasskeyInv, LiveInv
<1>3. job["service"].op = "none" /\ file.is # "bad" => Loaded.rows[r] # Absent
  BY <1>1, LoadedFacts
<1>. QED  BY <1>2, <1>3 DEF Served, Rows, Deletes

\* A registration that was answered outlives whatever befalls other requests.
THEOREM AnsweredSurvivesAlways == Spec => []AnsweredSurvives
  BY PasskeyInvariant, InvIsSurviving, PTL

\* No challenge succeeds twice, however often the service restarts.
THEOREM OneTryPerChallengeAlways == Spec => []OneTryPerChallenge
<1>1. PasskeyInv => OneTryPerChallenge
  BY DEF PasskeyInv, ChallengeInv, OneTryPerChallenge
<1>. QED  BY <1>1, PasskeyInvariant, PTL

\* The limit of passkeys and one record per key and name, for any limit.
THEOREM OneRecordPerKeyAlways == Spec => []OneRecordPerKey
<1>1. PasskeyInv => OneRecordPerKey
  BY DEF PasskeyInv
<1>. QED  BY <1>1, PasskeyInvariant, PTL

\* A sign-in is let in only with a counter past every one let in before, or
\* with none, or for a record whose counter manage_auth.py's write put back and
\* which no sign-in has passed since: nothing else, no failed save, no restart
\* and no damaged file, lets an assertion or its copy in twice.
THEOREM CounterMovesForwardAlways == Spec => CounterMovesForward
<1>1. PasskeyInv /\ [Next]_vars =>
        [LET j == job["service"] IN
         j.op = "signin" /\ uses' # uses =>
            \/ Passes(j)
            \/ j.new[j.rec] = 0 /\ high[j.rec] = 0
            \/ j.rec \in undone]_vars
  BY DEF PasskeyInv, JobsInv
<1>. QED  BY <1>1, PasskeyInvariant, PTL DEF Spec, CounterMovesForward
=============================================================================
