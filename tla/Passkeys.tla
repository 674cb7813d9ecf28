------------------------------ MODULE Passkeys ------------------------------
(***************************************************************************)
(* Passkeys: passkeys.json, its two writers, and the ceremonies that       *)
(* register a passkey and sign in with one (passkeys.py, the /auth/passkey *)
(* routes of main.py, manage_auth.py).                                     *)
(*                                                                         *)
(* The service reads the file again whenever its bytes are not those it    *)
(* read last, edits what it read and replaces the file; its requests do    *)
(* so one at a time, under one lock.  manage_auth.py does the same in a    *)
(* process of its own that knows nothing of that lock.  An operator may    *)
(* mangle, mend or remove the file by hand.                                *)
(*                                                                         *)
(* A ceremony hands the browser a challenge in a signed cookie; the verify *)
(* route spends it, awaits the body, and only then asks the store.  That a *)
(* challenge runs out is here a step not taken (Tickets has the clock); so *)
(* is every check of the body that fails without a trace.                  *)
(***************************************************************************)
EXTENDS Integers, FiniteSets

CONSTANTS
    Rec,          \* ids of records ever made, one for each registration
    Cred,         \* credential ids, each with its own key
    CredOf, NameOf,   \* what each registration brings
    Known,        \* records in the file at the start
    NoRec,
    Challenge,    \* challenges ever issued
    NoChallenge,
    MaxPasskeys,
    MaxCount,     \* bound: sign counters stay below it
    MaxEpoch      \* bound: the service starts at most so often

Count == 0..MaxCount

ASSUME RecAssumption ==
    /\ IsFiniteSet(Rec) /\ NoRec \notin Rec
    /\ CredOf \in [Rec -> Cred] /\ DOMAIN NameOf = Rec
ASSUME KnownAssumption ==
    /\ Known \subseteq Rec /\ Cardinality(Known) <= MaxPasskeys
    /\ \A r, s \in Known : r # s => CredOf[r] # CredOf[s] /\ NameOf[r] # NameOf[s]
ASSUME ChallengeAssumption == NoChallenge \notin Challenge
ASSUME BoundAssumption ==
    MaxPasskeys \in Nat \ {0} /\ MaxCount \in Nat \ {0} /\ MaxEpoch \in Nat \ {0}

VARIABLES
    file,     \* passkeys.json: good, bad (unreadable) or gone; its rows
    mem,      \* the service's rows, and raw: the rows of the bytes they were
              \* read from, or nothing if the next access is to read anew
    job,      \* each process's write, from its load to its save
    epoch,    \* which run of the service this is
    cookie,   \* the ceremony and epoch signed into a challenge (0: unissued)
    spent,    \* challenges presented to this run of the service
    flying,   \* the verify route in which a challenge waits for its body
    note,     \* history: what became of a record
    high,     \* history: the highest sign counter let in
    undone,   \* history: records whose counter the tool's write put back below it
    uses      \* history: how often a challenge led to something

vars == <<file, mem, job, epoch, cookie, spent, flying, note, high, undone, uses>>

Process == {"service", "tool"}
Other(p) == IF p = "service" THEN "tool" ELSE "service"

\* A table gives each record in it its sign counter.
Absent == -1
Table == [Rec -> Count \union {Absent}]
Empty == [r \in Rec |-> Absent]
Rows(t) == {r \in Rec : t[r] # Absent}

NoJob == [op |-> "none", rec |-> NoRec, chal |-> NoChallenge, new |-> Empty]
Job == [op : {"none", "add", "delete", "signin"}, rec : Rec \union {NoRec},
        chal : Challenge \union {NoChallenge}, new : Table]
Route == {"create", "get"}
Notes == {"none", "live", "unsure", "dead"}

TypeOK ==
    /\ file \in [is : {"good", "bad", "gone"}, rows : Table]
    /\ mem \in [rows : Table, raw : SUBSET Table]
    /\ job \in [Process -> Job]
    /\ epoch \in 1..MaxEpoch
    /\ cookie \in [Challenge -> [for : Route, epoch : 0..MaxEpoch]]
    /\ spent \in SUBSET Challenge
    /\ flying \in [Challenge -> Route \union {"no"}]
    /\ note \in [Rec -> Notes]
    /\ high \in [Rec -> Count]
    /\ undone \in SUBSET Rec
    /\ uses \in [Challenge -> Nat]

Init ==
    /\ file = [is |-> "good", rows |-> [r \in Rec |-> IF r \in Known THEN 0 ELSE Absent]]
    /\ mem = [rows |-> Empty, raw |-> {}]
    /\ job = [p \in Process |-> NoJob]
    /\ epoch = 1
    /\ cookie = [c \in Challenge |-> [for |-> "get", epoch |-> 0]]
    /\ spent = {}
    /\ flying = [c \in Challenge |-> "no"]
    /\ note = [r \in Rec |-> IF r \in Known THEN "live" ELSE "none"]
    /\ high = [r \in Rec |-> 0]
    /\ undone = {}
    /\ uses = [c \in Challenge |-> 0]

(***************************************************************************)
(* Ceremonies                                                              *)
(***************************************************************************)
ceremonies == <<epoch, cookie, spent, flying>>
histories  == <<note, high, undone, uses>>

\* passkey_options: nothing is stored, the cookie carries everything.
Issue(c, route) ==
    /\ cookie[c].epoch = 0
    /\ cookie' = [cookie EXCEPT ![c] = [for |-> route, epoch |-> epoch]]
    /\ UNCHANGED <<file, mem, job, epoch, spent, flying, histories>>

\* Seeded fault: the cookie is not bound to this run of the service.
ReadsBackUnbound(c, route) == cookie[c].for = route /\ cookie[c].epoch # 0

\* read_challenge, with what passkey_bind binds the cookie to
ReadsBack(c, route) == cookie[c].for = route /\ cookie[c].epoch = epoch

\* take_challenge, in a verify route before its await
Take(c, route) ==
    /\ ReadsBack(c, route)
    /\ c \notin spent
    /\ spent' = spent \union {c}
    /\ flying' = [flying EXCEPT ![c] = route]
    /\ UNCHANGED <<file, mem, job, epoch, cookie, histories>>

\* The body, or what the store makes of it, is refused: 400 or 401.
Refuse(c) ==
    /\ flying[c] # "no"
    /\ flying' = [flying EXCEPT ![c] = "no"]
    /\ UNCHANGED <<file, mem, job, epoch, cookie, spent, histories>>

(***************************************************************************)
(* The store                                                               *)
(***************************************************************************)
\* Seeded fault: what was read once is kept until this process writes.
LoadedOnce ==
    IF file.is # "good" THEN [rows |-> Empty, raw |-> {}]
    ELSE IF mem.raw # {} THEN mem
    ELSE [rows |-> file.rows, raw |-> {file.rows}]

\* _load_locked.  A file that is there and cannot be parsed reads as empty.
Loaded ==
    IF file.is # "good" THEN [rows |-> Empty, raw |-> {}]
    ELSE IF mem.raw = {file.rows} THEN mem
    ELSE [rows |-> file.rows, raw |-> {file.rows}]

\* Seeded fault: like KeyStore, a damaged file is an empty one to writers too.
WritableAnyway(p) == job[p].op = "none"

\* The store's lock is free and the file is not damaged, else StoreError.
Writable(p) == job[p].op = "none" /\ file.is # "bad"

\* The process has edited the rows it loaded and is about to save them.
Begin(p, op, r, c, new) ==
    /\ job' = [job EXCEPT ![p] = [op |-> op, rec |-> r, chal |-> c, new |-> new]]
    /\ mem' = IF p = "service" THEN [rows |-> new, raw |-> Loaded.raw] ELSE mem

\* The body is one that parse_registration or parse_assertion accepts.
Registered(c) == flying[c] = "create"
Asserted(c)   == flying[c] = "get"

\* Seeded fault: the limit is compared one too late.
HasRoomLate(t) == Cardinality(Rows(t)) <= MaxPasskeys

HasRoom(t) == Cardinality(Rows(t)) < MaxPasskeys

\* PasskeyStore.add
Add(c, r, n) ==
    /\ Registered(c)
    /\ Writable("service")
    /\ note[r] = "none"
    /\ HasRoom(Loaded.rows)
    /\ \A s \in Rows(Loaded.rows) : CredOf[s] # CredOf[r] /\ NameOf[s] # NameOf[r]
    /\ Begin("service", "add", r, c, [Loaded.rows EXCEPT ![r] = n])
    /\ flying' = [flying EXCEPT ![c] = "no"]
    /\ UNCHANGED <<file, epoch, cookie, spent, histories>>

\* Seeded fault: a counter that has not moved is taken for a retry.
CountsUpOrStays(stored, n) == n >= stored

\* Both zero: an authenticator that keeps no counter.
CountsUp(stored, n) == (stored = 0 /\ n = 0) \/ n > stored

\* PasskeyStore.sign_in, for an assertion that carries a good signature
SignIn(c, r, n) ==
    /\ Asserted(c)
    /\ job["service"].op = "none"
    /\ r \in Rows(Loaded.rows)
    /\ CountsUp(Loaded.rows[r], n)
    /\ Begin("service", "signin", r, c, [Loaded.rows EXCEPT ![r] = n])
    /\ flying' = [flying EXCEPT ![c] = "no"]
    /\ UNCHANGED <<file, epoch, cookie, spent, histories>>

\* PasskeyStore.delete: the route, or manage_auth.py with a store of its own
Delete(p, r) ==
    LET rows == IF p = "service" THEN Loaded.rows
                ELSE IF file.is = "good" THEN file.rows ELSE Empty
    IN  /\ Writable(p)
        /\ r \in Rows(rows)
        /\ Begin(p, "delete", r, NoChallenge, [rows EXCEPT ![r] = Absent])
        /\ UNCHANGED <<file, ceremonies, histories>>

(***************************************************************************)
(* _save_locked.  "answered": the file is replaced.  "unanswered": it is   *)
(* replaced, then chmod fails.  "unsaved": writing or replacing fails.     *)
(* "untried": there is no temporary file to write to, and the rows in      *)
(* memory, edited already, still pass for the file's.  All but the first   *)
(* are a StoreError: 503.                                                  *)
(***************************************************************************)
Outcome == {"answered", "unanswered", "unsaved", "untried"}

\* Seeded fault: the error is swallowed.
ToldRegardless(p, o, good) == IF job[Other(p)].op = "none" THEN good ELSE "unsure"

\* What the asker may believe, if no other process was writing.
Told(p, o, good) ==
    IF o = "answered" /\ job[Other(p)].op = "none" THEN good ELSE "unsure"

\* A session is opened, or a registration confirmed.
LetsIn(j, o) == j.op # "delete" /\ o = "answered"

Replaces(o) == o \in {"answered", "unanswered"}

\* A sign-in with a counter past all those let in; counters below one let in
Passes(j)  == j.new[j.rec] > high[j.rec]
PutBack(t) == {r \in Rows(t) : t[r] < high[r]}

Save(p, o) ==
    LET j == job[p] IN
    /\ j.op # "none"
    /\ job' = [job EXCEPT ![p] = NoJob]
    /\ file' = IF Replaces(o)
               THEN [is |-> "good", rows |-> j.new] ELSE file
    /\ mem' = IF p = "service" /\ o # "untried" THEN [mem EXCEPT !.raw = {}] ELSE mem
    /\ note' = CASE j.op = "add"    -> [note EXCEPT ![j.rec] = Told(p, o, "live")]
                 [] j.op = "delete" -> [note EXCEPT ![j.rec] = Told(p, o, "dead")]
                 [] OTHER           -> note
    /\ high' = IF j.op = "signin" /\ LetsIn(j, o) /\ Passes(j)
               THEN [high EXCEPT ![j.rec] = j.new[j.rec]] ELSE high
    /\ undone' = CASE p = "tool" /\ Replaces(o) -> undone \union PutBack(j.new)
                   [] j.op = "signin" /\ LetsIn(j, o) /\ Passes(j) -> undone \ {j.rec}
                   [] OTHER -> undone
    /\ uses' = IF LetsIn(j, o) THEN [uses EXCEPT ![j.chal] = @ + 1] ELSE uses
    /\ UNCHANGED ceremonies

\* Listings, excludeCredentials and refused requests only load.
Read ==
    /\ job["service"].op = "none"
    /\ mem' = Loaded
    /\ UNCHANGED <<file, job, ceremonies, histories>>

\* The service dies anywhere and starts again: memory, the list of spent
\* challenges and the requests are gone, the epoch is new.
Restart ==
    /\ epoch < MaxEpoch
    /\ epoch' = epoch + 1
    /\ spent' = {}
    /\ flying' = [c \in Challenge |-> "no"]
    /\ mem' = [rows |-> Empty, raw |-> {}]
    /\ job' = [job EXCEPT !["service"] = NoJob]
    /\ UNCHANGED <<file, cookie, histories>>

\* An editor leaves the file unreadable, or puts it right again.
Mangle ==
    /\ file.is # "gone"
    /\ file' = [file EXCEPT !.is = IF @ = "bad" THEN "good" ELSE "bad"]
    /\ UNCHANGED <<mem, job, ceremonies, histories>>

\* "fix or remove it": the operator gives up on what was registered.
Remove ==
    /\ file.is = "bad"
    /\ file' = [is |-> "gone", rows |-> Empty]
    /\ note' = [r \in Rec |-> IF note[r] = "live" THEN "unsure" ELSE note[r]]
    /\ UNCHANGED <<mem, job, ceremonies, high, undone, uses>>

Next ==
    \/ \E c \in Challenge, route \in Route : Issue(c, route) \/ Take(c, route)
    \/ \E c \in Challenge : Refuse(c)
    \/ \E c \in Challenge, r \in Rec, n \in Count : Add(c, r, n) \/ SignIn(c, r, n)
    \/ \E p \in Process, r \in Rec : Delete(p, r)
    \/ \E p \in Process, o \in Outcome : Save(p, o)
    \/ Read \/ Restart \/ Mangle \/ Remove

Spec == Init /\ [][Next]_vars

(***************************************************************************)
(* Properties                                                              *)
(***************************************************************************)
\* The rows the service would act on, and the file's.
Served == IF job["service"].op = "none" THEN Loaded.rows ELSE job["service"].new

\* A deletion answered while no other process was writing is final: no failed
\* save, late sign-in, restart or repair of the file brings the passkey back.
DeletedStaysDeleted ==
    \A r \in Rec : note[r] = "dead" => r \notin Rows(file.rows) \union Rows(Served)

\* A passkey whose registration was answered stays registered, whatever
\* becomes of other requests, until its own deletion is asked for; the file
\* may be unreadable meanwhile, but no writer makes it forget the rows.  Excepted
\* is a registration answered while manage_auth.py was writing, which may lose it.
AnsweredSurvives ==
    \A r \in Rec : note[r] = "live" =>
        /\ r \in Rows(file.rows)
        /\ \/ file.is = "bad"
           \/ r \in Rows(Served)
           \/ job["service"].op = "delete" /\ job["service"].rec = r

\* A challenge is one try: it opens at most one session or registers at most
\* one passkey, over all restarts.
OneTryPerChallenge == \A c \in Challenge : uses[c] <= 1

\* No assertion and no copy of it is let in twice: a sign-in that is let in has a
\* counter past every one let in before, unless the authenticator keeps none, over
\* failed saves, restarts and a file mangled and mended.  One thing undoes it:
\* manage_auth.py, having read the file before a sign-in was let in, writes the
\* older counter back; until a sign-in passes the highest again, the record is
\* among those undone, and whoever has an assertion in between may use it again.
CounterMovesForward ==
    [][LET j == job["service"] IN
       j.op = "signin" /\ uses' # uses =>
           \/ Passes(j)
           \/ j.new[j.rec] = 0 /\ high[j.rec] = 0
           \/ j.rec \in undone]_vars

Proper(t) ==
    /\ Cardinality(Rows(t)) <= MaxPasskeys
    /\ \A r, s \in Rows(t) : r # s => CredOf[r] # CredOf[s] /\ NameOf[r] # NameOf[s]

\* The limit, and one record per key and name: in the file, in memory and in
\* what either process is about to write.
OneRecordPerKey ==
    /\ Proper(file.rows) /\ Proper(mem.rows)
    /\ \A p \in Process : Proper(job[p].new)

(***************************************************************************)
(* The inductive invariant: what the file, the service's copy of it, the   *)
(* two writes under way and the spent challenges have to do with each      *)
(* other.                                                                  *)
(***************************************************************************)
\* A record the service holds although the file it read did not: a failed add.
Astray(r) == \E t \in mem.raw : t[r] = Absent /\ mem.rows[r] # Absent

Deletes(p, r) == job[p].op = "delete" /\ job[p].rec = r

JobsInv ==
    /\ job["tool"].op \in {"none", "delete"}
    /\ job["service"].op # "none" => mem.rows = job["service"].new
    /\ \A p \in Process :
        LET j == job[p] IN
        /\ j.op = "none" => j = NoJob
        /\ j.op # "none" => j.rec \in Rec
        /\ j.op = "delete" => note[j.rec] # "none" /\ j.new[j.rec] = Absent
        /\ j.op = "signin" => /\ note[j.rec] # "none"
                             /\ \/ Passes(j)
                                \/ j.new[j.rec] = 0 /\ high[j.rec] = 0
                                \/ j.rec \in undone
        /\ j.op = "add" => note[j.rec] = "none" /\ j.new[j.rec] # Absent
        /\ j.op \in {"add", "signin"} <=> j.chal # NoChallenge
    /\ file.is = "gone" => file.rows = Empty

FreshInv ==
    \A r \in Rec : note[r] = "none" =>
        /\ high[r] = 0 /\ r \notin undone
        /\ file.rows[r] = Absent /\ job["tool"].new[r] = Absent
        /\ \A t \in mem.raw : t[r] = Absent
        /\ \/ job["service"].op = "add" /\ job["service"].rec = r
           \/ mem.rows[r] = Absent

LiveInv ==
    \A r \in Rec : note[r] = "live" =>
        /\ file.rows[r] # Absent
        /\ \A p \in Process : job[p].op # "none" => job[p].new[r] # Absent \/ Deletes(p, r)
        /\ \A t \in mem.raw :
            t[r] # Absent => mem.rows[r] # Absent \/ Deletes("service", r)

DeadInv ==
    \A r \in Rec :
        /\ note[r] = "dead" => /\ file.rows[r] = Absent
                               /\ \A p \in Process : job[p].new[r] = Absent
                               /\ ~Astray(r)
        /\ Astray(r) => /\ file.rows[r] = Absent /\ job["tool"].new[r] = Absent
                         /\ ~Deletes("tool", r)

CountInv ==
    \A r \in Rec \ undone :
        /\ file.rows[r] # Absent => high[r] <= file.rows[r]
        /\ job["service"].new[r] # Absent => high[r] <= job["service"].new[r]
        /\ mem.raw # {} /\ mem.rows[r] # Absent => high[r] <= mem.rows[r]

ChallengeInv ==
    \A c \in Challenge :
        /\ cookie[c].epoch <= epoch
        /\ uses[c] <= 1
        /\ uses[c] = 1 => cookie[c].epoch # 0 /\ (cookie[c].epoch = epoch => c \in spent)
        /\ flying[c] # "no" \/ c = job["service"].chal =>
               uses[c] = 0 /\ cookie[c].epoch = epoch /\ c \in spent
        /\ flying[c] # "no" => c # job["service"].chal
        /\ c # job["tool"].chal

PasskeyInv ==
    /\ TypeOK /\ JobsInv /\ FreshInv /\ LiveInv /\ DeadInv /\ CountInv /\ ChallengeInv
    /\ OneRecordPerKey
=============================================================================
