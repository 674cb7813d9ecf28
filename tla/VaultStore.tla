----------------------------- MODULE VaultStore ------------------------------
(***************************************************************************)
(* The write path of one vault: PUT and DELETE on /memory and /docs        *)
(* (main.py), the READONLY fence (replflag.py), the git repository every   *)
(* write commits to, and the owner's protocol sync                         *)
(* (replication/memprotocol-sync), the one other process that writes the   *)
(* same working tree.                                                      *)
(*                                                                         *)
(* A request passes the middleware, awaits its body, queues for the write  *)
(* lock, and then runs in a worker thread: check, rewrite the file in      *)
(* place, git add -A, git commit, answer.  Another request, a flag change, *)
(* a revoked pass, the sync or a crash may come between any two steps.     *)
(***************************************************************************)
EXTENDS Naturals, Sequences, FiniteSets

CONSTANTS
    Client,      \* concurrent request slots
    PassClient,  \* those that authenticate with a container pass (passes.py)
    Name,        \* file names under DATA_DIR
    Doc,         \* those under docs/, the only ones a pass reaches
    Managed,     \* READONLY_CATEGORIES: written by memprotocol-sync alone
    SyncTmp,     \* "<managed>.md.sync.tmp", its temporary file
    Roster,      \* the protocol-roster category
    NeedsRoster, \* categories the roster gate applies to
    Content,     \* byte strings, one element per git blob id
    Empty,       \* the empty byte string
    Absent,      \* "the file does not exist"
    Refused,     \* "this edit does not apply": a 400 or 404
    NoClient,    \* "nobody holds the write lock"
    AnyTag,      \* "*" in If-Match
    Edit,        \* what requests ask to do: [kind, text] records
    Match,       \* the conditional headers requests carry
    Normalise,   \* normalise_body: LF-only valid UTF-8, or Refused
    Splice,      \* section_put_text on an existing file
    Cut,         \* section_delete_text on an existing file
    Lists,       \* the categories a roster text lists
    SyncTries    \* how often memprotocol-sync tries to commit

Stored == Content \union {Absent}
Kind   == {"put", "section", "delete", "cut"}
EditShape  == [kind : Kind, text : Content]
MatchShape == [tags : SUBSET (Content \union {AnyTag}), create : BOOLEAN]
Served == Name \ (Managed \union {SyncTmp})   \* what client requests reach

ASSUME ClientAssumption ==
    /\ PassClient \subseteq Client
    /\ NoClient \notin Client
ASSUME NameAssumption ==
    /\ Doc \subseteq Name /\ Managed \subseteq Name \ Doc
    /\ NeedsRoster \subseteq Name \ (Doc \union Managed)
    /\ Roster \in Name \ Managed
    /\ SyncTmp \in Name \ (Managed \union Doc \union NeedsRoster \union {Roster})
ASSUME ContentAssumption ==
    /\ Empty \in Content
    /\ Absent \notin Content /\ Refused \notin Content \union {Absent}
    /\ AnyTag \notin Content
ASSUME EditAssumption ==
    /\ Edit \subseteq EditShape
    /\ Match \subseteq MatchShape
    /\ Normalise \in [Content -> Content \union {Refused}]
    /\ Splice \in [Content \X Content -> Content \union {Refused}]
    /\ Cut \in [Content \X Content -> Content \union {Refused}]
    /\ Lists \in [Content -> SUBSET Name]
ASSUME SyncAssumption == SyncTries \in Nat \ {0}

VARIABLES
    file,      \* the working tree
    index,     \* what git has staged
    head,      \* the tree of the HEAD commit
    gitLock,   \* .git/index.lock left behind by a killed git, and its age
    readonly,  \* the READONLY flag file exists
    up,        \* the server process is running
    pc,        \* pc[c]: how far client c's request has come
    req,       \* req[c]: the request
    queue,     \* waiters of _write_lock, first come first served
    writer,    \* its holder
    job,       \* the holder's locals: new content, ETag to answer, committed
    revoked,   \* passes that are no longer alive
    sync,      \* the protocol sync
    warned,    \* history: names whose missing commit somebody was told of
    landed,    \* history: writes that reached the disk since READONLY was set
    cutoff     \* history: requests whose pass died before their check

store  == <<file, index, head, gitLock>>
server == <<pc, req, queue, writer, job>>
ghosts == <<warned, landed, cutoff>>
vars   == <<store, server, readonly, up, revoked, sync, ghosts>>

Request == [name : Served, edit : EditShape, match : MatchShape]
NoReq   == [name |-> Absent]
NoJob   == [new |-> Absent, tag |-> Absent, logged |-> FALSE]
NoSync  == [pc |-> "idle", name |-> SyncTmp, want |-> Empty, was |-> Absent,
            tries |-> 0]

Holding == {"check", "write", "fill", "add", "commit", "respond"}
OnDisk  == {"fill", "add", "commit", "respond"}   \* its file has been touched

TypeOK ==
    /\ file \in [Name -> Stored]
    /\ index \in [Name -> Stored]
    /\ head \in [Name -> Stored]
    /\ gitLock \in {"free", "fresh", "old"}
    /\ readonly \in BOOLEAN
    /\ up \in BOOLEAN
    /\ pc \in [Client -> {"idle", "body", "queued"} \union Holding]
    /\ req \in [Client -> Request \union {NoReq}]
    /\ queue \in Seq(Client)
    /\ writer \in Client \union {NoClient}
    /\ job \in [new : Stored, tag : Stored, logged : BOOLEAN]
    /\ revoked \subseteq PassClient
    /\ sync \in [pc : {"idle", "tmp", "move", "commit"}, name : Name,
                 want : Content, was : Stored, tries : 0..SyncTries]
    /\ warned \subseteq Name
    /\ landed \in Nat
    /\ cutoff \subseteq PassClient

Init ==
    /\ file \in {t \in [Name -> Stored] : t[SyncTmp] = Absent}
    /\ index = file
    /\ head = file
    /\ gitLock = "free"
    /\ readonly = FALSE
    /\ up = TRUE
    /\ pc = [c \in Client |-> "idle"]
    /\ req = [c \in Client |-> NoReq]
    /\ queue = <<>>
    /\ writer = NoClient
    /\ job = NoJob
    /\ revoked = {}
    /\ sync = NoSync
    /\ warned = {}
    /\ landed = 0
    /\ cutoff = {}

(***************************************************************************)
(* The checks, as functions of what they read.                             *)
(***************************************************************************)

\* require_precondition: a file that exists wants its own ETag (or *), one
\* that does not wants If-None-Match: *.
Accepts(found, m) ==
    IF found = Absent THEN m.create
    ELSE /\ ~m.create
         /\ m.tags \intersect {found, AnyTag} # {}

\* require_rostered: no roster to check against means no gate.
RosterAllows(n) ==
    (n \in NeedsRoster /\ file[Roster] # Absent) => n \in Lists[file[Roster]]

\* What the file holds after edit e of what was found, or Refused.
Outcome(e, found) ==
    IF e.kind = "put" THEN Normalise[e.text]
    ELSE IF found = Absent THEN Refused
    ELSE IF e.kind = "section" THEN Splice[e.text, found]
    ELSE IF e.kind = "cut" THEN Cut[e.text, found]
    ELSE Absent

\* Fault: the ETag of the bytes that arrived, not of those stored.
TagOfArrival(e, found) == e.text

\* The ETag header of a 200: the blob id of the bytes stored.
Tag(e, found) == Outcome(e, found)

\* What a request is allowed to reach with the credential it carries.
Permitted(c, r) ==
    c \in PassClient =>
       /\ c \notin revoked
       /\ r.name \in Doc
       /\ r.edit.kind \in {"put", "section"}

(***************************************************************************)
(* A request.                                                              *)
(***************************************************************************)

\* The middleware lets it in (READONLY refuses here with 503), credential,
\* name and READONLY_CATEGORIES are checked; the handler awaits the body.
\* The flag can always be read here.  In the code a READONLY that is there and
\* cannot be read refuses nothing (replflag.py 28-31).
Arrive(c, r) ==
    /\ up /\ pc[c] = "idle"
    /\ ~readonly
    /\ Permitted(c, r)
    /\ pc' = [pc EXCEPT ![c] = "body"]
    /\ req' = [req EXCEPT ![c] = r]
    /\ UNCHANGED <<store, queue, writer, job, readonly, up, revoked, sync, ghosts>>

\* Fault: the newest waiter gets the lock first.
BodyInLifo(c) ==
    /\ up /\ pc[c] = "body"
    /\ pc' = [pc EXCEPT ![c] = "queued"]
    /\ queue' = <<c>> \o queue
    /\ UNCHANGED <<store, req, writer, job, readonly, up, revoked, sync, ghosts>>

\* The body is in (a DELETE awaits none); the handler waits for _write_lock.
BodyIn(c) ==
    /\ up /\ pc[c] = "body"
    /\ pc' = [pc EXCEPT ![c] = "queued"]
    /\ queue' = Append(queue, c)
    /\ UNCHANGED <<store, req, writer, job, readonly, up, revoked, sync, ghosts>>

\* Fault: no write lock.
AcquireUnlocked(c) ==
    /\ up
    /\ queue # <<>> /\ Head(queue) = c
    /\ queue' = Tail(queue)
    /\ writer' = c
    /\ pc' = [pc EXCEPT ![c] = "check"]
    /\ UNCHANGED <<store, req, job, readonly, up, revoked, sync, ghosts>>

Acquire(c) ==
    /\ up /\ writer = NoClient
    /\ queue # <<>> /\ Head(queue) = c
    /\ queue' = Tail(queue)
    /\ writer' = c
    /\ pc' = [pc EXCEPT ![c] = "check"]
    /\ UNCHANGED <<store, req, job, readonly, up, revoked, sync, ghosts>>

\* Faults: one of the re-checks under the lock is left to the code that ran
\* before the body was awaited.
ClearUnconditional(c) ==
    LET r == req[c] IN
    /\ c \notin revoked /\ ~readonly
    /\ file[r.name] = Absent => RosterAllows(r.name)
    /\ Outcome(r.edit, file[r.name]) # Refused

ClearUnfenced(c) ==
    LET r == req[c] IN
    /\ c \notin revoked
    /\ Accepts(file[r.name], r.match)
    /\ file[r.name] = Absent => RosterAllows(r.name)
    /\ Outcome(r.edit, file[r.name]) # Refused

ClearUnrostered(c) ==
    LET r == req[c] IN
    /\ c \notin revoked /\ ~readonly
    /\ Accepts(file[r.name], r.match)
    /\ Outcome(r.edit, file[r.name]) # Refused

ClearDeadPass(c) ==
    LET r == req[c] IN
    /\ ~readonly
    /\ Accepts(file[r.name], r.match)
    /\ file[r.name] = Absent => RosterAllows(r.name)
    /\ Outcome(r.edit, file[r.name]) # Refused

\* Everything the worker thread re-checks before it touches the disk.
Clear(c) ==
    LET r == req[c] IN
    /\ c \notin revoked
    /\ ~readonly
    /\ Accepts(file[r.name], r.match)
    /\ file[r.name] = Absent => RosterAllows(r.name)
    /\ Outcome(r.edit, file[r.name]) # Refused

CheckPasses(c) ==
    /\ up /\ writer = c /\ pc[c] = "check"
    /\ Clear(c)
    /\ LET r == req[c] IN
         job' = [new |-> Outcome(r.edit, file[r.name]),
                 tag |-> Tag(r.edit, file[r.name]), logged |-> FALSE]
    /\ pc' = [pc EXCEPT ![c] = "write"]
    /\ UNCHANGED <<store, req, queue, writer, readonly, up, revoked, sync, ghosts>>

\* The request is over: the answer is sent and the lock released.
Release(c) ==
    /\ pc' = [pc EXCEPT ![c] = "idle"]
    /\ req' = [req EXCEPT ![c] = NoReq]
    /\ writer' = NoClient
    /\ job' = NoJob
    /\ cutoff' = cutoff \ {c}
    /\ UNCHANGED queue

\* 400, 401, 404, 409, 412, 422, 428 or 503: nothing was written.
CheckRefuses(c) ==
    /\ up /\ writer = c /\ pc[c] = "check"
    /\ ~Clear(c)
    /\ Release(c)
    /\ UNCHANGED <<store, readonly, up, revoked, sync, warned, landed>>

\* A write that reaches the disk counts against a READONLY already set.
Land == landed' = IF readonly THEN landed + 1 ELSE landed

\* write_bytes opens the file for writing, which empties it ...
Truncate(c) ==
    /\ up /\ writer = c /\ pc[c] = "write"
    /\ job.new # Absent
    /\ file' = [file EXCEPT ![req[c].name] = Empty]
    /\ pc' = [pc EXCEPT ![c] = "fill"]
    /\ Land
    /\ UNCHANGED <<index, head, gitLock, req, queue, writer, job, readonly, up,
                   revoked, sync, warned, cutoff>>

\* ... and then writes the bytes ...
Fill(c) ==
    /\ up /\ writer = c /\ pc[c] = "fill"
    /\ file' = [file EXCEPT ![req[c].name] = job.new]
    /\ pc' = [pc EXCEPT ![c] = "add"]
    /\ UNCHANGED <<index, head, gitLock, req, queue, writer, job, readonly, up,
                   revoked, sync, ghosts>>

\* ... unless the file system refuses them (no space left): a 500.
FillFails(c) ==
    /\ up /\ writer = c /\ pc[c] = "fill"
    /\ warned' = warned \union {req[c].name}
    /\ Release(c)
    /\ UNCHANGED <<store, readonly, up, revoked, sync, landed>>

Unlink(c) ==
    /\ up /\ writer = c /\ pc[c] = "write"
    /\ job.new = Absent
    /\ file' = [file EXCEPT ![req[c].name] = Absent]
    /\ pc' = [pc EXCEPT ![c] = "add"]
    /\ Land
    /\ UNCHANGED <<index, head, gitLock, req, queue, writer, job, readonly, up,
                   revoked, sync, warned, cutoff>>

\* git add -A stages the whole tree, whoever changed it.
GitAdd(c) ==
    /\ up /\ writer = c /\ pc[c] = "add"
    /\ gitLock = "free"
    /\ index' = file
    /\ pc' = [pc EXCEPT ![c] = "commit"]
    /\ UNCHANGED <<file, head, gitLock, req, queue, writer, job, readonly, up,
                   revoked, sync, ghosts>>

\* A git that was killed (its 30 s timeout, memory) may leave index.lock.
LockLeft == gitLock' \in {gitLock, IF gitLock = "free" THEN "fresh" ELSE gitLock}

\* git_commit never raises: it reports False and the request goes on.
AddFails(c) ==
    /\ up /\ writer = c /\ pc[c] = "add"
    /\ LockLeft
    /\ pc' = [pc EXCEPT ![c] = "respond"]
    /\ UNCHANGED <<file, index, head, req, queue, writer, job, readonly, up,
                   revoked, sync, ghosts>>

\* The names a commit of tree t leaves different from the working tree.
Behind(t) == {n \in Name : t[n] # file[n]}

\* git commit records what is staged ("nothing to commit" is not a failure).
GitCommit(c) ==
    /\ up /\ writer = c /\ pc[c] = "commit"
    /\ gitLock = "free"
    /\ head' = index
    /\ job' = [job EXCEPT !.logged = TRUE]
    /\ warned' = warned \intersect Behind(index)
    /\ pc' = [pc EXCEPT ![c] = "respond"]
    /\ UNCHANGED <<file, index, gitLock, req, queue, writer, readonly, up,
                   revoked, sync, landed, cutoff>>

\* The commit fails, or is killed before or after HEAD has moved.
CommitFails(c) ==
    /\ up /\ writer = c /\ pc[c] = "commit"
    /\ head' \in {head, IF gitLock = "free" THEN index ELSE head}
    /\ LockLeft
    /\ pc' = [pc EXCEPT ![c] = "respond"]
    /\ UNCHANGED <<file, index, req, queue, writer, job, readonly, up,
                   revoked, sync, ghosts>>

\* Fault: git_commit's verdict is not passed on.
RespondRegardless(c) ==
    /\ up /\ writer = c /\ pc[c] = "respond"
    /\ Release(c)
    /\ UNCHANGED <<store, readonly, up, revoked, sync, warned, landed>>

\* 200 with the new ETag; X-Memory-Commit: failed if nothing was committed.
Respond(c) ==
    /\ up /\ writer = c /\ pc[c] = "respond"
    /\ warned' = IF job.logged THEN warned ELSE warned \union {req[c].name}
    /\ Release(c)
    /\ UNCHANGED <<store, readonly, up, revoked, sync, landed>>

(***************************************************************************)
(* The surroundings: flags, passes, crashes.                               *)
(***************************************************************************)

SetReadonly ==
    /\ ~readonly
    /\ readonly' = TRUE
    /\ landed' = 0
    /\ UNCHANGED <<store, server, up, revoked, sync, warned, cutoff>>

ClearReadonly ==
    /\ readonly
    /\ readonly' = FALSE
    /\ landed' = 0
    /\ UNCHANGED <<store, server, up, revoked, sync, warned, cutoff>>

\* A pass is revoked, or its time runs out.
RevokePass(c) ==
    /\ up /\ c \in PassClient \ revoked
    /\ revoked' = revoked \union {c}
    /\ cutoff' = IF pc[c] \in {"body", "queued", "check"}
                 THEN cutoff \union {c} ELSE cutoff
    /\ UNCHANGED <<store, server, readonly, up, sync, warned, landed>>

\* A new pass for a client that has no request open.
IssuePass(c) ==
    /\ up /\ c \in revoked /\ pc[c] = "idle"
    /\ revoked' = revoked \ {c}
    /\ UNCHANGED <<store, server, readonly, up, sync, ghosts>>

\* Every connection is lost.  The clients know that their write is unknown;
\* passes live in memory.  A git that dies in the act may leave its lock, and
\* may have moved HEAD.
Crash ==
    /\ up
    /\ up' = FALSE
    /\ pc' = [c \in Client |-> "idle"]
    /\ req' = [c \in Client |-> NoReq]
    /\ queue' = <<>>
    /\ writer' = NoClient
    /\ job' = NoJob
    /\ revoked' = PassClient
    /\ cutoff' = {}
    /\ warned' = warned \union
          {req[c].name : c \in {d \in Client : pc[d] \in OnDisk}}
    /\ IF \E c \in Client : pc[c] \in {"add", "commit"}
       THEN LockLeft ELSE UNCHANGED gitLock
    /\ IF \E c \in Client : pc[c] = "commit"
       THEN head' \in {head, IF gitLock = "free" THEN index ELSE head}
       ELSE UNCHANGED head
    /\ UNCHANGED <<file, index, readonly, sync, landed>>

\* clear_stale_index_lock runs as the process starts: a lock older than 60 s
\* that no git is using is removed.
Start ==
    /\ ~up
    /\ up' = TRUE
    /\ gitLock' = IF gitLock = "old" THEN "free" ELSE gitLock
    /\ UNCHANGED <<file, index, head, server, readonly, revoked, sync, ghosts>>

Age == /\ gitLock = "fresh"
       /\ gitLock' = "old"
       /\ UNCHANGED <<file, index, head, server, readonly, up, revoked, sync, ghosts>>

(***************************************************************************)
(* memprotocol-sync, a process of its own.                                 *)
(***************************************************************************)

\* It renders v and compares with the committed and the stored file.
SyncStart(n, v) ==
    /\ sync.pc = "idle"
    /\ ~(head[n] = v /\ file[n] = v)
    /\ sync' = [pc |-> "tmp", name |-> n, want |-> v, was |-> head[n], tries |-> 0]
    /\ UNCHANGED <<store, server, readonly, up, revoked, ghosts>>

\* tee into a temporary file beside the target.
SyncWrite ==
    /\ sync.pc = "tmp"
    /\ file' = [file EXCEPT ![SyncTmp] = sync.want]
    /\ sync' = [sync EXCEPT !.pc = "move"]
    /\ UNCHANGED <<index, head, gitLock, server, readonly, up, revoked, ghosts>>

\* mv -f over the target; "restored to HEAD" if what was committed is right.
SyncMove ==
    /\ sync.pc = "move"
    /\ file' = [file EXCEPT ![sync.name] = sync.want, ![SyncTmp] = Absent]
    /\ sync' = IF sync.was = sync.want THEN NoSync ELSE [sync EXCEPT !.pc = "commit"]
    /\ UNCHANGED <<index, head, gitLock, server, readonly, up, revoked, ghosts>>

\* git add, then git commit of that one path.
SyncCommit ==
    /\ sync.pc = "commit"
    /\ gitLock = "free"
    /\ head' = [head EXCEPT ![sync.name] = sync.want]
    /\ index' = [index EXCEPT ![sync.name] = sync.want]
    /\ warned' = warned \ {sync.name}
    /\ sync' = NoSync
    /\ UNCHANGED <<file, gitLock, server, readonly, up, revoked, landed, cutoff>>

\* Fault: it tries again without counting.
SyncRetriesForever ==
    /\ sync.pc = "commit"
    /\ UNCHANGED vars

\* Another git holds index.lock (or it is stale): an app commit may have taken
\* the file, else it tries again, and after the last try notifies the owner.
SyncCommitFails ==
    /\ sync.pc = "commit"
    /\ index' \in {index, IF gitLock = "free"
                          THEN [index EXCEPT ![sync.name] = sync.want] ELSE index}
    /\ \/ /\ head[sync.name] = sync.want
          /\ sync' = NoSync
          /\ UNCHANGED warned
       \/ /\ head[sync.name] # sync.want /\ sync.tries + 1 < SyncTries
          /\ sync' = [sync EXCEPT !.tries = @ + 1]
          /\ UNCHANGED warned
       \/ /\ head[sync.name] # sync.want /\ sync.tries + 1 = SyncTries
          /\ sync' = NoSync
          /\ warned' = warned \union {sync.name}
    /\ UNCHANGED <<file, head, gitLock, server, readonly, up, revoked, landed, cutoff>>

-----------------------------------------------------------------------------

\* The steps of the event loop and the worker thread once c's body is in.
Run(c) ==
    \/ Acquire(c) \/ CheckPasses(c) \/ CheckRefuses(c)
    \/ Truncate(c) \/ Fill(c) \/ FillFails(c) \/ Unlink(c)
    \/ GitAdd(c) \/ AddFails(c) \/ GitCommit(c) \/ CommitFails(c) \/ Respond(c)

Serve(c) == BodyIn(c) \/ Run(c)

SyncStep == SyncWrite \/ SyncMove \/ SyncCommit \/ SyncCommitFails

Next ==
    \/ \E c \in Client :
          \/ \E n \in Served, e \in Edit, m \in Match :
                Arrive(c, [name |-> n, edit |-> e, match |-> m])
          \/ Serve(c)
    \/ \E c \in PassClient : RevokePass(c) \/ IssuePass(c)
    \/ SetReadonly \/ ClearReadonly
    \/ Crash \/ Start \/ Age
    \/ \E n \in Managed, v \in Content : SyncStart(n, v)
    \/ SyncStep

Spec == Init /\ [][Next]_vars

\* The server keeps running what it started (git and the thread pool return: git
\* has a 30 s timeout), systemd restarts a dead process, and the sync script runs
\* to its end.  Nothing obliges a client to finish an upload, an operator to act
\* or a crash to happen.
Fairness == /\ \A c \in Client : WF_vars(Run(c))
            /\ WF_vars(Start)
            /\ WF_vars(SyncStep)

FairSpec == Spec /\ Fairness

-----------------------------------------------------------------------------

\* A change of a client's file that HEAD does not have is still being written,
\* or somebody was told: X-Memory-Commit: failed (or a 500, or a connection that
\* broke) for that very file.  "losing it unnoticed defeats that" (_git_commit).
HistoryLossReported ==
    \A n \in Served :
       file[n] # head[n] =>
          \/ n \in warned
          \/ \E c \in Client : pc[c] \in OnDisk /\ req[c].name = n

\* A commit made for one request names the file it changes: anything else in it
\* is an earlier change whose own commit was reported missing, or the sync's.
\* ("bundling both into one commit under the wrong subject", _write_lock).
CommitNamesItsChange ==
    [][ \A c \in Client :
           (pc[c] = "commit" /\ pc'[c] = "respond" /\ head' # head) =>
              \A n \in Served :
                 head'[n] # head[n] => n = req[c].name \/ n \in warned ]_vars

\* The ETag of a 200 is the one the write guard will ask for next: the blob id
\* of the bytes on disk (the CRLF incident normalise_body tells of).
EtagIsAccepted ==
    \A c \in Client : pc[c] = "respond" => job.tag = file[req[c].name]

\* Once READONLY is set, and as long as it can be read, at most the one write
\* already past its re-check still reaches the disk: "a missed fence costs one
\* divergent write" (replflag.py).
FenceCostsOneWrite == readonly => landed <= 1

\* A pass that dies while the body uploads or the request queues writes nothing.
DeadPassWritesNothing ==
    \A c \in cutoff : pc[c] \in {"body", "queued", "check"}

\* A category comes into being only if the roster, as it is at that moment,
\* lists it (or there is no roster).
CreatedOnlyIfRostered ==
    [][ \A n \in NeedsRoster :
           (file[n] = Absent /\ file'[n] # Absent) => RosterAllows(n) ]_vars

\* Every request whose body is in is answered, or its connection breaks: a slow
\* upload, a failing git or a stream of other writers holds nobody up for good.
Answered == \A c \in Client : pc[c] = "queued" ~> pc[c] = "idle"

\* A sync run ends, whatever becomes of the locks.
SyncEnds == sync.pc # "idle" ~> sync.pc = "idle"

-----------------------------------------------------------------------------

\* The inductive invariant behind the safety properties.  Whoever is past
\* Acquire is the lock's holder, and requests carry what their step needs.
LockInv ==
    /\ \A c \in Client : pc[c] \in Holding <=> writer = c
    /\ \A c \in Client : pc[c] # "idle" => req[c] \in Request
    /\ \A i \in 1..Len(queue) : pc[queue[i]] = "queued"
    /\ \A i, j \in 1..Len(queue) : queue[i] = queue[j] => i = j

\* What the holder found at its check is still there when it writes, and what it
\* wrote is still there when it stages, commits and answers: nobody else touches
\* a client's file.
CheckedInv ==
    \A c \in Client : pc[c] = "write" =>
       LET r == req[c] IN
       /\ Accepts(file[r.name], r.match)
       /\ file[r.name] = Absent => RosterAllows(r.name)
       /\ job.new = Outcome(r.edit, file[r.name])
       /\ job.tag = job.new

WrittenInv ==
    \A c \in Client :
       /\ pc[c] \in {"fill", "add", "commit", "respond"} => job.tag = job.new
       /\ pc[c] \in {"add", "commit", "respond"} => file[req[c].name] = job.new
       /\ pc[c] \in {"write", "fill", "add", "commit"} => ~job.logged
       /\ pc[c] = "fill" => job.new # Absent /\ file[req[c].name] = Empty
       /\ pc[c] = "commit" => \A n \in Served : index[n] = file[n]
       /\ (pc[c] = "respond" /\ job.logged) => head[req[c].name] = job.new

SyncInv == sync.pc # "idle" => sync.name \in Managed

\* A fence already set lets through the one write that had passed its check.
FenceInv ==
    readonly => /\ landed <= 1
                /\ (\E c \in Client : pc[c] = "write") => landed = 0

IInv == /\ TypeOK /\ LockInv /\ CheckedInv /\ WrittenInv
        /\ SyncInv /\ FenceInv /\ HistoryLossReported

-----------------------------------------------------------------------------
(***************************************************************************)
(* The atomic register this implements.  A write takes effect when it      *)
(* empties the file; until its bytes are in, the register already holds    *)
(* them.                                                                   *)
(***************************************************************************)
CellOf(n) ==
    IF \E c \in Client : pc[c] = "fill" /\ req[c].name = n
    THEN job.new ELSE file[n]

AskOf(c) ==
    IF pc[c] = "idle" THEN [state |-> "none"]
    ELSE [state |-> IF pc[c] \in OnDisk THEN "done" ELSE "open",
          name |-> req[c].name, edit |-> req[c].edit, match |-> req[c].match]

Abstract == INSTANCE AtomicVault
              WITH External <- Managed \union {SyncTmp},
                   cell <- [n \in Name |-> CellOf(n)],
                   ask  <- [c \in Client |-> AskOf(c)]

\* No lost update: every accepted write replaces exactly the content its
\* If-Match names (or the absence its If-None-Match asks for).
AtomicSpec == Abstract!ASpec
=============================================================================
