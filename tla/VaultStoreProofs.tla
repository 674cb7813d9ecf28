-------------------------- MODULE VaultStoreProofs ---------------------------
(***************************************************************************)
(* Proofs about VaultStore, for every value of its constants.              *)
(***************************************************************************)
EXTENDS VaultStore, TLAPS

-----------------------------------------------------------------------------
(***************************************************************************)
(* What the constants give.                                                *)
(***************************************************************************)

\* An edit that applies leaves something a file can hold.
LEMMA OutcomeType ==
    ASSUME NEW e \in EditShape, NEW found \in Stored, Outcome(e, found) # Refused
    PROVE  Outcome(e, found) \in Stored
  BY EditAssumption, ContentAssumption DEF Outcome, Stored, EditShape, Kind

\* A request that can arrive is a Request.
LEMMA ArrivalType ==
    ASSUME NEW n \in Served, NEW e \in Edit, NEW m \in Match
    PROVE  [name |-> n, edit |-> e, match |-> m] \in Request
  BY EditAssumption DEF Request

\* The empty job is a job.
LEMMA NoJobType == NoJob \in [new : Stored, tag : Stored, logged : BOOLEAN]
  BY DEF NoJob, Stored

\* The idle sync is a sync.
SyncShape == [pc : {"idle", "tmp", "move", "commit"}, name : Name,
              want : Content, was : Stored, tries : 0..SyncTries]

LEMMA NoSyncType == NoSync \in SyncShape
  BY NameAssumption, ContentAssumption, SyncAssumption DEF NoSync, Stored, SyncShape

\* The sync's files are not the clients'.
LEMMA SyncFacts ==
    ASSUME IInv, sync.pc # "idle"
    PROVE  /\ sync.name \in Name /\ sync.name \notin Served
           /\ SyncTmp \in Name /\ SyncTmp \notin Served
           /\ sync.want \in Content /\ sync.want \in Stored
           /\ sync \in SyncShape
           /\ \A c \in Client : pc[c] # "idle" => req[c].name \in Served
           /\ Served \subseteq Name /\ Roster \in Served
<1>1. sync \in SyncShape /\ sync.name \in Managed
  BY DEF IInv, TypeOK, SyncInv, SyncShape
<1>2. sync.want \in Content /\ sync.name \in Name
  BY <1>1 DEF SyncShape
<1>3. \A c \in Client : pc[c] # "idle" => req[c].name \in Served
  BY DEF IInv, LockInv, Request
<1>4. QED
  BY <1>1, <1>2, <1>3, NameAssumption DEF Served, Stored

\* What is known of the one request that is past Acquire.
LEMMA HolderFacts ==
    ASSUME IInv, NEW c \in Client, pc[c] \in Holding
    PROVE  /\ writer = c
           /\ req[c] \in Request
           /\ req[c].name \in Served /\ req[c].name \in Name
           /\ req[c].edit \in EditShape
           /\ file[req[c].name] \in Stored
           /\ \A d \in Client : pc[d] \in Holding => d = c
<1>1. req[c] \in Request /\ writer = c
  BY DEF IInv, LockInv, Holding
<1>2. req[c].name \in Served /\ req[c].edit \in EditShape
  BY <1>1 DEF Request
<1>3. req[c].name \in Name
  BY <1>2 DEF Served
<1>4. \A d \in Client : pc[d] \in Holding => d = c
  BY <1>1 DEF IInv, LockInv
<1>5. QED
  BY <1>1, <1>2, <1>3, <1>4 DEF IInv, TypeOK

-----------------------------------------------------------------------------
(***************************************************************************)
(* The initial states satisfy the invariant.                               *)
(***************************************************************************)
LEMMA InitIInv == Init => IInv
<1> SUFFICES ASSUME Init PROVE IInv
  OBVIOUS
<1>1. TypeOK
  <2>1. file \in [Name -> Stored] /\ index \in [Name -> Stored] /\ head \in [Name -> Stored]
    BY DEF Init
  <2>2. /\ pc \in [Client -> {"idle", "body", "queued"} \union Holding]
        /\ req \in [Client -> Request \union {NoReq}]
        /\ queue \in Seq(Client)
    BY DEF Init
  <2>3. job \in [new : Stored, tag : Stored, logged : BOOLEAN]
    BY DEF Init, NoJob, Stored
  <2>4. sync \in [pc : {"idle", "tmp", "move", "commit"}, name : Name,
                  want : Content, was : Stored, tries : 0..SyncTries]
    BY NameAssumption, ContentAssumption, SyncAssumption DEF Init, NoSync, Stored
  <2>5. QED
    BY <2>1, <2>2, <2>3, <2>4 DEF Init, TypeOK
<1>2. LockInv
  BY ClientAssumption DEF Init, LockInv, Holding
<1>3. CheckedInv /\ WrittenInv
  BY DEF Init, CheckedInv, WrittenInv
<1>4. SyncInv /\ FenceInv /\ HistoryLossReported
  BY DEF Init, SyncInv, NoSync, FenceInv, HistoryLossReported
<1>5. QED
  BY <1>1, <1>2, <1>3, <1>4 DEF IInv

-----------------------------------------------------------------------------
(***************************************************************************)
(* Every step of a request preserves it.                                   *)
(***************************************************************************)
LEMMA ArriveIInv ==
    ASSUME IInv, NEW c \in Client, NEW r \in Request, Arrive(c, r)
    PROVE  IInv'
<1> USE DEF IInv, Arrive, store, ghosts
<1>1. TypeOK'
  BY DEF TypeOK, Holding
<1>2. LockInv'
  BY DEF LockInv, TypeOK, Holding
<1>3. CheckedInv'
  BY DEF CheckedInv, TypeOK, RosterAllows
<1>4. WrittenInv'
  BY DEF WrittenInv, TypeOK
<1>5. SyncInv' /\ FenceInv'
  BY DEF SyncInv, FenceInv, TypeOK
<1>6. HistoryLossReported'
  BY DEF HistoryLossReported, TypeOK, OnDisk
<1>7. QED
  BY <1>1, <1>2, <1>3, <1>4, <1>5, <1>6

\* A body that came in changes the queue only.
LEMMA BodyInIInv ==
    ASSUME IInv, NEW c \in Client, BodyIn(c)
    PROVE  IInv'
<1> USE DEF IInv, BodyIn, store, ghosts
<1>1. TypeOK'
  BY DEF TypeOK, Holding
<1>2. LockInv'
  <2>1. \A i \in 1..Len(queue) : queue[i] \in Client /\ queue[i] # c
    BY DEF LockInv, TypeOK
  <2>2. /\ Len(queue') = Len(queue) + 1 /\ queue'[Len(queue) + 1] = c
        /\ \A i \in 1..Len(queue) : queue'[i] = queue[i]
    BY DEF TypeOK
  <2>3. \A i \in 1..Len(queue') : i \in 1..Len(queue) \/ i = Len(queue) + 1
    BY <2>2 DEF TypeOK
  <2>4. \A i, j \in 1..Len(queue') : queue'[i] = queue'[j] => i = j
    BY <2>1, <2>2, <2>3 DEF LockInv
  <2>5. \A i \in 1..Len(queue') : pc'[queue'[i]] = "queued"
    BY <2>1, <2>2, <2>3 DEF LockInv, TypeOK
  <2>6. \A d \in Client : pc'[d] \in Holding <=> pc[d] \in Holding
    BY DEF TypeOK, Holding
  <2>7. \A d \in Client : pc'[d] # "idle" => req'[d] \in Request
    BY DEF LockInv, TypeOK
  <2>8. QED
    BY <2>4, <2>5, <2>6, <2>7 DEF LockInv
<1>3. CheckedInv'
  BY DEF CheckedInv, TypeOK, RosterAllows, LockInv, Holding
<1>4. WrittenInv'
  BY DEF WrittenInv, TypeOK, LockInv, Holding
<1>5. SyncInv'
  BY DEF SyncInv, TypeOK
<1>6. FenceInv'
  BY DEF FenceInv, TypeOK, LockInv, Holding
<1>7. HistoryLossReported'
  BY DEF HistoryLossReported, TypeOK, OnDisk, LockInv, Holding
<1>8. QED
  BY <1>1, <1>2, <1>3, <1>4, <1>5, <1>6, <1>7

\* Taking the lock: there was no holder.
LEMMA AcquireIInv ==
    ASSUME IInv, NEW c \in Client, Acquire(c)
    PROVE  IInv'
<1> USE DEF IInv, Acquire, store, ghosts
<1>1. TypeOK'
  BY DEF TypeOK, Holding
<1>2. LockInv'
  <2>1. Len(queue) # 0 /\ Len(queue') = Len(queue) - 1 /\ queue[1] = c
    BY DEF TypeOK
  <2>2. \A i \in 1..Len(queue') : queue'[i] = queue[i + 1] /\ i + 1 \in 1..Len(queue)
    BY <2>1 DEF TypeOK
  <2>3. \A i \in 1..Len(queue) : queue[i] \in Client
    BY DEF TypeOK
  <2>4. \A i \in 1..Len(queue') : queue'[i] # c /\ pc'[queue'[i]] = "queued"
    BY <2>1, <2>2, <2>3 DEF LockInv, TypeOK
  <2>5. \A d \in Client : pc[d] \notin Holding
    BY ClientAssumption DEF LockInv
  <2>6. \A d \in Client : pc'[d] \in Holding <=> d = c
    BY <2>5 DEF TypeOK, Holding
  <2>7. \A d \in Client : pc'[d] # "idle" => req'[d] \in Request
    BY <2>1, <2>3 DEF LockInv, TypeOK
  <2>8. \A i, j \in 1..Len(queue') : queue'[i] = queue'[j] => i = j
    BY <2>2 DEF LockInv, TypeOK
  <2>9. QED
    BY <2>4, <2>6, <2>7, <2>8 DEF LockInv
<1>3. CheckedInv'
  BY DEF CheckedInv, TypeOK, RosterAllows, LockInv, Holding
<1>4. WrittenInv'
  BY DEF WrittenInv, TypeOK, LockInv, Holding
<1>5. SyncInv'
  BY DEF SyncInv, TypeOK
<1>6. FenceInv'
  BY DEF FenceInv, TypeOK, LockInv, Holding
<1>7. HistoryLossReported'
  BY DEF HistoryLossReported, TypeOK, OnDisk, LockInv, Holding
<1>8. QED
  BY <1>1, <1>2, <1>3, <1>4, <1>5, <1>6, <1>7

\* A check that passes records what was found.
LEMMA CheckPassesIInv ==
    ASSUME IInv, NEW c \in Client, CheckPasses(c)
    PROVE  IInv'
<1> USE DEF IInv, CheckPasses, Clear, Tag, store, ghosts
<1>0. /\ req[c] \in Request /\ req[c].edit \in EditShape /\ file[req[c].name] \in Stored
      /\ req[c].name \in Served /\ req[c].name \in Name /\ writer = c
      /\ \A d \in Client : pc[d] \in Holding => d = c
  BY HolderFacts DEF Holding
<1>1. TypeOK'
  <2>1. Outcome(req[c].edit, file[req[c].name]) \in Stored
    BY <1>0, OutcomeType
  <2>2. job' \in [new : Stored, tag : Stored, logged : BOOLEAN]
    BY <2>1
  <2>3. QED
    BY <2>2 DEF TypeOK, Holding
<1>2. LockInv'
  BY DEF LockInv, TypeOK, Holding
<1>3. CheckedInv'
  BY DEF CheckedInv, TypeOK, RosterAllows, LockInv, Holding
<1>4. WrittenInv'
  BY DEF WrittenInv, TypeOK, LockInv, Holding
<1>5. SyncInv'
  BY DEF SyncInv, TypeOK
<1>6. FenceInv'
  BY DEF FenceInv, TypeOK, LockInv, Holding
<1>7. HistoryLossReported'
  BY DEF HistoryLossReported, TypeOK, OnDisk, LockInv, Holding
<1>8. QED
  BY <1>1, <1>2, <1>3, <1>4, <1>5, <1>6, <1>7

\* A refusal frees the lock.
LEMMA CheckRefusesIInv ==
    ASSUME IInv, NEW c \in Client, CheckRefuses(c)
    PROVE  IInv'
<1> USE DEF IInv, CheckRefuses, Release, NoJob, store
<1>0. /\ req[c] \in Request /\ req[c].edit \in EditShape /\ file[req[c].name] \in Stored
      /\ req[c].name \in Served /\ req[c].name \in Name /\ writer = c
      /\ \A d \in Client : pc[d] \in Holding => d = c
  BY HolderFacts DEF Holding
<1>1. TypeOK'
  BY <1>0, NoJobType DEF TypeOK
<1>2. LockInv'
  <2>1. \A i \in 1..Len(queue) : queue[i] \in Client /\ queue[i] # c
    BY DEF LockInv, TypeOK
  <2>2. \A d \in Client : pc'[d] \notin Holding /\ (pc'[d] # "idle" => req'[d] \in Request)
    BY <1>0 DEF LockInv, TypeOK, Holding
  <2>3. QED
    BY <2>1, <2>2, ClientAssumption DEF LockInv, TypeOK
<1>3. CheckedInv'
  BY DEF CheckedInv, TypeOK, RosterAllows, LockInv, Holding
<1>4. WrittenInv'
  BY DEF WrittenInv, TypeOK, LockInv, Holding
<1>5. SyncInv'
  BY DEF SyncInv, TypeOK
<1>6. FenceInv'
  BY DEF FenceInv, TypeOK, LockInv, Holding
<1>7. HistoryLossReported'
  BY DEF HistoryLossReported, TypeOK, OnDisk, LockInv, Holding
<1>8. QED
  BY <1>1, <1>2, <1>3, <1>4, <1>5, <1>6, <1>7

\* The file is touched: by the lock's holder only.
LEMMA TruncateIInv ==
    ASSUME IInv, NEW c \in Client, Truncate(c)
    PROVE  IInv'
<1> USE DEF IInv, Truncate, Land
<1>0. /\ req[c] \in Request /\ req[c].edit \in EditShape /\ file[req[c].name] \in Stored
      /\ req[c].name \in Served /\ req[c].name \in Name /\ writer = c
      /\ \A d \in Client : pc[d] \in Holding => d = c
  BY HolderFacts DEF Holding
<1>1. TypeOK'
  BY <1>0, ContentAssumption DEF TypeOK, Stored, Holding
<1>2. LockInv'
  BY DEF LockInv, TypeOK, Holding
<1>3. CheckedInv'
  BY DEF CheckedInv, TypeOK, RosterAllows, LockInv, Holding
<1>4. WrittenInv'
  BY <1>0 DEF WrittenInv, CheckedInv, TypeOK, Holding
<1>5. SyncInv'
  BY DEF SyncInv, TypeOK
<1>6. FenceInv'
  BY DEF FenceInv, TypeOK, LockInv, Holding
<1>7. HistoryLossReported'
  BY DEF HistoryLossReported, TypeOK, OnDisk, LockInv, Holding
<1>8. QED
  BY <1>1, <1>2, <1>3, <1>4, <1>5, <1>6, <1>7

\* The file is touched: by the lock's holder only.
LEMMA UnlinkIInv ==
    ASSUME IInv, NEW c \in Client, Unlink(c)
    PROVE  IInv'
<1> USE DEF IInv, Unlink, Land
<1>0. /\ req[c] \in Request /\ req[c].edit \in EditShape /\ file[req[c].name] \in Stored
      /\ req[c].name \in Served /\ req[c].name \in Name /\ writer = c
      /\ \A d \in Client : pc[d] \in Holding => d = c
  BY HolderFacts DEF Holding
<1>1. TypeOK'
  BY <1>0, ContentAssumption DEF TypeOK, Stored, Holding
<1>2. LockInv'
  BY DEF LockInv, TypeOK, Holding
<1>3. CheckedInv'
  BY DEF CheckedInv, TypeOK, RosterAllows, LockInv, Holding
<1>4. WrittenInv'
  BY <1>0 DEF WrittenInv, CheckedInv, TypeOK, Holding
<1>5. SyncInv'
  BY DEF SyncInv, TypeOK
<1>6. FenceInv'
  BY DEF FenceInv, TypeOK, LockInv, Holding
<1>7. HistoryLossReported'
  BY DEF HistoryLossReported, TypeOK, OnDisk, LockInv, Holding
<1>8. QED
  BY <1>1, <1>2, <1>3, <1>4, <1>5, <1>6, <1>7

\* The bytes are in.
LEMMA FillIInv ==
    ASSUME IInv, NEW c \in Client, Fill(c)
    PROVE  IInv'
<1> USE DEF IInv, Fill, ghosts
<1>0. /\ req[c] \in Request /\ req[c].edit \in EditShape /\ file[req[c].name] \in Stored
      /\ req[c].name \in Served /\ req[c].name \in Name /\ writer = c
      /\ \A d \in Client : pc[d] \in Holding => d = c
  BY HolderFacts DEF Holding
<1>1. TypeOK'
  BY DEF TypeOK, Holding
<1>2. LockInv'
  BY DEF LockInv, TypeOK, Holding
<1>3. CheckedInv'
  BY DEF CheckedInv, TypeOK, RosterAllows, LockInv, Holding
<1>4. WrittenInv'
  BY <1>0 DEF WrittenInv, CheckedInv, TypeOK, Holding
<1>5. SyncInv'
  BY DEF SyncInv, TypeOK
<1>6. FenceInv'
  BY DEF FenceInv, TypeOK, LockInv, Holding
<1>7. HistoryLossReported'
  BY DEF HistoryLossReported, TypeOK, OnDisk, LockInv, Holding
<1>8. QED
  BY <1>1, <1>2, <1>3, <1>4, <1>5, <1>6, <1>7

\* The bytes are not: the client is told.
LEMMA FillFailsIInv ==
    ASSUME IInv, NEW c \in Client, FillFails(c)
    PROVE  IInv'
<1> USE DEF IInv, FillFails, Release, NoJob, store
<1>0. /\ req[c] \in Request /\ req[c].edit \in EditShape /\ file[req[c].name] \in Stored
      /\ req[c].name \in Served /\ req[c].name \in Name /\ writer = c
      /\ \A d \in Client : pc[d] \in Holding => d = c
  BY HolderFacts DEF Holding
<1>1. TypeOK'
  BY <1>0, NoJobType DEF TypeOK
<1>2. LockInv'
  <2>1. \A i \in 1..Len(queue) : queue[i] \in Client /\ queue[i] # c
    BY DEF LockInv, TypeOK
  <2>2. \A d \in Client : pc'[d] \notin Holding /\ (pc'[d] # "idle" => req'[d] \in Request)
    BY <1>0 DEF LockInv, TypeOK, Holding
  <2>3. QED
    BY <2>1, <2>2, ClientAssumption DEF LockInv, TypeOK
<1>3. CheckedInv'
  BY DEF CheckedInv, TypeOK, RosterAllows, LockInv, Holding
<1>4. WrittenInv'
  BY DEF WrittenInv, TypeOK, LockInv, Holding
<1>5. SyncInv'
  BY DEF SyncInv, TypeOK
<1>6. FenceInv'
  BY DEF FenceInv, TypeOK, LockInv, Holding
<1>7. HistoryLossReported'
  BY DEF HistoryLossReported, TypeOK, OnDisk, LockInv, Holding
<1>8. QED
  BY <1>1, <1>2, <1>3, <1>4, <1>5, <1>6, <1>7

\* git add -A.
LEMMA GitAddIInv ==
    ASSUME IInv, NEW c \in Client, GitAdd(c)
    PROVE  IInv'
<1> USE DEF IInv, GitAdd, ghosts
<1>0. /\ req[c] \in Request /\ req[c].edit \in EditShape /\ file[req[c].name] \in Stored
      /\ req[c].name \in Served /\ req[c].name \in Name /\ writer = c
      /\ \A d \in Client : pc[d] \in Holding => d = c
  BY HolderFacts DEF Holding
<1>1. TypeOK'
  BY DEF TypeOK, Holding
<1>2. LockInv'
  BY DEF LockInv, TypeOK, Holding
<1>3. CheckedInv'
  BY DEF CheckedInv, TypeOK, RosterAllows, LockInv, Holding
<1>4. WrittenInv'
  BY DEF WrittenInv, TypeOK, LockInv, Holding
<1>5. SyncInv'
  BY DEF SyncInv, TypeOK
<1>6. FenceInv'
  BY DEF FenceInv, TypeOK, LockInv, Holding
<1>7. HistoryLossReported'
  BY DEF HistoryLossReported, TypeOK, OnDisk, LockInv, Holding
<1>8. QED
  BY <1>1, <1>2, <1>3, <1>4, <1>5, <1>6, <1>7

\* git add fails.
LEMMA AddFailsIInv ==
    ASSUME IInv, NEW c \in Client, AddFails(c)
    PROVE  IInv'
<1> USE DEF IInv, AddFails, LockLeft, ghosts
<1>0. /\ req[c] \in Request /\ req[c].edit \in EditShape /\ file[req[c].name] \in Stored
      /\ req[c].name \in Served /\ req[c].name \in Name /\ writer = c
      /\ \A d \in Client : pc[d] \in Holding => d = c
  BY HolderFacts DEF Holding
<1>1. TypeOK'
  BY DEF TypeOK, Holding
<1>2. LockInv'
  BY DEF LockInv, TypeOK, Holding
<1>3. CheckedInv'
  BY DEF CheckedInv, TypeOK, RosterAllows, LockInv, Holding
<1>4. WrittenInv'
  BY <1>0 DEF WrittenInv, CheckedInv, TypeOK, Holding
<1>5. SyncInv'
  BY DEF SyncInv, TypeOK
<1>6. FenceInv'
  BY DEF FenceInv, TypeOK, LockInv, Holding
<1>7. HistoryLossReported'
  BY DEF HistoryLossReported, TypeOK, OnDisk, LockInv, Holding
<1>8. QED
  BY <1>1, <1>2, <1>3, <1>4, <1>5, <1>6, <1>7

\* git commit: HEAD now has every client file.
LEMMA GitCommitIInv ==
    ASSUME IInv, NEW c \in Client, GitCommit(c)
    PROVE  IInv'
<1> USE DEF IInv, GitCommit
<1>0. /\ req[c] \in Request /\ req[c].edit \in EditShape /\ file[req[c].name] \in Stored
      /\ req[c].name \in Served /\ req[c].name \in Name /\ writer = c
      /\ \A d \in Client : pc[d] \in Holding => d = c
  BY HolderFacts DEF Holding
<1>1. TypeOK'
  BY DEF TypeOK, Holding
<1>2. LockInv'
  BY DEF LockInv, TypeOK, Holding
<1>3. CheckedInv'
  BY DEF CheckedInv, TypeOK, RosterAllows, LockInv, Holding
<1>4. WrittenInv'
  BY <1>0 DEF WrittenInv, CheckedInv, TypeOK, Holding
<1>5. SyncInv'
  BY DEF SyncInv, TypeOK
<1>6. FenceInv'
  BY DEF FenceInv, TypeOK, LockInv, Holding
<1>7. HistoryLossReported'
  BY <1>0 DEF HistoryLossReported, WrittenInv, Behind, TypeOK, OnDisk, Holding
<1>8. QED
  BY <1>1, <1>2, <1>3, <1>4, <1>5, <1>6, <1>7

\* git commit fails.
LEMMA CommitFailsIInv ==
    ASSUME IInv, NEW c \in Client, CommitFails(c)
    PROVE  IInv'
<1> USE DEF IInv, CommitFails, LockLeft, ghosts
<1>0. /\ req[c] \in Request /\ req[c].edit \in EditShape /\ file[req[c].name] \in Stored
      /\ req[c].name \in Served /\ req[c].name \in Name /\ writer = c
      /\ \A d \in Client : pc[d] \in Holding => d = c
  BY HolderFacts DEF Holding
<1>1. TypeOK'
  BY DEF TypeOK, Holding
<1>2. LockInv'
  BY DEF LockInv, TypeOK, Holding
<1>3. CheckedInv'
  BY DEF CheckedInv, TypeOK, RosterAllows, LockInv, Holding
<1>4. WrittenInv'
  BY <1>0 DEF WrittenInv, CheckedInv, TypeOK, Holding
<1>5. SyncInv'
  BY DEF SyncInv, TypeOK
<1>6. FenceInv'
  BY DEF FenceInv, TypeOK, LockInv, Holding
<1>7. HistoryLossReported'
  BY <1>0 DEF HistoryLossReported, WrittenInv, TypeOK, OnDisk, Holding
<1>8. QED
  BY <1>1, <1>2, <1>3, <1>4, <1>5, <1>6, <1>7

\* The answer carries X-Memory-Commit if need be.
LEMMA RespondIInv ==
    ASSUME IInv, NEW c \in Client, Respond(c)
    PROVE  IInv'
<1> USE DEF IInv, Respond, Release, NoJob, store
<1>0. /\ req[c] \in Request /\ req[c].edit \in EditShape /\ file[req[c].name] \in Stored
      /\ req[c].name \in Served /\ req[c].name \in Name /\ writer = c
      /\ \A d \in Client : pc[d] \in Holding => d = c
  BY HolderFacts DEF Holding
<1>1. TypeOK'
  BY <1>0, NoJobType DEF TypeOK
<1>2. LockInv'
  <2>1. \A i \in 1..Len(queue) : queue[i] \in Client /\ queue[i] # c
    BY DEF LockInv, TypeOK
  <2>2. \A d \in Client : pc'[d] \notin Holding /\ (pc'[d] # "idle" => req'[d] \in Request)
    BY <1>0 DEF LockInv, TypeOK, Holding
  <2>3. QED
    BY <2>1, <2>2, ClientAssumption DEF LockInv, TypeOK
<1>3. CheckedInv'
  BY DEF CheckedInv, TypeOK, RosterAllows, LockInv, Holding
<1>4. WrittenInv'
  BY DEF WrittenInv, TypeOK, LockInv, Holding
<1>5. SyncInv'
  BY DEF SyncInv, TypeOK
<1>6. FenceInv'
  BY DEF FenceInv, TypeOK, LockInv, Holding
<1>7. HistoryLossReported'
  BY <1>0 DEF HistoryLossReported, WrittenInv, TypeOK, OnDisk, Holding
<1>8. QED
  BY <1>1, <1>2, <1>3, <1>4, <1>5, <1>6, <1>7

-----------------------------------------------------------------------------
(***************************************************************************)
(* The surroundings and the sync preserve it.                              *)
(***************************************************************************)

\* The fence starts counting when it is set.
LEMMA SetReadonlyIInv ==
    ASSUME IInv, SetReadonly
    PROVE  IInv'
<1> USE DEF IInv, SetReadonly, store, server, ghosts
<1>1. TypeOK'
  BY DEF TypeOK, Holding
<1>2. LockInv'
  BY DEF LockInv, TypeOK, Holding
<1>3. CheckedInv'
  BY DEF CheckedInv, TypeOK, RosterAllows, LockInv, Holding
<1>4. WrittenInv'
  BY DEF WrittenInv, TypeOK, LockInv, Holding
<1>5. SyncInv'
  BY DEF SyncInv, TypeOK
<1>6. FenceInv'
  BY DEF FenceInv, TypeOK, LockInv, Holding
<1>7. HistoryLossReported'
  BY DEF HistoryLossReported, TypeOK, OnDisk, LockInv, Holding
<1>8. QED
  BY <1>1, <1>2, <1>3, <1>4, <1>5, <1>6, <1>7

\* Without a fence there is nothing to count.
LEMMA ClearReadonlyIInv ==
    ASSUME IInv, ClearReadonly
    PROVE  IInv'
<1> USE DEF IInv, ClearReadonly, store, server, ghosts
<1>1. TypeOK'
  BY DEF TypeOK, Holding
<1>2. LockInv'
  BY DEF LockInv, TypeOK, Holding
<1>3. CheckedInv'
  BY DEF CheckedInv, TypeOK, RosterAllows, LockInv, Holding
<1>4. WrittenInv'
  BY DEF WrittenInv, TypeOK, LockInv, Holding
<1>5. SyncInv'
  BY DEF SyncInv, TypeOK
<1>6. FenceInv'
  BY DEF FenceInv, TypeOK, LockInv, Holding
<1>7. HistoryLossReported'
  BY DEF HistoryLossReported, TypeOK, OnDisk, LockInv, Holding
<1>8. QED
  BY <1>1, <1>2, <1>3, <1>4, <1>5, <1>6, <1>7

\* A revocation is looked up by the check, no earlier.
LEMMA RevokePassIInv ==
    ASSUME IInv, NEW c \in Client, RevokePass(c)
    PROVE  IInv'
<1> USE DEF IInv, RevokePass, store, server, ghosts
<1>1. TypeOK'
  BY DEF TypeOK, Holding
<1>2. LockInv'
  BY DEF LockInv, TypeOK, Holding
<1>3. CheckedInv'
  BY DEF CheckedInv, TypeOK, RosterAllows, LockInv, Holding
<1>4. WrittenInv'
  BY DEF WrittenInv, TypeOK, LockInv, Holding
<1>5. SyncInv'
  BY DEF SyncInv, TypeOK
<1>6. FenceInv'
  BY DEF FenceInv, TypeOK, LockInv, Holding
<1>7. HistoryLossReported'
  BY DEF HistoryLossReported, TypeOK, OnDisk, LockInv, Holding
<1>8. QED
  BY <1>1, <1>2, <1>3, <1>4, <1>5, <1>6, <1>7

\* A new pass opens no request.
LEMMA IssuePassIInv ==
    ASSUME IInv, NEW c \in Client, IssuePass(c)
    PROVE  IInv'
<1> USE DEF IInv, IssuePass, store, server, ghosts
<1>1. TypeOK'
  BY DEF TypeOK, Holding
<1>2. LockInv'
  BY DEF LockInv, TypeOK, Holding
<1>3. CheckedInv'
  BY DEF CheckedInv, TypeOK, RosterAllows, LockInv, Holding
<1>4. WrittenInv'
  BY DEF WrittenInv, TypeOK, LockInv, Holding
<1>5. SyncInv'
  BY DEF SyncInv, TypeOK
<1>6. FenceInv'
  BY DEF FenceInv, TypeOK, LockInv, Holding
<1>7. HistoryLossReported'
  BY DEF HistoryLossReported, TypeOK, OnDisk, LockInv, Holding
<1>8. QED
  BY <1>1, <1>2, <1>3, <1>4, <1>5, <1>6, <1>7

\* After a crash nobody is being served; what was on disk was lost to somebody.
LEMMA CrashIInv ==
    ASSUME IInv, Crash
    PROVE  IInv'
<1> USE DEF IInv, Crash, LockLeft, NoJob
<1>1. TypeOK'
  <2>1. {req[c].name : c \in {d \in Client : pc[d] \in OnDisk}} \subseteq Name
    BY HolderFacts DEF OnDisk, Holding
  <2>2. warned' \subseteq Name /\ cutoff' \subseteq PassClient /\ revoked' \subseteq PassClient
    BY <2>1 DEF TypeOK
  <2>3. queue' \in Seq(Client) /\ writer' \in Client \union {NoClient}
    OBVIOUS
  <2>4. head' \in [Name -> Stored] /\ gitLock' \in {"free", "fresh", "old"}
    BY DEF TypeOK
  <2>5. job' \in [new : Stored, tag : Stored, logged : BOOLEAN]
    BY NoJobType
  <2>6. /\ pc' \in [Client -> {"idle", "body", "queued"} \union Holding]
        /\ req' \in [Client -> Request \union {NoReq}]
    OBVIOUS
  <2>7. QED
    BY <2>2, <2>3, <2>4, <2>5, <2>6 DEF TypeOK
<1>2. LockInv'
  <2>1. Len(queue') = 0
    OBVIOUS
  <2>2. QED
    BY <2>1, ClientAssumption DEF LockInv, Holding
<1>3. CheckedInv'
  BY DEF CheckedInv, TypeOK, RosterAllows, LockInv, Holding
<1>4. WrittenInv'
  BY DEF WrittenInv, TypeOK, LockInv, Holding
<1>5. SyncInv'
  BY DEF SyncInv, TypeOK
<1>6. FenceInv'
  BY DEF FenceInv, TypeOK, LockInv, Holding
<1>7. HistoryLossReported'
  <2> SUFFICES ASSUME NEW n \in Served, file'[n] # head'[n]
              PROVE  n \in warned'
    BY DEF HistoryLossReported
  <2>1. CASE file[n] = head[n]
    <3>1. PICK c \in Client : pc[c] = "commit" /\ head' = index
      BY <2>1
    <3>2. QED
      BY <3>1, <2>1 DEF WrittenInv
  <2>2. CASE file[n] # head[n]
    BY <2>2 DEF HistoryLossReported
  <2>3. QED
    BY <2>1, <2>2
<1>8. QED
  BY <1>1, <1>2, <1>3, <1>4, <1>5, <1>6, <1>7

\* A start may remove index.lock.
LEMMA StartIInv ==
    ASSUME IInv, Start
    PROVE  IInv'
<1> USE DEF IInv, Start, store, server, ghosts
<1>1. TypeOK'
  BY DEF TypeOK, Holding
<1>2. LockInv'
  BY DEF LockInv, TypeOK, Holding
<1>3. CheckedInv'
  BY DEF CheckedInv, TypeOK, RosterAllows, LockInv, Holding
<1>4. WrittenInv'
  BY DEF WrittenInv, TypeOK, LockInv, Holding
<1>5. SyncInv'
  BY DEF SyncInv, TypeOK
<1>6. FenceInv'
  BY DEF FenceInv, TypeOK, LockInv, Holding
<1>7. HistoryLossReported'
  BY DEF HistoryLossReported, TypeOK, OnDisk, LockInv, Holding
<1>8. QED
  BY <1>1, <1>2, <1>3, <1>4, <1>5, <1>6, <1>7

\* A lock grows old.
LEMMA AgeIInv ==
    ASSUME IInv, Age
    PROVE  IInv'
<1> USE DEF IInv, Age, store, server, ghosts
<1>1. TypeOK'
  BY DEF TypeOK, Holding
<1>2. LockInv'
  BY DEF LockInv, TypeOK, Holding
<1>3. CheckedInv'
  BY DEF CheckedInv, TypeOK, RosterAllows, LockInv, Holding
<1>4. WrittenInv'
  BY DEF WrittenInv, TypeOK, LockInv, Holding
<1>5. SyncInv'
  BY DEF SyncInv, TypeOK
<1>6. FenceInv'
  BY DEF FenceInv, TypeOK, LockInv, Holding
<1>7. HistoryLossReported'
  BY DEF HistoryLossReported, TypeOK, OnDisk, LockInv, Holding
<1>8. QED
  BY <1>1, <1>2, <1>3, <1>4, <1>5, <1>6, <1>7

\* The sync picks a managed file.
LEMMA SyncStartIInv ==
    ASSUME IInv, NEW n \in Managed, NEW v \in Content, SyncStart(n, v)
    PROVE  IInv'
<1> USE DEF IInv, SyncStart, store, server, ghosts
<1>1. TypeOK'
  BY NameAssumption, SyncAssumption DEF TypeOK, Holding
<1>2. LockInv'
  BY DEF LockInv, TypeOK, Holding
<1>3. CheckedInv'
  BY DEF CheckedInv, TypeOK, RosterAllows, LockInv, Holding
<1>4. WrittenInv'
  BY DEF WrittenInv, TypeOK, LockInv, Holding
<1>5. SyncInv'
  BY DEF SyncInv, TypeOK
<1>6. FenceInv'
  BY DEF FenceInv, TypeOK, LockInv, Holding
<1>7. HistoryLossReported'
  BY DEF HistoryLossReported, TypeOK, OnDisk, LockInv, Holding
<1>8. QED
  BY <1>1, <1>2, <1>3, <1>4, <1>5, <1>6, <1>7

\* The temporary file is nobody's.
LEMMA SyncWriteIInv ==
    ASSUME IInv, SyncWrite
    PROVE  IInv'
<1> USE DEF IInv, SyncWrite, store, server, ghosts
<1>0. /\ sync.name \in Name /\ sync.name \notin Served
      /\ SyncTmp \in Name /\ SyncTmp \notin Served
      /\ sync.want \in Content /\ sync.want \in Stored
      /\ sync \in SyncShape
      /\ \A c \in Client : pc[c] # "idle" => req[c].name \in Served
      /\ Served \subseteq Name /\ Roster \in Served
  BY SyncFacts
<1>a. \A n \in Served : /\ file'[n] = file[n] /\ head'[n] = head[n] /\ index'[n] = index[n]
                       /\ n \in warned => n \in warned'
  BY <1>0 DEF TypeOK
<1>1. TypeOK'
  <2>1. sync' \in SyncShape
    BY <1>0, NoSyncType, SyncAssumption DEF SyncShape
  <2>2. QED
    BY <1>0, <2>1 DEF TypeOK, SyncShape, Stored
<1>2. LockInv'
  BY DEF LockInv
<1>3. CheckedInv'
  BY <1>0, <1>a DEF CheckedInv, RosterAllows, TypeOK
<1>4. WrittenInv'
  BY <1>0, <1>a DEF WrittenInv, TypeOK
<1>5. SyncInv'
  BY <1>0 DEF SyncInv, NoSync, SyncShape
<1>6. FenceInv'
  BY DEF FenceInv
<1>7. HistoryLossReported'
  BY <1>0, <1>a DEF HistoryLossReported, OnDisk, TypeOK
<1>8. QED
  BY <1>1, <1>2, <1>3, <1>4, <1>5, <1>6, <1>7

\* The managed file is not a client's.
LEMMA SyncMoveIInv ==
    ASSUME IInv, SyncMove
    PROVE  IInv'
<1> USE DEF IInv, SyncMove, store, server, ghosts
<1>0. /\ sync.name \in Name /\ sync.name \notin Served
      /\ SyncTmp \in Name /\ SyncTmp \notin Served
      /\ sync.want \in Content /\ sync.want \in Stored
      /\ sync \in SyncShape
      /\ \A c \in Client : pc[c] # "idle" => req[c].name \in Served
      /\ Served \subseteq Name /\ Roster \in Served
  BY SyncFacts
<1>a. \A n \in Served : /\ file'[n] = file[n] /\ head'[n] = head[n] /\ index'[n] = index[n]
                       /\ n \in warned => n \in warned'
  BY <1>0 DEF TypeOK
<1>1. TypeOK'
  <2>1. sync' \in SyncShape
    BY <1>0, NoSyncType, SyncAssumption DEF SyncShape
  <2>2. QED
    BY <1>0, <2>1 DEF TypeOK, SyncShape, Stored
<1>2. LockInv'
  BY DEF LockInv
<1>3. CheckedInv'
  BY <1>0, <1>a DEF CheckedInv, RosterAllows, TypeOK
<1>4. WrittenInv'
  BY <1>0, <1>a DEF WrittenInv, TypeOK
<1>5. SyncInv'
  BY <1>0 DEF SyncInv, NoSync, SyncShape
<1>6. FenceInv'
  BY DEF FenceInv
<1>7. HistoryLossReported'
  BY <1>0, <1>a DEF HistoryLossReported, OnDisk, TypeOK
<1>8. QED
  BY <1>1, <1>2, <1>3, <1>4, <1>5, <1>6, <1>7

\* Its commit is of that one path.
LEMMA SyncCommitIInv ==
    ASSUME IInv, SyncCommit
    PROVE  IInv'
<1> USE DEF IInv, SyncCommit, store, server, ghosts
<1>0. /\ sync.name \in Name /\ sync.name \notin Served
      /\ SyncTmp \in Name /\ SyncTmp \notin Served
      /\ sync.want \in Content /\ sync.want \in Stored
      /\ sync \in SyncShape
      /\ \A c \in Client : pc[c] # "idle" => req[c].name \in Served
      /\ Served \subseteq Name /\ Roster \in Served
  BY SyncFacts
<1>a. \A n \in Served : /\ file'[n] = file[n] /\ head'[n] = head[n] /\ index'[n] = index[n]
                       /\ n \in warned => n \in warned'
  BY <1>0 DEF TypeOK
<1>1. TypeOK'
  <2>1. sync' \in SyncShape
    BY <1>0, NoSyncType, SyncAssumption DEF SyncShape
  <2>2. QED
    BY <1>0, <2>1 DEF TypeOK, SyncShape, Stored
<1>2. LockInv'
  BY DEF LockInv
<1>3. CheckedInv'
  BY <1>0, <1>a DEF CheckedInv, RosterAllows, TypeOK
<1>4. WrittenInv'
  BY <1>0, <1>a DEF WrittenInv, TypeOK
<1>5. SyncInv'
  BY <1>0 DEF SyncInv, NoSync, SyncShape
<1>6. FenceInv'
  BY DEF FenceInv
<1>7. HistoryLossReported'
  BY <1>0, <1>a DEF HistoryLossReported, OnDisk, TypeOK
<1>8. QED
  BY <1>1, <1>2, <1>3, <1>4, <1>5, <1>6, <1>7

\* A failed try changes at most what is staged of that path.
LEMMA SyncCommitFailsIInv ==
    ASSUME IInv, SyncCommitFails
    PROVE  IInv'
<1> USE DEF IInv, SyncCommitFails, store, server, ghosts
<1>0. /\ sync.name \in Name /\ sync.name \notin Served
      /\ SyncTmp \in Name /\ SyncTmp \notin Served
      /\ sync.want \in Content /\ sync.want \in Stored
      /\ sync \in SyncShape
      /\ \A c \in Client : pc[c] # "idle" => req[c].name \in Served
      /\ Served \subseteq Name /\ Roster \in Served
  BY SyncFacts
<1>a. \A n \in Served : /\ file'[n] = file[n] /\ head'[n] = head[n] /\ index'[n] = index[n]
                       /\ n \in warned => n \in warned'
  BY <1>0 DEF TypeOK
<1>1. TypeOK'
  <2>1. sync' \in SyncShape
    BY <1>0, NoSyncType, SyncAssumption DEF SyncShape
  <2>2. QED
    BY <1>0, <2>1 DEF TypeOK, SyncShape, Stored
<1>2. LockInv'
  BY DEF LockInv
<1>3. CheckedInv'
  BY <1>0, <1>a DEF CheckedInv, RosterAllows, TypeOK
<1>4. WrittenInv'
  BY <1>0, <1>a DEF WrittenInv, TypeOK
<1>5. SyncInv'
  BY <1>0 DEF SyncInv, NoSync, SyncShape
<1>6. FenceInv'
  BY DEF FenceInv
<1>7. HistoryLossReported'
  BY <1>0, <1>a DEF HistoryLossReported, OnDisk, TypeOK
<1>8. QED
  BY <1>1, <1>2, <1>3, <1>4, <1>5, <1>6, <1>7

\* Nor does a stuttering step.
LEMMA StutterIInv ==
    ASSUME IInv, UNCHANGED vars
    PROVE  IInv'
<1> USE DEF IInv, vars, store, server, ghosts
<1>1. TypeOK'
  BY DEF TypeOK, Holding
<1>2. LockInv'
  BY DEF LockInv, TypeOK, Holding
<1>3. CheckedInv'
  BY DEF CheckedInv, TypeOK, RosterAllows, LockInv, Holding
<1>4. WrittenInv'
  BY DEF WrittenInv, TypeOK, LockInv, Holding
<1>5. SyncInv'
  BY DEF SyncInv, TypeOK
<1>6. FenceInv'
  BY DEF FenceInv, TypeOK, LockInv, Holding
<1>7. HistoryLossReported'
  BY DEF HistoryLossReported, TypeOK, OnDisk, LockInv, Holding
<1>8. QED
  BY <1>1, <1>2, <1>3, <1>4, <1>5, <1>6, <1>7

-----------------------------------------------------------------------------
(***************************************************************************)
(* The invariant, and what follows from it.                                *)
(***************************************************************************)

\* Every step of the vault keeps IInv.
LEMMA NextIInv ==
    ASSUME IInv, [Next]_vars
    PROVE  IInv'
<1>1. ASSUME NEW c \in Client, NEW n \in Served, NEW e \in Edit, NEW m \in Match,
             Arrive(c, [name |-> n, edit |-> e, match |-> m])
      PROVE  IInv'
  BY <1>1, ArrivalType, ArriveIInv
<1>2. ASSUME NEW c \in Client, Serve(c) PROVE IInv'
  BY <1>2, BodyInIInv, AcquireIInv, CheckPassesIInv, CheckRefusesIInv, TruncateIInv,
     FillIInv, FillFailsIInv, UnlinkIInv, GitAddIInv, AddFailsIInv, GitCommitIInv,
     CommitFailsIInv, RespondIInv DEF Serve, Run
<1>3. ASSUME NEW c \in PassClient, RevokePass(c) \/ IssuePass(c) PROVE IInv'
  BY <1>3, ClientAssumption, RevokePassIInv, IssuePassIInv
<1>4. ASSUME NEW n \in Managed, NEW v \in Content, SyncStart(n, v) PROVE IInv'
  BY <1>4, SyncStartIInv
<1>5. CASE SyncStep
  BY <1>5, SyncWriteIInv, SyncMoveIInv, SyncCommitIInv, SyncCommitFailsIInv DEF SyncStep
<1>6. CASE SetReadonly \/ ClearReadonly \/ Crash \/ Start \/ Age
  BY <1>6, SetReadonlyIInv, ClearReadonlyIInv, CrashIInv, StartIInv, AgeIInv
<1>7. CASE UNCHANGED vars
  BY <1>7, StutterIInv
<1>8. QED
  BY <1>1, <1>2, <1>3, <1>4, <1>5, <1>6, <1>7 DEF Next

\* IInv holds in every reachable state of the write path.
THEOREM Invariance == Spec => []IInv
<1>1. Init => IInv
  BY InitIInv
<1>2. IInv /\ [Next]_vars => IInv'
  BY NextIInv
<1>3. QED
  BY <1>1, <1>2, PTL DEF Spec

\* Every variable keeps its type.
THEOREM TypeCorrect == Spec => []TypeOK
<1>1. IInv => TypeOK
  BY DEF IInv
<1>2. QED
  BY <1>1, Invariance, PTL

\* No change of a client's file goes missing from the history unreported,
\* whatever git does and wherever the process dies.
THEOREM NoSilentHistoryLoss == Spec => []HistoryLossReported
<1>1. IInv => HistoryLossReported
  BY DEF IInv
<1>2. QED
  BY <1>1, Invariance, PTL

\* The ETag of a 200 is accepted by the guard that answers the next request.
THEOREM EtagTheorem == Spec => []EtagIsAccepted
<1>1. IInv => EtagIsAccepted
  BY DEF IInv, WrittenInv, EtagIsAccepted
<1>2. QED
  BY <1>1, Invariance, PTL

\* A set READONLY flag is outlived by one write at most.
THEOREM FenceTheorem == Spec => []FenceCostsOneWrite
<1>1. IInv => FenceCostsOneWrite
  BY DEF IInv, FenceInv, FenceCostsOneWrite
<1>2. QED
  BY <1>1, Invariance, PTL

\* A request whose pass died before its check is still before its check, and the
\* pass is still dead.
CutInv == \A c \in cutoff : c \in revoked /\ pc[c] \in {"body", "queued", "check"}

LEMMA CutNext ==
    ASSUME IInv, CutInv, [Next]_vars
    PROVE  CutInv'
<1> USE DEF CutInv, store, server, ghosts
<1>0. cutoff \subseteq Client /\ pc \in [Client -> {"idle", "body", "queued"} \union Holding]
  BY ClientAssumption DEF IInv, TypeOK
<1>1. ASSUME NEW c \in Client, NEW r \in Request, Arrive(c, r) PROVE CutInv'
  BY <1>0, <1>1 DEF Arrive, Permitted
<1>2. ASSUME NEW c \in Client, BodyIn(c) PROVE CutInv'
  BY <1>0, <1>2 DEF BodyIn
<1>3. ASSUME NEW c \in Client, Acquire(c) PROVE CutInv'
  BY <1>0, <1>3 DEF Acquire
<1>4. ASSUME NEW c \in Client, CheckPasses(c) PROVE CutInv'
  BY <1>0, <1>4 DEF CheckPasses, Clear
<1>5. ASSUME NEW c \in Client, CheckRefuses(c) \/ FillFails(c) \/ Respond(c)
      PROVE  CutInv'
  BY <1>0, <1>5 DEF CheckRefuses, FillFails, Respond, Release
<1>6. ASSUME NEW c \in Client,
             \/ Truncate(c) \/ Fill(c) \/ Unlink(c) \/ GitAdd(c) \/ AddFails(c)
             \/ GitCommit(c) \/ CommitFails(c)
      PROVE  CutInv'
  BY <1>0, <1>6 DEF Truncate, Fill, Unlink, GitAdd, AddFails, GitCommit, CommitFails
<1>7. ASSUME NEW c \in PassClient, RevokePass(c) \/ IssuePass(c) PROVE CutInv'
  BY <1>0, <1>7 DEF RevokePass, IssuePass
<1>8. CASE SetReadonly \/ ClearReadonly \/ Crash \/ Start \/ Age
  BY <1>0, <1>8 DEF SetReadonly, ClearReadonly, Crash, Start, Age
<1>9. ASSUME NEW n \in Managed, NEW v \in Content, SyncStart(n, v) PROVE CutInv'
  BY <1>9 DEF SyncStart
<1>10. CASE SyncStep
  BY <1>10 DEF SyncStep, SyncWrite, SyncMove, SyncCommit, SyncCommitFails
<1>11. CASE UNCHANGED vars
  BY <1>11 DEF vars
<1>12. QED
  BY <1>1, <1>2, <1>3, <1>4, <1>5, <1>6, <1>7, <1>8, <1>9, <1>10, <1>11, ArrivalType
     DEF Next, Serve, Run

\* A pass that dies during the upload or in the queue writes nothing.
THEOREM DeadPassTheorem == Spec => []DeadPassWritesNothing
<1>1. Init => CutInv
  BY DEF Init, CutInv
<1>2. IInv /\ CutInv /\ [Next]_vars => CutInv'
  BY CutNext
<1>3. CutInv => DeadPassWritesNothing
  BY DEF CutInv, DeadPassWritesNothing
<1>4. QED
  BY <1>1, <1>2, <1>3, Invariance, PTL DEF Spec

\* The only steps that take a request from "commit" to its answer.
LEMMA CommitSteps ==
    ASSUME IInv, [Next]_vars, NEW c \in Client, pc[c] = "commit", pc'[c] = "respond"
    PROVE  GitCommit(c) \/ CommitFails(c)
<1> USE DEF store, server, ghosts
<1>0. pc \in [Client -> {"idle", "body", "queued"} \union Holding]
  BY DEF IInv, TypeOK
<1>1. ASSUME NEW d \in Client, NEW r \in Request, Arrive(d, r) PROVE FALSE
  BY <1>0, <1>1 DEF Arrive
<1>2. ASSUME NEW d \in Client, Serve(d) PROVE GitCommit(c) \/ CommitFails(c)
  <2>1. CASE d = c
    BY <1>0, <1>2, <2>1 DEF Serve, Run, BodyIn, Acquire, CheckPasses, CheckRefuses, Truncate,
       Fill, FillFails, Unlink, GitAdd, AddFails, Respond, Release
  <2>2. CASE d # c
    <3>1. pc'[c] = pc[c]
      BY <1>0, <1>2, <2>2 DEF Serve, Run, BodyIn, Acquire, CheckPasses, CheckRefuses, Truncate,
         Fill, FillFails, Unlink, GitAdd, AddFails, GitCommit, CommitFails, Respond, Release
    <3>2. QED
      BY <3>1
  <2>3. QED
    BY <2>1, <2>2
<1>3. ASSUME NEW d \in PassClient, RevokePass(d) \/ IssuePass(d) PROVE FALSE
  BY <1>3 DEF RevokePass, IssuePass
<1>4. CASE SetReadonly \/ ClearReadonly \/ Crash \/ Start \/ Age
  BY <1>4 DEF SetReadonly, ClearReadonly, Crash, Start, Age
<1>5. ASSUME NEW n \in Managed, NEW v \in Content, SyncStart(n, v) PROVE FALSE
  BY <1>5 DEF SyncStart
<1>6. ~SyncStep
  BY DEF SyncStep, SyncWrite, SyncMove, SyncCommit, SyncCommitFails
<1>7. ~UNCHANGED vars
  BY DEF vars
<1>8. QED
  BY <1>1, <1>2, <1>3, <1>4, <1>5, <1>6, <1>7, ArrivalType DEF Next

\* A request's commit changes its own file, and otherwise only files whose
\* missing commit was reported before.
THEOREM CommitTheorem == Spec => CommitNamesItsChange
<1>1. ASSUME IInv, [Next]_vars, NEW c \in Client, pc[c] = "commit", pc'[c] = "respond",
             NEW n \in Served, head'[n] # head[n]
      PROVE  n = req[c].name \/ n \in warned
  <2>1. head' = index
    BY <1>1, CommitSteps DEF GitCommit, CommitFails
  <2>2. file[n] # head[n]
    BY <1>1, <2>1 DEF IInv, WrittenInv
  <2>3. PICK d \in Client : n \in warned \/ (pc[d] \in OnDisk /\ req[d].name = n)
    BY <1>1, <2>2 DEF IInv, HistoryLossReported
  <2>4. CASE pc[d] \in OnDisk
    BY <1>1, <2>3, <2>4 DEF IInv, LockInv, OnDisk, Holding
  <2>5. QED
    BY <2>3, <2>4
<1>2. IInv /\ [Next]_vars =>
        [\A c \in Client : (pc[c] = "commit" /\ pc'[c] = "respond" /\ head' # head) =>
            \A n \in Served : head'[n] # head[n] => n = req[c].name \/ n \in warned]_vars
  BY <1>1
<1>3. QED
  BY <1>2, Invariance, PTL DEF Spec, CommitNamesItsChange

\* The only steps that bring a client's file into being.
LEMMA CreationSteps ==
    ASSUME IInv, [Next]_vars, NEW n \in NeedsRoster, file[n] = Absent, file'[n] # Absent
    PROVE  \E c \in Client : Truncate(c) /\ req[c].name = n
<1> USE DEF store, server, ghosts
<1>0. /\ file \in [Name -> Stored] /\ n \in Name
      /\ n \notin Managed \union {SyncTmp}
  BY NameAssumption DEF IInv, TypeOK
<1>1. ASSUME NEW d \in Client, NEW r \in Request, Arrive(d, r) PROVE FALSE
  BY <1>1 DEF Arrive
<1>2. ASSUME NEW d \in Client, Serve(d) PROVE Truncate(d) /\ req[d].name = n
  <2>1. CASE Truncate(d)
    BY <1>0, <2>1 DEF Truncate
  <2>2. CASE Fill(d)
    <3>1. file[req[d].name] # Absent
      BY <2>2, ContentAssumption DEF Fill, IInv, WrittenInv
    <3>2. file'[n] = file[n]
      BY <1>0, <2>2, <3>1 DEF Fill
    <3>3. QED
      BY <3>2
  <2>3. CASE Unlink(d)
    BY <1>0, <2>3 DEF Unlink
  <2>4. CASE \/ BodyIn(d) \/ Acquire(d) \/ CheckPasses(d) \/ CheckRefuses(d)
             \/ FillFails(d) \/ GitAdd(d) \/ AddFails(d) \/ GitCommit(d)
             \/ CommitFails(d) \/ Respond(d)
    BY <2>4 DEF BodyIn, Acquire, CheckPasses, CheckRefuses, FillFails, GitAdd, AddFails,
       GitCommit, CommitFails, Respond
  <2>5. QED
    BY <1>2, <2>1, <2>2, <2>3, <2>4 DEF Serve, Run
<1>3. ASSUME NEW d \in PassClient, RevokePass(d) \/ IssuePass(d) PROVE FALSE
  BY <1>3 DEF RevokePass, IssuePass
<1>4. CASE SetReadonly \/ ClearReadonly \/ Crash \/ Start \/ Age
  BY <1>4 DEF SetReadonly, ClearReadonly, Crash, Start, Age
<1>5. ASSUME NEW m \in Managed, NEW v \in Content, SyncStart(m, v) PROVE FALSE
  BY <1>5 DEF SyncStart
<1>6. CASE SyncStep
  BY <1>0, <1>6 DEF SyncStep, SyncWrite, SyncMove, SyncCommit, SyncCommitFails,
     IInv, SyncInv
<1>7. ~UNCHANGED vars
  BY DEF vars
<1>8. QED
  BY <1>1, <1>2, <1>3, <1>4, <1>5, <1>6, <1>7, ArrivalType DEF Next

\* A category is created only while the roster lists it.
THEOREM RosterTheorem == Spec => CreatedOnlyIfRostered
<1>1. ASSUME IInv, [Next]_vars, NEW n \in NeedsRoster, file[n] = Absent, file'[n] # Absent
      PROVE  RosterAllows(n)
  <2>1. PICK c \in Client : Truncate(c) /\ req[c].name = n
    BY <1>1, CreationSteps
  <2>2. QED
    BY <1>1, <2>1 DEF Truncate, IInv, CheckedInv
<1>2. IInv /\ [Next]_vars =>
        [\A n \in NeedsRoster : (file[n] = Absent /\ file'[n] # Absent) => RosterAllows(n)]_vars
  BY <1>1
<1>3. QED
  BY <1>2, Invariance, PTL DEF Spec, CreatedOnlyIfRostered
=============================================================================
