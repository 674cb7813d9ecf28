------------------------ MODULE VaultRefinementProofs ------------------------
(***************************************************************************)
(* The write path implements AtomicVault: every accepted write replaces,   *)
(* at one instant, the very content its precondition names.                *)
(***************************************************************************)
EXTENDS VaultStoreProofs

Cells == [n \in Name |-> CellOf(n)]
Asks  == [c \in Client |-> AskOf(c)]

\* While nobody fills a file, clients agree on what is on disk.
LEMMA QuietCells ==
    ASSUME \A c \in Client : pc[c] # "fill", NEW n
    PROVE  CellOf(n) = file[n]
  BY DEF CellOf

\* While c fills its file, that file already counts as written.
LEMMA FillingCells ==
    ASSUME IInv, NEW c \in Client, pc[c] = "fill", NEW n
    PROVE  CellOf(n) = IF n = req[c].name THEN job.new ELSE file[n]
<1>1. \A d \in Client : pc[d] = "fill" => d = c
  BY DEF IInv, LockInv, Holding
<1>2. QED
  BY <1>1 DEF CellOf

\* No step but those of the file's holder and the sync changes what clients see.
LEMMA SameCells ==
    ASSUME TypeOK, UNCHANGED file,
           \A c \in Client : pc'[c] = "fill" <=> pc[c] = "fill",
           \A c \in Client : pc[c] = "fill" => req'[c] = req[c] /\ job' = job
    PROVE  UNCHANGED Cells
<1>1. \A n \in Name : CellOf(n)' = CellOf(n)
  BY DEF CellOf
<1>2. QED
  BY <1>1 DEF Cells

\* A request's abstract state depends on its pc and its contents.
LEMMA SameAsks ==
    ASSUME \A c \in Client :
              /\ (pc'[c] = "idle") = (pc[c] = "idle")
              /\ (pc'[c] \in OnDisk) = (pc[c] \in OnDisk)
              /\ pc[c] # "idle" => req'[c] = req[c]
    PROVE  UNCHANGED Asks
<1>1. \A c \in Client : AskOf(c)' = AskOf(c)
  BY DEF AskOf
<1>2. QED
  BY <1>1 DEF Asks

\* Initially the register holds what is on disk, and nobody asks for anything.
LEMMA InitRefines ==
    ASSUME Init
    PROVE  Abstract!AInit
<1>1. file \in [Name -> Stored]
  BY DEF Init
<1>2. \A n \in Name : CellOf(n) = file[n]
  BY QuietCells DEF Init
<1>3. Cells \in [Name -> Stored]
  BY <1>1, <1>2 DEF Cells
<1>4. \A c \in Client : AskOf(c) = [state |-> "none"]
  BY DEF Init, AskOf
<1>5. QED
  BY <1>3, <1>4 DEF Abstract!AInit, Abstract!Stored, Stored, Abstract!NoAsk, Cells

\* The two abstract variables, by name.
Stutters == UNCHANGED Cells /\ UNCHANGED Asks

LEMMA StutterRefines ==
    ASSUME Stutters
    PROVE  UNCHANGED Abstract!avars
  BY DEF Stutters, Abstract!avars, Cells, Asks

\* A request that arrives asks for something.
LEMMA ArriveRefines ==
    ASSUME IInv, NEW c \in Client, NEW n \in Served, NEW e \in Edit, NEW m \in Match,
           Arrive(c, [name |-> n, edit |-> e, match |-> m])
    PROVE  Abstract!Submit(c)
<1> DEFINE r == [name |-> n, edit |-> e, match |-> m]
<1>0. TypeOK /\ n \in Name
  BY DEF IInv, Served
<1>1. \A d \in Client : d # c => pc'[d] = pc[d] /\ req'[d] = req[d]
  BY <1>0 DEF Arrive, TypeOK
<1>2. pc[c] = "idle" /\ pc'[c] = "body" /\ req'[c] = r
  BY <1>0 DEF Arrive, TypeOK
<1>3. UNCHANGED Cells
  BY <1>0, <1>1, <1>2, SameCells DEF Arrive, store
<1>4. AskOf(c) = [state |-> "none"]
  BY <1>2 DEF AskOf
<1>5. AskOf(c)' = [state |-> "open", name |-> n, edit |-> e, match |-> m]
  BY <1>2 DEF AskOf, OnDisk
<1>6. \A d \in Client : d # c => AskOf(d)' = AskOf(d)
  BY <1>1 DEF AskOf
<1>7. Asks' = [Asks EXCEPT ![c] = [state |-> "open", name |-> n, edit |-> e, match |-> m]]
  BY <1>5, <1>6 DEF Asks
<1>8. QED
  BY <1>0, <1>3, <1>4, <1>7 DEF Abstract!Submit, Abstract!NoAsk, Cells, Asks

\* The answer to a request that wrote nothing, or that wrote all it had.
LEMMA AnswerRefines ==
    ASSUME IInv, NEW c \in Client, CheckRefuses(c) \/ Respond(c)
    PROVE  Abstract!Answer(c)
<1>0. TypeOK
  BY DEF IInv
<1>1. \A d \in Client : d # c => pc'[d] = pc[d] /\ req'[d] = req[d]
  BY <1>0 DEF CheckRefuses, Respond, Release, TypeOK
<1>2. pc[c] # "idle" /\ pc[c] # "fill" /\ pc'[c] = "idle"
  BY <1>0 DEF CheckRefuses, Respond, Release, TypeOK
<1>3. \A d \in Client : pc[d] # "fill"
  BY <1>2 DEF IInv, LockInv, Holding, CheckRefuses, Respond
<1>4. \A d \in Client : pc'[d] # "fill"
  BY <1>1, <1>2, <1>3
<1>5. UNCHANGED Cells
  BY <1>0, <1>3, <1>4, SameCells DEF CheckRefuses, Respond, store
<1>6. AskOf(c)' = [state |-> "none"]
  BY <1>2 DEF AskOf
<1>7. \A d \in Client : d # c => AskOf(d)' = AskOf(d)
  BY <1>1 DEF AskOf
<1>8. Asks' = [Asks EXCEPT ![c] = [state |-> "none"]]
  BY <1>6, <1>7 DEF Asks
<1>9. Asks[c] # [state |-> "none"]
  BY <1>2 DEF Asks, AskOf
<1>10. QED
  BY <1>5, <1>8, <1>9 DEF Abstract!Answer, Abstract!NoAsk, Cells, Asks

\* A write takes effect as its file is emptied or unlinked, and what its
\* precondition was checked against is what it replaces.
LEMMA ApplyRefines ==
    ASSUME IInv, NEW c \in Client, Truncate(c) \/ Unlink(c)
    PROVE  Abstract!Apply(c)
<1> DEFINE n == req[c].name
           e == req[c].edit
           m == req[c].match
<1>0. TypeOK /\ pc[c] = "write" /\ pc \in [Client -> {"idle", "body", "queued"} \union Holding]
  BY DEF IInv, TypeOK, Truncate, Unlink
<1>1. n \in Served /\ n \in Name /\ req[c] \in Request
  BY <1>0, HolderFacts DEF Holding
<1>2. \A d \in Client : d # c => pc'[d] = pc[d]
  BY <1>0 DEF Truncate, Unlink
<1>3. pc'[c] \in {"fill", "add"} /\ req' = req /\ job' = job
  BY <1>0 DEF Truncate, Unlink
<1>4. \A d \in Client : d # c => pc[d] \notin Holding
  BY <1>0 DEF IInv, LockInv, Holding
<1>5. \A d \in Client : pc[d] # "fill"
  BY <1>0, <1>4 DEF Holding
<1>6. \A x : CellOf(x) = file[x]
  BY <1>5, QuietCells
<1>7. /\ Accepts(file[n], m)
      /\ job.new = Outcome(e, file[n])
      /\ job.new \in Stored
  BY <1>0 DEF IInv, CheckedInv, TypeOK
<1>8. \A x \in Name : CellOf(x)' = IF x = n THEN job.new ELSE file[x]
  <2>1. CASE Truncate(c)
    <3>1. pc'[c] = "fill" /\ file' = [file EXCEPT ![n] = Empty]
      BY <1>0, <2>1 DEF Truncate
    <3>2. \A d \in Client : pc'[d] = "fill" => d = c
      BY <1>2, <1>5
    <3>3. \A x \in Name : CellOf(x)' = IF x = n THEN job.new ELSE file'[x]
      BY <1>3, <3>1, <3>2 DEF CellOf
    <3>4. QED
      BY <1>0, <3>1, <3>3 DEF TypeOK
  <2>2. CASE Unlink(c)
    <3>1. pc'[c] = "add" /\ file' = [file EXCEPT ![n] = job.new]
      BY <1>0, <2>2 DEF Unlink
    <3>2. \A d \in Client : pc'[d] # "fill"
      BY <1>2, <1>5, <3>1
    <3>3. \A x \in Name : CellOf(x)' = file'[x]
      BY <3>2 DEF CellOf
    <3>4. QED
      BY <1>0, <3>1, <3>3 DEF TypeOK
  <2>3. QED
    BY <2>1, <2>2
<1>9. Cells' = [Cells EXCEPT ![n] = job.new]
  BY <1>1, <1>6, <1>8 DEF Cells
<1>10. AskOf(c) = [state |-> "open", name |-> n, edit |-> e, match |-> m]
  BY <1>0 DEF AskOf, OnDisk
<1>11. AskOf(c)' = [state |-> "done", name |-> n, edit |-> e, match |-> m]
  BY <1>3 DEF AskOf, OnDisk
<1>12. \A d \in Client : d # c => AskOf(d)' = AskOf(d)
  BY <1>2, <1>3 DEF AskOf
<1>13. Asks' = [Asks EXCEPT ![c].state = "done"]
  <2>1. [AskOf(c) EXCEPT !.state = "done"] = AskOf(c)'
    BY <1>10, <1>11
  <2>2. Asks[c] = AskOf(c)
    BY DEF Asks
  <2>3. Asks' = [Asks EXCEPT ![c] = [AskOf(c) EXCEPT !.state = "done"]]
    BY <1>12, <2>1 DEF Asks
  <2>4. QED
    BY <2>2, <2>3
<1>14. Asks[c] # [state |-> "none"] /\ Asks[c].state = "open" /\ Asks[c].name = n
       /\ Asks[c].edit = e /\ Asks[c].match = m /\ Cells[n] = file[n]
  BY <1>1, <1>6, <1>10 DEF Asks, Cells
<1>15. job.new # Refused
  BY <1>7, ContentAssumption DEF Stored
<1>16. QED
  BY <1>7, <1>9, <1>13, <1>14, <1>15 DEF Abstract!Apply, Abstract!NoAsk, Cells, Asks

\* A write that ran out of space leaves its file empty.
LEMMA SpoilRefines ==
    ASSUME IInv, NEW c \in Client, FillFails(c)
    PROVE  Abstract!Spoil(c)
<1> DEFINE n == req[c].name
<1>0. TypeOK /\ pc[c] = "fill" /\ pc \in [Client -> {"idle", "body", "queued"} \union Holding]
  BY DEF IInv, TypeOK, FillFails
<1>1. n \in Name
  BY <1>0, HolderFacts DEF Holding
<1>2. \A d \in Client : d # c => pc'[d] = pc[d] /\ req'[d] = req[d]
  BY <1>0 DEF FillFails, Release, TypeOK
<1>3. pc'[c] = "idle" /\ file' = file
  BY <1>0 DEF FillFails, Release, store
<1>4. \A d \in Client : pc'[d] # "fill"
  BY <1>0, <1>2, <1>3 DEF IInv, LockInv, Holding
<1>5. \A x \in Name : CellOf(x)' = file[x]
  BY <1>3, <1>4 DEF CellOf
<1>6. file[n] = Empty
  BY <1>0 DEF IInv, WrittenInv
<1>7. \A x \in Name : CellOf(x) = IF x = n THEN job.new ELSE file[x]
  BY <1>0, FillingCells
<1>8. Cells' = [Cells EXCEPT ![n] = Empty]
  BY <1>1, <1>5, <1>6, <1>7 DEF Cells
<1>9. AskOf(c) = [state |-> "done", name |-> n, edit |-> req[c].edit,
                  match |-> req[c].match]
  BY <1>0 DEF AskOf, OnDisk
<1>10. AskOf(c)' = [state |-> "none"]
  BY <1>3 DEF AskOf
<1>11. \A d \in Client : d # c => AskOf(d)' = AskOf(d)
  BY <1>2 DEF AskOf
<1>12. Asks' = [Asks EXCEPT ![c] = [state |-> "none"]]
  BY <1>10, <1>11 DEF Asks
<1>13. Asks[c] # [state |-> "none"] /\ Asks[c].state = "done" /\ Asks[c].name = n
  BY <1>9 DEF Asks
<1>14. QED
  BY <1>8, <1>12, <1>13 DEF Abstract!Spoil, Abstract!NoAsk, Cells, Asks

\* A crash answers nobody; a file it catches half written is left empty.
LEMMA DieRefines ==
    ASSUME IInv, Crash
    PROVE  Abstract!Die
<1>0. TypeOK
  BY DEF IInv
<1>1. \A d \in Client : pc'[d] = "idle"
  BY DEF Crash
<1>2. \A x \in Name : CellOf(x)' = file[x]
  BY <1>1 DEF CellOf, Crash
<1>3. Asks' = [c \in Client |-> [state |-> "none"]]
  BY <1>1 DEF Asks, AskOf
<1>4. CASE \A d \in Client : pc[d] # "fill"
  <2>1. UNCHANGED Cells
    BY <1>2, <1>4, QuietCells DEF Cells
  <2>2. QED
    BY <1>3, <2>1 DEF Abstract!Die, Abstract!NoAsk, Cells, Asks
<1>5. ASSUME NEW c \in Client, pc[c] = "fill"
      PROVE  Abstract!Die
  <2> DEFINE n == req[c].name
  <2>1. n \in Name /\ file[n] = Empty
    BY <1>5, HolderFacts DEF Holding, IInv, WrittenInv
  <2>2. \A x \in Name : CellOf(x) = IF x = n THEN job.new ELSE file[x]
    BY <1>5, FillingCells
  <2>3. Cells' = [Cells EXCEPT ![n] = Empty]
    BY <1>2, <2>1, <2>2 DEF Cells
  <2>4. AskOf(c) = [state |-> "done", name |-> n, edit |-> req[c].edit,
                    match |-> req[c].match]
    BY <1>5 DEF AskOf, OnDisk
  <2>5. Asks[c] # [state |-> "none"] /\ Asks[c].state = "done" /\ Asks[c].name = n
    BY <2>4 DEF Asks
  <2>6. QED
    BY <1>3, <2>3, <2>5 DEF Abstract!Die, Abstract!NoAsk, Cells, Asks
<1>6. QED
  BY <1>4, <1>5

\* The sync replaces files of its own.
LEMMA ReplaceRefines ==
    ASSUME IInv, SyncWrite \/ SyncMove
    PROVE  Abstract!Replace
<1> DEFINE Ext == Managed \union {SyncTmp}
<1>0. TypeOK /\ sync.pc # "idle"
  BY DEF IInv, SyncWrite, SyncMove
<1>1. sync.name \in Ext
  BY <1>0 DEF IInv, SyncInv
<1>2. pc' = pc /\ req' = req /\ job' = job
  BY DEF SyncWrite, SyncMove, server
<1>3. \A x \in Name \ Ext : file'[x] = file[x]
  BY <1>0, <1>1 DEF SyncWrite, SyncMove, TypeOK
<1>4. file' \in [Name -> Stored] /\ job.new \in Stored
  <2>1. TypeOK'
    BY SyncWriteIInv, SyncMoveIInv DEF IInv
  <2>2. QED
    BY <1>0, <2>1 DEF TypeOK
<1>5. \A x \in Name \ Ext : CellOf(x)' = CellOf(x)
  BY <1>2, <1>3 DEF CellOf
<1>6. \A x \in Name : CellOf(x)' \in Stored
  BY <1>2, <1>4 DEF CellOf
<1>7. UNCHANGED Asks
  BY <1>2, SameAsks
<1>8. QED
  BY <1>5, <1>6, <1>7 DEF Abstract!Replace, Abstract!Stored, Stored, Cells, Asks

\* The remaining steps change nothing a client can see.
LEMMA HiddenRefines ==
    ASSUME IInv, NEW c \in Client,
           \/ BodyIn(c) \/ Acquire(c) \/ CheckPasses(c) \/ Fill(c) \/ GitAdd(c)
           \/ AddFails(c) \/ GitCommit(c) \/ CommitFails(c)
    PROVE  Stutters
<1>0. TypeOK /\ pc \in [Client -> {"idle", "body", "queued"} \union Holding]
  BY DEF IInv, TypeOK
<1> USE DEF BodyIn, Acquire, CheckPasses, Fill, GitAdd, AddFails, GitCommit, CommitFails,
            store, ghosts
<1>1. \A d \in Client : d # c => pc'[d] = pc[d]
  BY <1>0
<1>2. /\ pc[c] # "idle" /\ pc'[c] # "idle"
      /\ (pc'[c] \in OnDisk) = (pc[c] \in OnDisk)
  BY <1>0 DEF OnDisk, IInv, LockInv, TypeOK
<1>3. UNCHANGED Asks
  BY <1>1, <1>2, SameAsks
<1>4. CASE Fill(c)
  <2>1. \A d \in Client : pc'[d] # "fill"
    BY <1>0, <1>4 DEF IInv, LockInv, Holding
  <2>2. file' = [file EXCEPT ![req[c].name] = job.new]
    BY <1>4
  <2>3. \A x \in Name : CellOf(x)' = file'[x]
    BY <2>1 DEF CellOf
  <2>4. \A x \in Name : CellOf(x) = IF x = req[c].name THEN job.new ELSE file[x]
    BY <1>4, FillingCells
  <2>5. \A x \in Name : CellOf(x)' = CellOf(x)
    BY <1>0, <2>2, <2>3, <2>4 DEF TypeOK
  <2>6. QED
    BY <1>3, <2>5 DEF Stutters, Cells
<1>5. CASE \/ BodyIn(c) \/ Acquire(c) \/ CheckPasses(c) \/ GitAdd(c)
           \/ AddFails(c) \/ GitCommit(c) \/ CommitFails(c)
  <2>0. UNCHANGED file /\ UNCHANGED req
    BY <1>5
  <2>1. pc[c] # "fill" /\ pc'[c] # "fill"
    BY <1>0, <1>5, ClientAssumption DEF IInv, LockInv, Holding
  <2>2. UNCHANGED job \/ pc[c] \in Holding
    BY DEF Holding
  <2>3. \A d \in Client : pc[d] = "fill" => job' = job
    BY <2>1, <2>2 DEF IInv, LockInv, Holding
  <2>4. UNCHANGED Cells
    BY <1>0, <1>1, <2>0, <2>1, <2>3, SameCells
  <2>5. QED
    BY <1>3, <2>4 DEF Stutters
<1>6. QED
  BY <1>4, <1>5

\* Neither do the flag, the passes, a start, git's lock or the sync's commits.
LEMMA AroundRefines ==
    ASSUME UNCHANGED <<file, pc, req, job>>, TypeOK
    PROVE  Stutters
<1>1. UNCHANGED Asks
  BY SameAsks
<1>2. UNCHANGED Cells
  BY SameCells
<1>3. QED
  BY <1>1, <1>2 DEF Stutters

\* Every step of the vault is a step of the register, or none.
LEMMA NextRefines ==
    ASSUME IInv, [Next]_vars
    PROVE  [Abstract!ANext]_Abstract!avars
<1> USE DEF Abstract!ANext
<1>1. ASSUME NEW c \in Client, NEW n \in Served, NEW e \in Edit, NEW m \in Match,
             Arrive(c, [name |-> n, edit |-> e, match |-> m])
      PROVE  Abstract!ANext
  BY <1>1, ArriveRefines
<1>2. ASSUME NEW c \in Client, Serve(c)
      PROVE  Abstract!ANext \/ UNCHANGED Abstract!avars
  BY <1>2, AnswerRefines, ApplyRefines, SpoilRefines, HiddenRefines, StutterRefines DEF Serve, Run
<1>3. ASSUME NEW c \in PassClient, RevokePass(c) \/ IssuePass(c)
      PROVE  UNCHANGED Abstract!avars
  BY <1>3, AroundRefines, StutterRefines DEF IInv, RevokePass, IssuePass, store, server
<1>4. ASSUME NEW n \in Managed, NEW v \in Content, SyncStart(n, v)
      PROVE  UNCHANGED Abstract!avars
  BY <1>4, AroundRefines, StutterRefines DEF IInv, SyncStart, store, server
<1>5. CASE SyncStep
  <2>1. CASE SyncWrite \/ SyncMove
    BY <2>1, ReplaceRefines
  <2>2. CASE SyncCommit \/ SyncCommitFails
    BY <2>2, AroundRefines, StutterRefines DEF IInv, SyncCommit, SyncCommitFails, server
  <2>3. QED
    BY <1>5, <2>1, <2>2 DEF SyncStep
<1>6. CASE SetReadonly \/ ClearReadonly \/ Start \/ Age
  BY <1>6, AroundRefines, StutterRefines
     DEF IInv, SetReadonly, ClearReadonly, Start, Age, store, server
<1>7. CASE Crash
  BY <1>7, DieRefines
<1>8. CASE UNCHANGED vars
  BY <1>8, AroundRefines, StutterRefines DEF IInv, vars, store, server
<1>9. QED
  BY <1>1, <1>2, <1>3, <1>4, <1>5, <1>6, <1>7, <1>8 DEF Next

\* The write path implements the atomic register: no lost update, at any number
\* of clients, files and contents.
THEOREM Refinement == Spec => AtomicSpec
<1>1. Init => Abstract!AInit
  BY InitRefines
<1>2. IInv /\ [Next]_vars => [Abstract!ANext]_Abstract!avars
  BY NextRefines
<1>3. QED
  BY <1>1, <1>2, Invariance, PTL DEF Spec, AtomicSpec, Abstract!ASpec
=============================================================================
