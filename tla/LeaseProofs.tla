----------------------------- MODULE LeaseProofs -----------------------------
(***************************************************************************)
(* Proofs about Lease for any set of hosts and any number of commits.      *)
(***************************************************************************)
EXTENDS Lease, TLAPS

USE DEF Node

\* Every step leaves the state well typed: first what each action leaves in op.
LEMMA NoOpType == NoOp \in OpShape
  BY DEF NoOp, OpShape, Pc, History

LEMMA StartDnsType ==
  ASSUME NEW o \in OpShape, NEW g \in {"take", "recheck", "back"}
  PROVE  StartDns(o, g) \in OpShape
  BY DEF StartDns, OpShape, Pc, History

LEMMA AfterDnsPc ==
  ASSUME NEW b \in BOOLEAN
  PROVE  AfterDns(b) \in Pc
  BY DEF AfterDns, Pc

LEMMA HomeType == Home \in Node /\ To \in Node /\ Back \in Node
  BY DEF Home, To, Back, Other

LEMMA AfterStopType ==
  ASSUME TypeOK, NEW n \in Node
  PROVE  /\ AfterStop(n) \subseteq History
         /\ \A H \in AfterStop(n) : hist[n] \subseteq H
<1>1. {busy[n]} \ {NoCommit} \subseteq Commit
  BY CommitAssumption DEF TypeOK
<1>2. hist[n] \in History
  BY DEF TypeOK
<1>. QED  BY <1>1, <1>2 DEF AfterStop, History

LEMMA PushType ==
  ASSUME TypeOK, NEW n \in Node, NEW H \in History, NEW lost, Push(n, H, lost)
  PROVE  /\ store' \in [Remote -> History]
         /\ pushed' \in [Node -> SUBSET Remote]
         /\ \A r \in Remote : store[r] \subseteq store'[r]
<1>1. Taking(n, H, lost) \subseteq Remote /\ \A r \in Taking(n, H, lost) : store[r] \subseteq H
  BY DEF Taking, Asked, Refusing
<1>. QED  BY <1>1 DEF Push, TypeOK

LEMMA UnpushedType ==
  ASSUME TypeOK, NEW n \in Node, Unpushed(n)
  PROVE  pushed' \in [Node -> SUBSET Remote]
  BY DEF Unpushed, TypeOK

LEMMA FlagsType ==
  ASSUME TypeOK, NEW n \in Node, NEW H, NEW lost, Flags(n, H, lost)
  PROVE  flag' \in [Node -> {"none", "handback", "fence", "reject"}]
  BY DEF Flags, TypeOK

\* The initial state is well typed.
LEMMA InitType == Init => TypeOK
<1>. SUFFICES ASSUME Init PROVE TypeOK
  OBVIOUS
<1>1. {} \in History
  BY DEF History
<1>2. /\ hist \in [Node -> History] /\ store \in [Remote -> History] /\ synced \in History /\ late \in History
      /\ op \in OpShape
  BY <1>1, NoOpType DEF Init
<1>3. busy \in [Node -> Commit \union {NoCommit}]
  BY DEF Init
<1>4. /\ role \in [Node -> {"primary", "standby", "fenced"}]
      /\ unit \in [Node -> BOOLEAN]
      /\ flag \in [Node -> {"none", "handback", "fence", "reject"}]
      /\ pushed \in [Node -> SUBSET Remote]
      /\ dns \in [Host -> Node] /\ routes \in [Host -> SUBSET Node]
      /\ {updater, online, forced, whole} \subseteq BOOLEAN
  BY DEF Init
<1>. QED  BY <1>2, <1>3, <1>4 DEF TypeOK

\* The nodes' own steps keep the types.
LEMMA NodeStepType ==
  ASSUME TypeOK, NEW n \in Node, NodeStep(n)
  PROVE  TypeOK'
<1>1. CASE WriteStart(n)
  <2>1. PICK c \in Commit : busy' = [busy EXCEPT ![n] = c]
    BY <1>1 DEF WriteStart, Fresh
  <2>2. busy' \in [Node -> Commit \union {NoCommit}]
    BY <2>1 DEF TypeOK
  <2>. QED  BY <1>1, <2>2 DEF WriteStart, TypeOK, trees, edge, marks
<1>2. CASE WriteCommit(n)
  <2>1. hist[n] \union {busy[n]} \in History
    BY <1>2, CommitAssumption DEF WriteCommit, TypeOK, History
  <2>. QED  BY <1>2, <2>1, CommitAssumption DEF WriteCommit, TypeOK, edge, marks
<1>3. CASE SyncCommits(n)
  <2>1. PICK c \in Commit :
           /\ hist' = [hist EXCEPT ![n] = @ \union {c}]
           /\ synced' \in {synced, synced \union {c}}
    BY <1>3 DEF SyncCommits, Fresh
  <2>2. /\ hist[n] \union {c} \in History
        /\ synced \union {c} \in History
    BY <2>1 DEF TypeOK, History
  <2>. QED  BY <1>3, <2>1, <2>2 DEF SyncCommits, TypeOK, lease, edge
<1>4. ASSUME NEW lost \in SUBSET Remote, PushTimer(n, lost) PROVE TypeOK'
  <2>1. /\ store' \in [Remote -> History]
        /\ pushed' \in [Node -> SUBSET Remote]
    BY <1>4, PushType DEF PushTimer, TypeOK
  <2>2. flag' \in [Node -> {"none", "handback", "fence", "reject"}]
    BY <1>4, FlagsType DEF PushTimer
  <2>. QED  BY <1>4, <2>1, <2>2 DEF PushTimer, TypeOK, edge, marks
<1>5. CASE PersonClears(n)
  BY <1>5 DEF PersonClears, TypeOK, trees, edge, marks
<1>6. CASE Reboot(n)
  BY <1>6, NoOpType, CommitAssumption DEF Reboot, TypeOK, trees, edge, marks
<1>. QED  BY <1>1, <1>2, <1>3, <1>4, <1>5, <1>6 DEF NodeStep

\* So do fence_self ...
LEMMA FenceSelfType ==
  ASSUME TypeOK, NEW n \in Node, FenceSelf(n)
  PROVE  TypeOK'
<1>1. PICK H \in AfterStop(n) : hist' = [hist EXCEPT ![n] = H]
  BY DEF FenceSelf
<1>2. H \in History
  BY <1>1, AfterStopType
<1>3. hist' \in [Node -> History] /\ pushed' \in [Node -> SUBSET Remote]
  BY <1>1, <1>2, UnpushedType DEF FenceSelf, TypeOK
<1>4. /\ busy' \in [Node -> Commit \union {NoCommit}]
      /\ unit' \in [Node -> BOOLEAN]
  BY CommitAssumption DEF FenceSelf, Stop, TypeOK
<1>5. /\ role' \in [Node -> {"primary", "standby", "fenced"}]
      /\ flag' \in [Node -> {"none", "handback", "fence", "reject"}]
      /\ forced' \in BOOLEAN
      /\ UNCHANGED <<store, updater, edge, online, op, whole, synced, late>>
  BY DEF FenceSelf, TypeOK
<1>. QED  BY <1>3, <1>4, <1>5 DEF TypeOK, edge

\* ... and the steps of the surroundings.
LEMMA AroundType ==
  ASSUME TypeOK,
         \/ ForeignPush \/ Update \/ HeartbeatPublic \/ HeartbeatPeer
         \/ \E h \in Host : EdgeSettles(h)
         \/ Isolate \/ Reconnect \/ ScriptDies
  PROVE  TypeOK'
<1>1. CASE ForeignPush
  <2>1. PICK c \in Commit :
              store' = [store EXCEPT !["gh"] = @ \union {c}]
    BY <1>1 DEF ForeignPush, Fresh
  <2>2. store["gh"] \union {c} \in History
    BY <2>1 DEF TypeOK, History, Remote
  <2>. QED  BY <1>1, <2>1, <2>2 DEF ForeignPush, TypeOK, lease, edge, marks
<1>2. CASE Update
  <2>1. pushed' \in [Node -> SUBSET Remote]
    BY <1>2, UnpushedType DEF Update
  <2>. QED  BY <1>2, <2>1 DEF Update, FastForward, TypeOK, lease, edge, marks, Remote
<1>3. CASE HeartbeatPublic \/ HeartbeatPeer
  BY <1>3, FenceSelfType DEF HeartbeatPublic, HeartbeatPeer
<1>4. ASSUME NEW h \in Host, EdgeSettles(h) PROVE TypeOK'
  BY <1>4 DEF EdgeSettles, TypeOK, lease, trees, marks
<1>5. CASE Isolate \/ Reconnect
  BY <1>5 DEF Isolate, Reconnect, TypeOK, lease, trees, edge, marks
<1>6. CASE ScriptDies
  BY <1>6, NoOpType DEF ScriptDies, TypeOK, lease, trees, edge, marks
<1>. QED  BY <1>1, <1>2, <1>3, <1>4, <1>5, <1>6

\* A step that only moves a script's program counter keeps op well typed.
LEMMA GotoType ==
  ASSUME op \in OpShape, NEW p \in Pc, Goto(p)
  PROVE  op' \in OpShape
  BY DEF OpShape, Goto

\* dns_point_all keeps the types.
LEMMA PointType ==
  ASSUME TypeOK, NEW h \in Host, NEW n \in Node, Point(h, n) \/ UNCHANGED edge
  PROVE  dns' \in [Host -> Node] /\ routes' \in [Host -> SUBSET Node]
<1>1. CASE Point(h, n)
  BY <1>1 DEF Point, TypeOK
<1>2. CASE UNCHANGED edge
  BY <1>2 DEF TypeOK, edge
<1>. QED  BY <1>1, <1>2

LEMMA LoopOpType ==
  ASSUME op \in OpShape, NEW p \in Pc, NEW t \in SUBSET Host, NEW c \in BOOLEAN
  PROVE  [op EXCEPT !.todo = t, !.clean = c, !.pc = p] \in OpShape
  BY DEF OpShape

LEMMA DnsType ==
  ASSUME TypeOK, NEW h \in Host, DnsStep(h) \/ RollbackStep(h)
  PROVE  TypeOK'
<1>0. op \in OpShape /\ "dns" \in Pc /\ "rollback" \in Pc
  BY DEF TypeOK, Pc
<1>. USE <1>0
<1>1. CASE DnsStep(h)
  <2>1. Point(h, To) \/ UNCHANGED edge
    BY <1>1 DEF DnsStep
  <2>2. op' \in OpShape
    <3>1. CASE op' = [op EXCEPT !.todo = op.todo \ {h},
                                !.pc = IF op.todo = {h} THEN AfterDns(TRUE) ELSE op.pc]
      BY <3>1, AfterDnsPc DEF OpShape
    <3>2. CASE op' = [op EXCEPT !.todo = Host, !.pc = "rollback"]
      BY <3>2 DEF OpShape
    <3>. QED  BY <1>1, <3>1, <3>2 DEF DnsStep
  <2>3. whole' \in BOOLEAN
    BY <1>1 DEF DnsStep
  <2>. QED  BY <1>1, <2>1, <2>2, <2>3, PointType, HomeType DEF DnsStep, TypeOK, lease, trees
<1>2. CASE RollbackStep(h)
  <2>1. PICK ok \in BOOLEAN :
          /\ IF ok THEN Point(h, Back) ELSE UNCHANGED edge
          /\ op' = [op EXCEPT !.todo = op.todo \ {h}, !.clean = op.clean /\ ok,
                              !.pc = IF op.todo = {h} THEN AfterDns(FALSE) ELSE op.pc]
          /\ whole' = (op.todo = {h} /\ op.clean /\ ok)
    BY <1>2 DEF RollbackStep
  <2>2. Point(h, Back) \/ UNCHANGED edge
    BY <2>1
  <2>3. op' \in OpShape
    <3>1. /\ op.todo \ {h} \in SUBSET Host
          /\ (IF op.todo = {h} THEN AfterDns(FALSE) ELSE op.pc) \in Pc
      BY AfterDnsPc DEF OpShape
    <3>2. (op.clean /\ ok) \in BOOLEAN
      OBVIOUS
    <3>. QED  BY <2>1, <3>1, <3>2, LoopOpType
  <2>4. whole' \in BOOLEAN
    BY <2>1
  <2>5. UNCHANGED <<lease, trees, updater, online, forced, synced, late>>
    BY <1>2, Zenon DEF RollbackStep
  <2>6. dns' \in [Host -> Node] /\ routes' \in [Host -> SUBSET Node]
    BY <2>2, PointType, HomeType
  <2>. QED  BY <2>3, <2>4, <2>5, <2>6 DEF TypeOK, lease, trees
<1>. QED  BY <1>1, <1>2

\* The steps of mem-promote-nl keep the types.
LEMMA PromoteType ==
  ASSUME TypeOK, Promote
  PROVE  TypeOK'
<1>0. op \in OpShape /\ {"ask", "fence", "compare", "updater", "abort", "aborted"} \subseteq Pc
  BY DEF TypeOK, Pc
<1>1. CASE PromoteStart
  <2>1. [NoOp EXCEPT !.script = "promote", !.pc = "ask"] \in OpShape
    BY NoOpType, <1>0 DEF OpShape
  <2>2. op' \in OpShape
    BY <1>1, <2>1, StartDnsType DEF PromoteStart
  <2>. QED  BY <1>1, <2>2 DEF PromoteStart, TypeOK, lease, trees, edge, marks
<1>2. CASE PromoteAsk
  <2>1. CASE op' = [op EXCEPT !.pr = role["tw"],
                              !.pc = IF role["tw"] = "primary" THEN "fence" ELSE "updater"]
    <3>1. role["tw"] \in {"none", "primary", "standby", "fenced"}
      BY DEF TypeOK
    <3>. QED  BY <1>0, <1>2, <2>1, <3>1 DEF PromoteAsk, TypeOK, OpShape, lease, trees, edge, marks
  <2>2. CASE Goto("abort") \/ Goto("updater")
    <3>1. op' \in OpShape
      BY <1>0, <2>2, GotoType
    <3>. QED  BY <1>2, <3>1 DEF PromoteAsk, TypeOK, lease, trees, edge, marks
  <2>. QED  BY <1>2, <2>1, <2>2 DEF PromoteAsk
<1>3. CASE PromoteFence
  <2>0. UNCHANGED <<updater, edge, online>>
    BY <1>3 DEF PromoteFence
  <2>1. CASE Goto("abort") /\ UNCHANGED <<lease, trees, marks>>
    <3>1. op' \in OpShape
      BY <1>0, <2>1, GotoType
    <3>. QED  BY <2>0, <2>1, <3>1 DEF TypeOK, lease, trees, edge, marks
  <2>2. CASE /\ op' = [op EXCEPT !.pc = "compare", !.fenced = TRUE, !.want = hist["tw"]]
             /\ UNCHANGED <<lease, trees, marks>>
    <3>1. hist["tw"] \in History
      BY DEF TypeOK
    <3>2. op' \in OpShape
      BY <1>0, <2>2, <3>1 DEF OpShape
    <3>. QED  BY <2>0, <2>2, <3>2 DEF TypeOK, lease, trees, edge, marks
  <2>3. CASE \E H \in AfterStop("tw"), lost \in Losses("tw") :
                /\ hist' = [hist EXCEPT !["tw"] = H]
                /\ Push("tw", H, lost)
                /\ \/ op' = [op EXCEPT !.pc = "compare", !.fenced = TRUE, !.want = H]
                   \/ Goto("abort")
                /\ Stop("tw")
                /\ role' = [role EXCEPT !["tw"] = "fenced"]
                /\ flag' = [flag EXCEPT !["tw"] = "fence"]
                /\ UNCHANGED marks
    <3>1. PICK H \in AfterStop("tw"), lost \in Losses("tw") :
                /\ hist' = [hist EXCEPT !["tw"] = H]
                /\ Push("tw", H, lost)
                /\ \/ op' = [op EXCEPT !.pc = "compare", !.fenced = TRUE, !.want = H]
                   \/ Goto("abort")
                /\ Stop("tw")
                /\ role' = [role EXCEPT !["tw"] = "fenced"]
                /\ flag' = [flag EXCEPT !["tw"] = "fence"]
                /\ UNCHANGED marks
      BY <2>3
    <3>2. H \in History
      BY <3>1, AfterStopType
    <3>3. /\ store' \in [Remote -> History]
          /\ pushed' \in [Node -> SUBSET Remote]
      BY <3>1, <3>2, PushType
    <3>4. op' \in OpShape
      <4>1. CASE op' = [op EXCEPT !.pc = "compare", !.fenced = TRUE, !.want = H]
        BY <1>0, <3>2, <4>1 DEF OpShape
      <4>. QED  BY <1>0, <3>1, <4>1, GotoType
    <3>5. /\ hist' \in [Node -> History]
          /\ busy' \in [Node -> Commit \union {NoCommit}] /\ unit' \in [Node -> BOOLEAN]
          /\ role' \in [Node -> {"primary", "standby", "fenced"}]
          /\ flag' \in [Node -> {"none", "handback", "fence", "reject"}]
      BY <3>1, <3>2, CommitAssumption DEF Stop, TypeOK
    <3>. QED  BY <2>0, <3>1, <3>3, <3>4, <3>5 DEF TypeOK, edge, marks
  <2>. QED  BY <1>3, <2>1, <2>2, <2>3 DEF PromoteFence
<1>4. CASE PromoteCompare
  <2>1. op' \in OpShape
    BY <1>0, <1>4, GotoType DEF PromoteCompare
  <2>. QED  BY <1>4, <2>1 DEF PromoteCompare, TypeOK, lease, trees, edge, marks
<1>5. CASE PromoteUpdater
  <2>1. op' \in OpShape
    BY <1>0, <1>5, GotoType, StartDnsType DEF PromoteUpdater
  <2>2. /\ hist' \in [Node -> History] /\ store' = store
        /\ pushed' \in [Node -> SUBSET Remote]
    BY <1>5, UnpushedType DEF PromoteUpdater, FastForward, TypeOK, trees, Remote
  <2>3. updater' = FALSE /\ UNCHANGED <<lease, edge, online, marks>>
    BY <1>5 DEF PromoteUpdater
  <2>. QED  BY <2>1, <2>2, <2>3 DEF TypeOK, lease, edge, marks
<1>6. CASE PromoteAbort
  <2>1. op' \in OpShape
    BY <1>6, NoOpType DEF PromoteAbort
  <2>2. /\ busy' = busy /\ unit' \in [Node -> BOOLEAN]
        /\ role' \in [Node -> {"primary", "standby", "fenced"}]
        /\ flag' \in [Node -> {"none", "handback", "fence", "reject"}]
    <3>1. CASE UNCHANGED lease
      BY <3>1 DEF TypeOK, lease
    <3>2. CASE /\ role' = [role EXCEPT !["tw"] = "primary"]
               /\ flag' = [flag EXCEPT !["tw"] = "none"]
               /\ unit' = [unit EXCEPT !["tw"] = TRUE]
               /\ UNCHANGED busy
      BY <3>2 DEF TypeOK
    <3>. QED  BY <1>6, <3>1, <3>2 DEF PromoteAbort
  <2>. QED  BY <1>6, <2>1, <2>2 DEF PromoteAbort, TypeOK, trees, edge, marks
<1>. QED  BY <1>1, <1>2, <1>3, <1>4, <1>5, <1>6 DEF Promote

\* So do mem-handback-tw's ...
LEMMA HandbackType ==
  ASSUME TypeOK, Handback
  PROVE  TypeOK'
<1>0. /\ op \in OpShape
      /\ {"prepare", "drain", "final", "heads", "fetch", "abort", "aborted", "done"} \subseteq Pc
  BY DEF TypeOK, Pc
<1>1. CASE HandbackStart
  <2>1. /\ role["nl"] \in {"none", "primary", "standby", "fenced"}
        /\ hist["nl"] \in History
    BY DEF TypeOK
  <2> DEFINE o == [NoOp EXCEPT !.script = "handback", !.pr = role["nl"]]
  <2>2. o \in OpShape
    BY <2>1, NoOpType DEF OpShape
  <2> HIDE DEF o
  <2>3. [o EXCEPT !.pc = "prepare"] \in OpShape
    BY <1>0, <2>2 DEF OpShape
  <2>4. [o EXCEPT !.pc = "fetch", !.want = hist["nl"]] \in OpShape
    BY <1>0, <2>1, <2>2 DEF OpShape
  <2>5. StartDns(o, "recheck") \in OpShape
    BY <2>2, StartDnsType
  <2>6. op' \in {StartDns(o, "recheck"), [o EXCEPT !.pc = "prepare"],
                 [o EXCEPT !.pc = "fetch", !.want = hist["nl"]]}
    BY <1>1 DEF HandbackStart, o
  <2>7. op' \in OpShape
    BY <2>3, <2>4, <2>5, <2>6
  <2>. QED  BY <1>1, <2>7 DEF HandbackStart, TypeOK, History, lease, trees, edge
<1>2. CASE HandbackPrepare
  <2>1. op' \in OpShape
    BY <1>0, <1>2, GotoType DEF HandbackPrepare
  <2>. QED  BY <1>2, <2>1 DEF HandbackPrepare, TypeOK, trees, edge, marks
<1>3. CASE HandbackDrain \/ HandbackFails
  <2>1. op' \in OpShape
    BY <1>0, <1>3, GotoType DEF HandbackDrain, HandbackFails
  <2>2. late' \in History
    BY <1>3 DEF HandbackDrain, HandbackFails, TypeOK, History, marks
  <2>. QED  BY <1>3, <2>1, <2>2 DEF HandbackDrain, HandbackFails, TypeOK, lease, trees, edge, marks
<1>4. ASSUME NEW lost \in SUBSET Remote, HandbackFinal(lost) PROVE TypeOK'
  <2>1. op' \in OpShape
    BY <1>0, <1>4, GotoType DEF HandbackFinal
  <2>2. /\ store' \in [Remote -> History]
        /\ pushed' \in [Node -> SUBSET Remote]
    BY <1>4, PushType DEF HandbackFinal, TypeOK
  <2>3. flag' \in [Node -> {"none", "handback", "fence", "reject"}]
    BY <1>4, FlagsType DEF HandbackFinal
  <2>. QED  BY <1>4, <2>1, <2>2, <2>3 DEF HandbackFinal, TypeOK, edge, marks
<1>5. CASE HandbackHeads
  <2>1. hist["nl"] \in History
    BY DEF TypeOK
  <2>2. op' \in OpShape
    BY <1>0, <1>5, <2>1 DEF HandbackHeads, OpShape
  <2>. QED  BY <1>5, <2>2 DEF HandbackHeads, TypeOK, lease, trees, edge, marks
<1>6. CASE HandbackFetch
  <2>1. op' \in OpShape
    BY <1>0, <1>6, StartDnsType DEF HandbackFetch
  <2>2. hist' \in [Node -> History] /\ pushed' \in [Node -> SUBSET Remote]
    BY <1>6, UnpushedType DEF HandbackFetch, FastForward, TypeOK, Remote
  <2>. QED  BY <1>6, <2>1, <2>2 DEF HandbackFetch, TypeOK, lease, edge, marks
<1>7. CASE HandbackAbort
  <2>1. op' \in OpShape
    BY <1>0, <1>7, NoOpType, StartDnsType DEF HandbackAbort
  <2>2. flag' \in [Node -> {"none", "handback", "fence", "reject"}]
    BY <1>7 DEF HandbackAbort, TypeOK
  <2>. QED  BY <1>7, <2>1, <2>2 DEF HandbackAbort, TypeOK, trees, edge, marks
<1>8. CASE Release
  <2>0. op' \in OpShape /\ UNCHANGED <<edge, online, whole, synced, late>>
    BY <1>0, <1>8, GotoType DEF Release
  <2>1. CASE UNCHANGED <<lease, trees, updater, forced>>
    BY <2>0, <2>1 DEF TypeOK, lease, trees, edge
  <2>2. CASE /\ Stop("nl")
             /\ \E H \in AfterStop("nl") : hist' = [hist EXCEPT !["nl"] = H]
             /\ Unpushed("nl")
             /\ role' = [role EXCEPT !["nl"] = "standby"]
             /\ flag' = [flag EXCEPT !["nl"] = "none"]
             /\ updater' = TRUE /\ forced' = FALSE /\ UNCHANGED store
    <3>1. PICK H \in AfterStop("nl") : hist' = [hist EXCEPT !["nl"] = H]
      BY <2>2
    <3>2. H \in History
      BY AfterStopType
    <3>3. hist' \in [Node -> History] /\ pushed' \in [Node -> SUBSET Remote]
      BY <2>2, <3>1, <3>2, UnpushedType DEF TypeOK
    <3>4. /\ busy' \in [Node -> Commit \union {NoCommit}] /\ unit' \in [Node -> BOOLEAN]
          /\ role' \in [Node -> {"primary", "standby", "fenced"}]
          /\ flag' \in [Node -> {"none", "handback", "fence", "reject"}]
          /\ updater' = TRUE /\ forced' = FALSE /\ store' = store
      BY <2>2, CommitAssumption DEF Stop, TypeOK
    <3>. QED  BY <2>0, <3>3, <3>4 DEF TypeOK, edge
  <2>. QED  BY <1>8, <2>1, <2>2 DEF Release
<1>. QED  BY <1>1, <1>2, <1>3, <1>4, <1>5, <1>6, <1>7, <1>8 DEF Handback

\* ... and those that both end with.
LEMMA EndType ==
  ASSUME TypeOK, TakeRole \/ ClearFlags \/ StartUnits \/ OpEnds
  PROVE  TypeOK'
<1>0. op \in OpShape /\ {"flags", "units", "done", "release"} \subseteq Pc
  BY DEF TypeOK, Pc
<1>1. CASE TakeRole
  <2>1. op' \in OpShape
    BY <1>0, <1>1, GotoType DEF TakeRole
  <2>2. role' \in [Node -> {"primary", "standby", "fenced"}] /\ forced' \in BOOLEAN
    BY <1>1, HomeType DEF TakeRole, TypeOK
  <2>. QED  BY <1>1, <2>1, <2>2 DEF TakeRole, TypeOK, trees, edge
<1>2. CASE ClearFlags
  <2>1. op' \in OpShape
    BY <1>0, <1>2, GotoType DEF ClearFlags
  <2>2. flag' \in [Node -> {"none", "handback", "fence", "reject"}]
    BY <1>2, HomeType DEF ClearFlags, TypeOK
  <2>. QED  BY <1>2, <2>1, <2>2 DEF ClearFlags, TypeOK, trees, edge, marks
<1>3. CASE StartUnits
  <2>1. op' \in OpShape
    BY <1>0, <1>3, NoOpType, GotoType DEF StartUnits, Goto
  <2>2. unit' \in [Node -> BOOLEAN]
    BY <1>3, HomeType DEF StartUnits, TypeOK
  <2>. QED  BY <1>3, <2>1, <2>2 DEF StartUnits, TypeOK, trees, edge, marks
<1>4. CASE OpEnds
  BY <1>4, NoOpType DEF OpEnds, TypeOK, lease, trees, edge, marks
<1>. QED  BY <1>1, <1>2, <1>3, <1>4

LEMMA TypeNext == TypeOK /\ [Next]_vars => TypeOK'
<1>. SUFFICES ASSUME TypeOK, [Next]_vars PROVE TypeOK'
  OBVIOUS
<1>1. CASE UNCHANGED vars
  BY <1>1 DEF vars, lease, trees, edge, marks, TypeOK
<1>2. CASE \E n \in Node : NodeStep(n)
  BY <1>2, NodeStepType
<1>3. CASE \/ ForeignPush \/ Update \/ HeartbeatPublic \/ HeartbeatPeer
           \/ \E h \in Host : EdgeSettles(h)
           \/ Isolate \/ Reconnect \/ ScriptDies
  BY <1>3, AroundType
<1>4. CASE Promote \/ Handback
  BY <1>4, PromoteType, HandbackType
<1>5. CASE \E h \in Host : DnsStep(h) \/ RollbackStep(h)
  BY <1>5, DnsType
<1>6. CASE TakeRole \/ ClearFlags \/ StartUnits \/ OpEnds
  BY <1>6, EndType
<1>. QED  BY <1>1, <1>2, <1>3, <1>4, <1>5, <1>6 DEF Next, Script

\* Every reachable state is well typed, for any set of hosts and any number of
\* commits: in particular a script is only ever at a place of its own code.
THEOREM LeaseTypeCorrect == Spec => []TypeOK
<1>1. Init => TypeOK
  BY InitType
<1>2. TypeOK /\ [Next]_vars => TypeOK'
  BY TypeNext
<1>. QED  BY <1>1, <1>2, PTL DEF Spec

(***************************************************************************)
(* The safety of Lease: LeaseInv is inductive, part by part, and what the  *)
(* scripts promise follows from it.                                        *)
(***************************************************************************)
\* The steps that leave the script alone.
Elsewhere ==
    \/ \E n \in Node : \/ WriteStart(n) \/ WriteCommit(n) \/ SyncCommits(n)
                       \/ \E lost \in SUBSET Remote : PushTimer(n, lost)
                       \/ PersonClears(n)
    \/ ForeignPush \/ Update \/ HeartbeatPublic \/ HeartbeatPeer
    \/ \E h \in Host : EdgeSettles(h)
    \/ Isolate \/ Reconnect

LEMMA ElsewhereOp == Elsewhere => op' = op
  BY DEF Elsewhere, WriteStart, WriteCommit, SyncCommits, PushTimer, PersonClears,
         ForeignPush, Update, HeartbeatPublic, HeartbeatPeer, FenceSelf, EdgeSettles,
         Isolate, Reconnect

\* A step is one of those, ends the script, or is one of its own.
LEMMA StepKinds ==
  ASSUME Next
  PROVE  \/ Elsewhere
         \/ \E n \in Node : Reboot(n)
         \/ ScriptDies \/ OpEnds
         \/ \E h \in Host : DnsStep(h) \/ RollbackStep(h)
         \/ TakeRole \/ ClearFlags \/ StartUnits
         \/ Promote \/ Handback
  BY DEF Next, NodeStep, Script, Elsewhere

\* A step of dns_point_all stays in the loop or leaves it the way AfterDns says.
LEMMA LoopStepOp ==
  ASSUME op \in OpShape, NEW h \in Host, DnsStep(h) \/ RollbackStep(h)
  PROVE  /\ op.pc \in {"dns", "rollback"}
         /\ op'.script = op.script /\ op'.go = op.go /\ op'.fenced = op.fenced
         /\ op'.pc \in {"dns", "rollback", AfterDns(TRUE), AfterDns(FALSE)}
<1>1. CASE DnsStep(h)
  <2>1. op.pc = "dns"
    BY <1>1 DEF DnsStep
  <2>2. CASE op' = [op EXCEPT !.todo = @ \ {h},
                              !.pc = IF op.todo = {h} THEN AfterDns(TRUE) ELSE @]
    BY <2>1, <2>2 DEF OpShape
  <2>3. CASE op' = [op EXCEPT !.todo = Host, !.pc = "rollback"]
    BY <2>1, <2>3, SMTT(30) DEF OpShape
  <2>. QED  BY <1>1, <2>2, <2>3 DEF DnsStep
<1>2. CASE RollbackStep(h)
  BY <1>2 DEF RollbackStep, OpShape
<1>. QED  BY <1>1, <1>2

\* Which place goes with which kind of run.
LEMMA ShapeNext ==
  ASSUME TypeOK, ScriptShape, Next
  PROVE  ScriptShape'
<1>0. op \in OpShape /\ NoOp.script = "none" /\ NoOp.pc = "idle" /\ NoOp.fenced = FALSE
  BY DEF TypeOK, NoOp
<1>. USE <1>0
<1>1. CASE Elsewhere
  BY <1>1, ElsewhereOp DEF ScriptShape
<1>2. CASE ScriptDies \/ OpEnds \/ \E n \in Node : Reboot(n)
  <2>1. op' = op \/ op' = NoOp
    BY <1>2 DEF ScriptDies, OpEnds, Reboot
  <2>. QED  BY <2>1 DEF ScriptShape, Asking
<1>4. ASSUME NEW h \in Host, DnsStep(h) \/ RollbackStep(h) PROVE ScriptShape'
  <2>1. op.pc \in {"dns", "rollback"} /\ op.script # "none"
    BY <1>4, LoopStepOp DEF ScriptShape
  <2>2. op'.pc \in Asking \union {"flags"} => op.go = "take"
    <3>1. op.go \in {"take", "recheck", "back"}
      BY DEF OpShape
    <3>. QED  BY <1>4, <3>1, LoopStepOp DEF AfterDns, Asking
  <2>3. op'.pc \notin {"ask", "fence"}
    BY <1>4, LoopStepOp DEF AfterDns
  <2>. QED  BY <1>4, <2>1, <2>2, <2>3, LoopStepOp DEF ScriptShape
<1>5. CASE TakeRole \/ ClearFlags \/ StartUnits
  BY <1>5 DEF TakeRole, ClearFlags, StartUnits, Goto, ScriptShape, Asking, OpShape, NoOp
<1>6. CASE Promote
  <2>1. CASE PromoteStart
    BY <2>1 DEF PromoteStart, StartDns, ScriptShape, Asking, NoOp
  <2>2. CASE PromoteAsk
    <3>1. CASE op' = [op EXCEPT !.pr = role["tw"],
                                !.pc = IF role["tw"] = "primary" THEN "fence" ELSE "updater"]
      BY <2>2, <3>1 DEF PromoteAsk, At, ScriptShape, Asking, OpShape, NoOp
    <3>2. CASE Goto("abort") \/ Goto("updater")
      BY <2>2, <3>2 DEF PromoteAsk, At, Goto, ScriptShape, Asking, OpShape, NoOp
    <3>. QED  BY <2>2, <3>1, <3>2 DEF PromoteAsk
  <2>3. CASE PromoteFence
    BY <2>3 DEF PromoteFence, At, Goto, ScriptShape, Asking, OpShape, NoOp
  <2>4. CASE PromoteCompare \/ PromoteAbort
    BY <2>4 DEF PromoteCompare, PromoteAbort, At, Goto, ScriptShape, Asking, OpShape, NoOp
  <2>5. CASE PromoteUpdater
    <3>1. op' = [op EXCEPT !.pc = "abort"] \/ op' = StartDns(op, "take")
      BY <2>5 DEF PromoteUpdater, Goto
    <3>2. op.script = "promote" /\ op.pc = "updater"
      BY <2>5 DEF PromoteUpdater, At
    <3>. QED  BY <3>1, <3>2 DEF StartDns, ScriptShape, Asking, OpShape, NoOp
  <2>. QED  BY <1>6, <2>1, <2>2, <2>3, <2>4, <2>5 DEF Promote
<1>7. CASE Handback
  <2>1. CASE HandbackStart
    BY <2>1 DEF HandbackStart, StartDns, ScriptShape, Asking, NoOp
  <2>2. CASE HandbackPrepare \/ HandbackDrain \/ HandbackHeads \/ HandbackFails
    BY <2>2 DEF HandbackPrepare, HandbackDrain, HandbackHeads, HandbackFails, At, Goto,
                ScriptShape, Asking, OpShape, NoOp
  <2>3. CASE \E lost \in SUBSET Remote : HandbackFinal(lost)
    BY <2>3 DEF HandbackFinal, At, Goto, ScriptShape, Asking, OpShape, NoOp
  <2>4. CASE HandbackFetch
    BY <2>4 DEF HandbackFetch, At, StartDns, ScriptShape, Asking, OpShape, NoOp
  <2>5. CASE HandbackAbort
    <3>1. /\ op.script = "handback" /\ op'.fenced = FALSE
          /\ op' = NoOp \/ (op'.script = "handback" /\ op'.pc = "dns")
      BY <2>5 DEF HandbackAbort, At, StartDns, OpShape, ScriptShape, NoOp
    <3>. QED  BY <3>1 DEF ScriptShape, Asking, NoOp
  <2>6. CASE Release
    BY <2>6 DEF Release, At, Goto, ScriptShape, Asking, OpShape, NoOp
  <2>. QED  BY <1>7, <2>1, <2>2, <2>3, <2>4, <2>5, <2>6 DEF Handback
<1>. QED  BY <1>1, <1>2, <1>4, <1>5, <1>6, <1>7, StepKinds

\* memgate: a unit runs only on a node that holds the lease.
LEMMA UnitsNext ==
  ASSUME TypeOK, UnitsHoldLease, Next
  PROVE  UnitsHoldLease'
<1>. USE DEF UnitsHoldLease, TypeOK
<1>1. CASE Elsewhere
  <2>1. ASSUME NEW n \in Node, WriteStart(n) PROVE UnitsHoldLease'
    BY <2>1, CommitAssumption DEF WriteStart, Accepts
  <2>2. ASSUME NEW n \in Node, WriteCommit(n) PROVE UnitsHoldLease'
    BY <2>2 DEF WriteCommit
  <2>3. ASSUME NEW n \in Node, SyncCommits(n) PROVE UnitsHoldLease'
    BY <2>3 DEF SyncCommits, lease
  <2>4. ASSUME NEW n \in Node, NEW lost \in SUBSET Remote, PushTimer(n, lost)
        PROVE  UnitsHoldLease'
    BY <2>4 DEF PushTimer
  <2>5. ASSUME NEW n \in Node, PersonClears(n) PROVE UnitsHoldLease'
    BY <2>5 DEF PersonClears
  <2>6. CASE HeartbeatPublic \/ HeartbeatPeer
    BY <2>6 DEF HeartbeatPublic, HeartbeatPeer, FenceSelf, Stop
  <2>7. CASE \/ ForeignPush \/ Update \/ Isolate \/ Reconnect
             \/ \E h \in Host : EdgeSettles(h)
    BY <2>7 DEF ForeignPush, Update, Isolate, Reconnect, EdgeSettles, lease
  <2>. QED  BY <1>1, <2>1, <2>2, <2>3, <2>4, <2>5, <2>6, <2>7 DEF Elsewhere
<1>2. ASSUME NEW n \in Node, Reboot(n) PROVE UnitsHoldLease'
  BY <1>2 DEF Reboot
<1>3. CASE \/ ScriptDies \/ OpEnds \/ ClearFlags
           \/ \E h \in Host : DnsStep(h) \/ RollbackStep(h)
  BY <1>3 DEF ScriptDies, OpEnds, ClearFlags, DnsStep, RollbackStep, lease
<1>4. CASE TakeRole \/ StartUnits
  BY <1>4, HomeType DEF TakeRole, StartUnits
<1>5. CASE Promote
  <2>1. CASE PromoteFence
    <3>1. CASE UNCHANGED lease
      BY <3>1 DEF lease
    <3>2. CASE Stop("tw") /\ role' = [role EXCEPT !["tw"] = "fenced"]
      BY <3>2 DEF Stop
    <3>. QED  BY <2>1, <3>1, <3>2 DEF PromoteFence
  <2>2. CASE PromoteAbort
    BY <2>2 DEF PromoteAbort, lease
  <2>3. CASE PromoteStart \/ PromoteAsk \/ PromoteCompare \/ PromoteUpdater
    BY <2>3 DEF PromoteStart, PromoteAsk, PromoteCompare, PromoteUpdater, lease
  <2>. QED  BY <1>5, <2>1, <2>2, <2>3 DEF Promote
<1>6. CASE Handback
  <2>1. CASE Release
    BY <2>1 DEF Release, Stop, lease
  <2>2. CASE \/ HandbackStart \/ HandbackPrepare \/ HandbackDrain \/ HandbackHeads
             \/ HandbackFails \/ HandbackFetch \/ HandbackAbort
             \/ \E lost \in SUBSET Remote : HandbackFinal(lost)
    BY <2>2 DEF HandbackStart, HandbackPrepare, HandbackDrain, HandbackFinal, HandbackHeads,
                HandbackFails, HandbackFetch, HandbackAbort, lease
  <2>. QED  BY <1>6, <2>1, <2>2 DEF Handback
<1>. QED  BY <1>1, <1>2, <1>3, <1>4, <1>5, <1>6, StepKinds

\* Two nodes hold the lease only over a READONLY nl, or by force.
LEMMA TakenNext ==
  ASSUME TypeOK, ScriptShape, LeaseTaken, Next
  PROVE  LeaseTaken'
<1>0. op \in OpShape
  BY DEF TypeOK
<1>. USE DEF LeaseTaken, Home, Returning, Before, Asking, Fetched, At
<1>1. CASE Elsewhere
  <2>0. op' = op
    BY <1>1, ElsewhereOp
  <2>1. ASSUME NEW n \in Node, NEW lost \in SUBSET Remote, PushTimer(n, lost)
        PROVE  LeaseTaken'
    BY <2>0, <2>1 DEF PushTimer, Flags, TypeOK, marks
  <2>2. ASSUME NEW n \in Node, PersonClears(n) PROVE LeaseTaken'
    BY <2>0, <2>2 DEF PersonClears, TypeOK, marks
  <2>3. CASE HeartbeatPublic \/ HeartbeatPeer
    <3>1. /\ role' = [role EXCEPT !["tw"] = "fenced"]
          /\ flag' = [flag EXCEPT !["tw"] = "fence"]
      BY <2>3 DEF HeartbeatPublic, HeartbeatPeer, FenceSelf
    <3>2. /\ role'["tw"] = "fenced" /\ role'["nl"] = role["nl"]
          /\ flag'["nl"] = flag["nl"]
      BY <3>1 DEF TypeOK
    <3>. QED  BY <2>0, <3>2
  <2>4. ASSUME NEW n \in Node, WriteStart(n) \/ WriteCommit(n) \/ SyncCommits(n)
        PROVE  LeaseTaken'
    BY <2>0, <2>4 DEF WriteStart, WriteCommit, SyncCommits, lease, marks
  <2>5. CASE \/ ForeignPush \/ Update \/ Isolate \/ Reconnect
             \/ \E h \in Host : EdgeSettles(h)
    BY <2>0, <2>5 DEF ForeignPush, Update, Isolate, Reconnect, EdgeSettles, lease, marks
  <2>. QED  BY <1>1, <2>1, <2>2, <2>3, <2>4, <2>5 DEF Elsewhere
<1>2. CASE ScriptDies \/ OpEnds \/ \E n \in Node : Reboot(n)
  <2>1. (op' = op \/ op' = NoOp) /\ UNCHANGED <<role, flag, forced>>
    BY <1>2 DEF ScriptDies, OpEnds, Reboot, lease, marks
  <2>. QED  BY <2>1 DEF NoOp
<1>4. ASSUME NEW h \in Host, DnsStep(h) \/ RollbackStep(h) PROVE LeaseTaken'
  <2>1. UNCHANGED <<role, flag, forced>>
    BY <1>4 DEF DnsStep, RollbackStep, lease
  <2>. QED  BY <1>0, <1>4, <2>1, LoopStepOp DEF AfterDns
<1>5. CASE TakeRole
  <2>1. /\ op.go = "take" /\ op.script \in {"promote", "handback"}
        /\ op' = [op EXCEPT !.pc = "flags"] /\ flag' = flag
        /\ forced' = (op.script = "promote" /\ role["tw"] = "primary")
    BY <1>0, <1>5 DEF TakeRole, Goto, ScriptShape, OpShape, NoOp
  <2>2. op'.pc = "flags" /\ op'.script = op.script /\ op'.go = "take"
    BY <1>0, <2>1 DEF OpShape
  <2>3. CASE op.script = "promote"
    <3>1. role'["nl"] = "primary" /\ role'["tw"] = role["tw"]
      BY <1>5, <2>3 DEF TakeRole, TypeOK
    <3>. QED  BY <2>1, <2>2, <2>3, <3>1
  <2>4. CASE op.script = "handback"
    <3>1. role'["tw"] = "primary" /\ role'["nl"] = role["nl"]
      BY <1>5, <2>4 DEF TakeRole, TypeOK
    <3>. QED  BY <1>5, <2>1, <2>2, <2>4, <3>1 DEF TakeRole
  <2>. QED  BY <2>1, <2>3, <2>4
<1>6. CASE ClearFlags
  BY <1>0, <1>6 DEF ClearFlags, Goto, ScriptShape, OpShape, TypeOK, NoOp, marks
<1>7. CASE StartUnits
  BY <1>0, <1>7 DEF StartUnits, NoOp, OpShape, marks
<1>8. CASE Promote
  <2>1. CASE PromoteStart
    BY <1>0, <2>1 DEF PromoteStart, StartDns, NoOp, lease, marks
  <2>2. CASE PromoteAsk \/ PromoteCompare
    BY <1>0, <2>2 DEF PromoteAsk, PromoteCompare, Goto, OpShape, lease, marks
  <2>3. CASE PromoteFence
    <3>1. /\ op.script = "promote" /\ op.pc = "fence" /\ op'.script = op.script
          /\ op'.go = op.go /\ op'.pc \in {"abort", "compare"} /\ forced' = forced
      BY <1>0, <2>3 DEF PromoteFence, Goto, OpShape, marks
    <3>2. /\ role'["nl"] = role["nl"] /\ flag'["nl"] = flag["nl"]
          /\ role'["tw"] = role["tw"] \/ role'["tw"] = "fenced"
      BY <2>3 DEF PromoteFence, TypeOK, lease
    <3>. QED  BY <3>1, <3>2
  <2>4. CASE PromoteUpdater
    <3>1. /\ op.script = "promote" /\ op.pc = "updater" /\ op'.script = op.script
          /\ \/ op' = StartDns(op, "take")
             \/ op' = [op EXCEPT !.pc = "abort"]
      BY <1>0, <2>4 DEF PromoteUpdater, Goto, OpShape, StartDns
    <3>4. \/ op'.pc = "dns" /\ op'.go = "take"
          \/ op'.pc = "abort" /\ op'.go = op.go
      BY <1>0, <3>1 DEF StartDns, OpShape
    <3>2. op.go = "take"
      BY <3>1 DEF ScriptShape
    <3>3. UNCHANGED <<role, flag, forced>>
      BY <2>4 DEF PromoteUpdater, lease, marks
    <3>. QED  BY <3>1, <3>2, <3>3, <3>4
  <2>5. CASE PromoteAbort
    <3>1. /\ op.script = "promote" /\ op.pc = "abort" /\ op' = NoOp /\ forced' = forced
      BY <2>5 DEF PromoteAbort, At, marks
    <3>2. role["nl"] # "primary"
      BY <3>1 DEF ScriptShape
    <3>3. role'["nl"] = role["nl"]
      BY <2>5 DEF PromoteAbort, TypeOK, lease
    <3>. QED  BY <3>1, <3>2, <3>3 DEF NoOp
  <2>. QED  BY <1>8, <2>1, <2>2, <2>3, <2>4, <2>5 DEF Promote
<1>9. CASE Handback
  <2>1. CASE HandbackStart
    BY <1>0, <2>1 DEF HandbackStart, StartDns, NoOp, lease, marks
  <2>2. CASE HandbackPrepare
    <3>1. /\ op.script = "handback" /\ op.pc = "prepare" /\ op'.script = op.script
          /\ op'.go = op.go /\ op'.pc = "drain" /\ UNCHANGED <<role, forced>>
      BY <1>0, <2>2 DEF HandbackPrepare, Goto, OpShape, marks
    <3>2. flag'["nl"] = "handback"
      BY <2>2 DEF HandbackPrepare, TypeOK
    <3>. QED  BY <3>1, <3>2
  <2>3. CASE HandbackDrain \/ HandbackHeads \/ HandbackFails \/ HandbackFetch
    <3>1. /\ op.script = "handback" /\ op'.script = op.script
          /\ op.pc \in {"prepare", "drain", "final", "heads", "fetch"}
          /\ op.pc = "prepare" => op'.pc = "abort"
          /\ op'.pc \in {"final", "fetch", "abort", "dns"}
          /\ op'.pc = "dns" => op'.go = "take"
          /\ op'.pc # "dns" => op'.go = op.go
      BY <1>0, <2>3 DEF HandbackDrain, HandbackHeads, HandbackFails, HandbackFetch, Goto,
                        StartDns, OpShape
    <3>2. op.go = "take"
      BY <3>1 DEF ScriptShape
    <3>3. UNCHANGED <<role, flag, forced>>
      BY <2>3 DEF HandbackDrain, HandbackHeads, HandbackFails, HandbackFetch, lease, marks
    <3>. QED  BY <3>1, <3>2, <3>3
  <2>4. ASSUME NEW lost \in SUBSET Remote, HandbackFinal(lost) PROVE LeaseTaken'
    <3>1. op.script = "handback" /\ op.pc = "final" /\ op.go = "take" /\ UNCHANGED <<role, forced>>
      BY <2>4 DEF HandbackFinal, ScriptShape, marks
    <3>2. op'.script = op.script /\ op'.go = op.go /\ op'.pc \in {"heads", "abort"}
      BY <1>0, <2>4 DEF HandbackFinal, Goto, OpShape
    <3>3. op'.pc = "heads" => UNCHANGED flag
      <4>1. op'.pc = "heads" => PushOk("nl", hist["nl"], lost)
        BY <1>0, <2>4 DEF HandbackFinal, Goto, OpShape
      <4>. QED  BY <2>4, <4>1 DEF HandbackFinal, PushOk, Flags
    <3>. QED  BY <3>1, <3>2, <3>3
  <2>5. CASE HandbackAbort
    <3>1. /\ op.script = "handback" /\ op.pc = "abort"
          /\ op' = NoOp \/ (op'.script = "handback" /\ op'.go = "back")
          /\ UNCHANGED <<role, forced>>
      BY <1>0, <2>5 DEF HandbackAbort, At, StartDns, OpShape, marks
    <3>2. role["tw"] # "primary"
      BY <3>1 DEF ScriptShape
    <3>. QED  BY <3>1, <3>2 DEF NoOp
  <2>6. CASE Release
    <3>1. op'.pc = "done"
      BY <1>0, <2>6 DEF Release, Goto, OpShape
    <3>2. \/ UNCHANGED <<role, flag, forced>>
          \/ role' = [role EXCEPT !["nl"] = "standby"]
      BY <2>6 DEF Release, lease
    <3>3. UNCHANGED <<role, flag, forced>> \/ role'["nl"] = "standby"
      BY <3>2 DEF TypeOK
    <3>. QED  BY <3>1, <3>3
  <2>. QED  BY <1>9, <2>1, <2>2, <2>3, <2>4, <2>5, <2>6 DEF Handback
<1>. QED  BY <1>1, <1>2, <1>4, <1>5, <1>6, <1>7, <1>8, <1>9, StepKinds

\* The script's steps other than those of a loop: the loop is left, or starts anew.
LEMMA LoopStarts ==
  ASSUME TypeOK,
         \/ ScriptDies \/ OpEnds \/ \E n \in Node : Reboot(n)
         \/ TakeRole \/ ClearFlags \/ StartUnits \/ Promote \/ Handback
  PROVE  /\ UNCHANGED <<dns, whole>>
         /\ op' = op \/ op'.pc \notin {"dns", "rollback"} \/ op'.todo = Host
<1>0. op \in OpShape
  BY DEF TypeOK
<1>1. CASE ScriptDies \/ OpEnds \/ \E n \in Node : Reboot(n)
  BY <1>1 DEF ScriptDies, OpEnds, Reboot, NoOp, edge, marks
<1>2. CASE TakeRole \/ ClearFlags \/ StartUnits
  BY <1>0, <1>2 DEF TakeRole, ClearFlags, StartUnits, Goto, NoOp, OpShape, edge, marks
<1>3. CASE Promote
  <2>1. CASE PromoteStart
    BY <2>1 DEF PromoteStart, StartDns, NoOp, edge, marks
  <2>2. CASE PromoteAsk \/ PromoteCompare
    BY <1>0, <2>2 DEF PromoteAsk, PromoteCompare, Goto, OpShape, edge, marks
  <2>3. CASE PromoteFence
    BY <1>0, <2>3 DEF PromoteFence, Goto, OpShape, edge, marks
  <2>4. CASE PromoteUpdater
    <3>1. op' = [op EXCEPT !.pc = "abort"] \/ op' = StartDns(op, "take")
      BY <2>4 DEF PromoteUpdater, Goto
    <3>2. op'.pc = "abort" \/ op'.todo = Host
      BY <1>0, <3>1 DEF OpShape, StartDns
    <3>. QED  BY <2>4, <3>2 DEF PromoteUpdater, edge, marks
  <2>5. CASE PromoteAbort
    BY <2>5 DEF PromoteAbort, NoOp, edge, marks
  <2>. QED  BY <1>3, <2>1, <2>2, <2>3, <2>4, <2>5 DEF Promote
<1>4. CASE Handback
  <2>1. CASE HandbackStart
    BY <2>1 DEF HandbackStart, StartDns, NoOp, edge, marks
  <2>2. CASE HandbackPrepare \/ HandbackDrain \/ HandbackHeads \/ HandbackFails
    BY <1>0, <2>2 DEF HandbackPrepare, HandbackDrain, HandbackHeads, HandbackFails, Goto,
                      OpShape, edge, marks
  <2>3. CASE \E lost \in SUBSET Remote : HandbackFinal(lost)
    BY <1>0, <2>3 DEF HandbackFinal, Goto, OpShape, edge, marks
  <2>4. CASE HandbackFetch \/ HandbackAbort
    <3>1. op' \in {NoOp, StartDns(op, "take"), StartDns(op, "back")}
      BY <2>4 DEF HandbackFetch, HandbackAbort
    <3>2. op' = NoOp => op'.pc = "idle"
      BY DEF NoOp
    <3>3. op' # NoOp => op'.todo = Host
      BY <1>0, <3>1 DEF StartDns, OpShape
    <3>. QED  BY <2>4, <3>2, <3>3 DEF HandbackFetch, HandbackAbort, edge, marks
  <2>5. CASE Release
    BY <1>0, <2>5 DEF Release, Goto, OpShape, edge, marks
  <2>. QED  BY <1>4, <2>1, <2>2, <2>3, <2>4, <2>5 DEF Handback
<1>. QED  BY <1>1, <1>2, <1>3, <1>4

\* The hosts a loop has done are where it takes them.
LEMMA LoopNext ==
  ASSUME TypeOK, LoopMoves, Next
  PROVE  LoopMoves'
<1>0. op \in OpShape
  BY DEF TypeOK
<1>1. CASE Elsewhere
  <2>1. op' = op /\ UNCHANGED <<dns, whole>>
    BY <1>1 DEF Elsewhere, WriteStart, WriteCommit, SyncCommits, PushTimer, PersonClears,
         ForeignPush, Update, HeartbeatPublic, HeartbeatPeer, FenceSelf, EdgeSettles,
         Isolate, Reconnect, edge, marks
  <2>. QED  BY <2>1 DEF LoopMoves, To, Back, Home
<1>2. CASE \/ ScriptDies \/ OpEnds \/ \E n \in Node : Reboot(n)
           \/ TakeRole \/ ClearFlags \/ StartUnits \/ Promote \/ Handback
  BY <1>2, LoopStarts DEF LoopMoves, To, Back, Home
<1>3. ASSUME NEW h \in Host, DnsStep(h) PROVE LoopMoves'
  <2>1. /\ op.pc = "dns" /\ h \in op.todo /\ op.todo \subseteq Host
        /\ \A g \in Host \ op.todo : dns[g] = To
    BY <1>0, <1>3 DEF DnsStep, LoopMoves, OpShape
  <2>2. CASE op' = [op EXCEPT !.todo = Host, !.pc = "rollback"] /\ whole' = FALSE
    BY <1>0, <2>2 DEF LoopMoves, OpShape
  <2>3. CASE /\ Point(h, To)
             /\ op' = [op EXCEPT !.todo = @ \ {h},
                                 !.pc = IF op.todo = {h} THEN AfterDns(TRUE) ELSE @]
             /\ whole' = (op.todo = {h})
    <3>1. \A g \in Host \ (op.todo \ {h}) : dns'[g] = To
      BY <2>1, <2>3 DEF Point, TypeOK
    <3>2. op'.todo = op.todo \ {h} /\ op'.script = op.script /\ op'.go = op.go
      BY <1>0, <2>3 DEF OpShape
    <3>3. To' = To
      BY <3>2 DEF To, Home
    <3>4. op'.pc # "rollback"
      BY <1>0, <2>1, <2>3 DEF OpShape, AfterDns
    <3>5. CASE op.todo = {h}
      BY <2>3, <3>1, <3>2, <3>3, <3>4, <3>5 DEF LoopMoves
    <3>6. CASE op.todo # {h}
      BY <2>3, <3>1, <3>2, <3>3, <3>4, <3>6 DEF LoopMoves
    <3>. QED  BY <3>5, <3>6
  <2>. QED  BY <1>3, <2>2, <2>3 DEF DnsStep
<1>4. ASSUME NEW h \in Host, RollbackStep(h) PROVE LoopMoves'
  <2>1. /\ op.pc = "rollback" /\ h \in op.todo /\ op.todo \subseteq Host
        /\ op.clean => \A g \in Host \ op.todo : dns[g] = Back
    BY <1>0, <1>4, SMTT(30) DEF RollbackStep, LoopMoves, OpShape
  <2>2. PICK ok \in BOOLEAN :
          /\ IF ok THEN Point(h, Back) ELSE UNCHANGED edge
          /\ op' = [op EXCEPT !.todo = op.todo \ {h}, !.clean = op.clean /\ ok,
                              !.pc = IF op.todo = {h} THEN AfterDns(FALSE) ELSE op.pc]
          /\ whole' = (op.todo = {h} /\ op.clean /\ ok)
    BY <1>4 DEF RollbackStep
  <2> DEFINE c == op.clean /\ ok
             p == IF op.todo = {h} THEN AfterDns(FALSE) ELSE op.pc
  <2>3. op' = [op EXCEPT !.todo = op.todo \ {h}, !.clean = c, !.pc = p]
    BY <2>2
  <2>4. whole' => op.todo = {h} /\ c
    BY <2>2
  <2>5. c => \A g \in Host \ (op.todo \ {h}) : dns'[g] = Back
    BY <2>1, <2>2 DEF Point, TypeOK
  <2>6. p # "dns"
    BY <2>1 DEF AfterDns
  <2> HIDE DEF c, p
  <2>7. /\ op'.todo = op.todo \ {h} /\ op'.script = op.script /\ op'.go = op.go
        /\ op'.clean = c /\ op'.pc = p
    BY <1>0, <2>3 DEF OpShape
  <2>8. Back' = Back
    BY <2>7 DEF Back, To, Home
  <2>. QED  BY <2>4, <2>5, <2>6, <2>7, <2>8 DEF LoopMoves
<1>. QED  BY <1>1, <1>2, <1>3, <1>4, StepKinds

\* Histories only grow.
Grows == /\ \A n \in Node : hist[n] \subseteq hist'[n]
         /\ \A r \in Remote : store[r] \subseteq store'[r]

LEMMA StopGrows ==
  ASSUME TypeOK, NEW n \in Node, NEW H \in AfterStop(n), hist' = [hist EXCEPT ![n] = H]
  PROVE  \A m \in Node : hist[m] \subseteq hist'[m]
<1>1. hist[n] \subseteq H
  BY AfterStopType
<1>. QED  BY <1>1 DEF TypeOK

LEMMA ElsewhereGrows ==
  ASSUME TypeOK, Elsewhere
  PROVE  Grows
<1>. USE DEF Grows
<1>1. ASSUME NEW n \in Node, WriteStart(n) \/ PersonClears(n) PROVE Grows
  BY <1>1 DEF WriteStart, PersonClears, trees
<1>2. ASSUME NEW n \in Node, WriteCommit(n) PROVE Grows
  BY <1>2 DEF WriteCommit, TypeOK
<1>3. ASSUME NEW n \in Node, SyncCommits(n) PROVE Grows
  BY <1>3 DEF SyncCommits, TypeOK
<1>4. ASSUME NEW n \in Node, NEW lost \in SUBSET Remote, PushTimer(n, lost) PROVE Grows
  <2>1. hist[n] \in History /\ Push(n, hist[n], lost) /\ hist' = hist
    BY <1>4 DEF PushTimer, TypeOK
  <2>. QED  BY <2>1, PushType
<1>5. CASE ForeignPush
  BY <1>5 DEF ForeignPush, TypeOK, Remote
<1>6. CASE Update
  BY <1>6 DEF Update, FastForward, TypeOK
<1>7. CASE HeartbeatPublic \/ HeartbeatPeer
  <2>1. FenceSelf("tw")
    BY <1>7 DEF HeartbeatPublic, HeartbeatPeer
  <2>2. PICK H \in AfterStop("tw") : hist' = [hist EXCEPT !["tw"] = H]
    BY <2>1 DEF FenceSelf
  <2>3. store' = store
    BY <2>1 DEF FenceSelf
  <2>. QED  BY <2>2, <2>3, StopGrows
<1>8. CASE Isolate \/ Reconnect \/ \E h \in Host : EdgeSettles(h)
  BY <1>8 DEF Isolate, Reconnect, EdgeSettles, trees
<1>. QED  BY <1>1, <1>2, <1>3, <1>4, <1>5, <1>6, <1>7, <1>8 DEF Elsewhere

LEMMA ScriptGrows ==
  ASSUME TypeOK,
         \/ \E n \in Node : Reboot(n)
         \/ ScriptDies \/ OpEnds
         \/ \E h \in Host : DnsStep(h) \/ RollbackStep(h)
         \/ TakeRole \/ ClearFlags \/ StartUnits
         \/ Promote \/ Handback
  PROVE  Grows
<1>. USE DEF Grows
<1>1. CASE \/ \E n \in Node : Reboot(n)
           \/ ScriptDies \/ OpEnds
           \/ \E h \in Host : DnsStep(h) \/ RollbackStep(h)
           \/ TakeRole \/ ClearFlags \/ StartUnits
  BY <1>1 DEF Reboot, ScriptDies, OpEnds, DnsStep, RollbackStep, TakeRole, ClearFlags,
              StartUnits, trees
<1>2. CASE PromoteStart \/ PromoteAsk \/ PromoteCompare \/ PromoteAbort
  BY <1>2 DEF PromoteStart, PromoteAsk, PromoteCompare, PromoteAbort, trees
<1>3. CASE PromoteFence
  <2>1. CASE UNCHANGED trees
    BY <2>1 DEF trees
  <2>2. CASE \E H \in AfterStop("tw"), lost \in Losses("tw") :
                hist' = [hist EXCEPT !["tw"] = H] /\ Push("tw", H, lost)
    <3>1. PICK H \in AfterStop("tw"), lost \in Losses("tw") :
                hist' = [hist EXCEPT !["tw"] = H] /\ Push("tw", H, lost)
      BY <2>2
    <3>2. H \in History
      BY AfterStopType
    <3>. QED  BY <3>1, <3>2, StopGrows, PushType
  <2>. QED  BY <1>3, <2>1, <2>2 DEF PromoteFence
<1>4. CASE PromoteUpdater
  BY <1>4 DEF PromoteUpdater, FastForward, TypeOK, trees
<1>5. CASE \/ HandbackStart \/ HandbackPrepare \/ HandbackDrain \/ HandbackHeads
           \/ HandbackFails \/ HandbackAbort
  BY <1>5 DEF HandbackStart, HandbackPrepare, HandbackDrain, HandbackHeads, HandbackFails,
              HandbackAbort, trees
<1>6. ASSUME NEW lost \in SUBSET Remote, HandbackFinal(lost) PROVE Grows
  <2>1. hist["nl"] \in History /\ Push("nl", hist["nl"], lost) /\ hist' = hist
    BY <1>6 DEF HandbackFinal, TypeOK
  <2>. QED  BY <2>1, PushType
<1>7. CASE HandbackFetch
  BY <1>7 DEF HandbackFetch, FastForward, TypeOK
<1>8. CASE Release
  <2>1. CASE UNCHANGED trees
    BY <2>1 DEF trees
  <2>2. CASE store' = store /\ \E H \in AfterStop("nl") : hist' = [hist EXCEPT !["nl"] = H]
    BY <2>2, StopGrows
  <2>. QED  BY <1>8, <2>1, <2>2 DEF Release
<1>. QED  BY <1>1, <1>2, <1>3, <1>4, <1>5, <1>6, <1>7, <1>8 DEF Promote, Handback

\* No step takes a commit out of a history: HistoryKept, the rule "no merge, no
\* reset" of push, update, fetch, fence and takeover together.
THEOREM LeaseHistoryKept == Spec => HistoryKept
<1>1. TypeOK /\ [Next]_vars => [Grows]_vars
  BY ElsewhereGrows, ScriptGrows, StepKinds
<1>. QED  BY <1>1, LeaseTypeCorrect, PTL DEF Spec, HistoryKept, Grows

\* A tw without the lease stays as it is, and its commits with it.
LEMMA TwAtRest ==
  ASSUME TypeOK, UnitsHoldLease, role["tw"] # "primary", Elsewhere
  PROVE  role'["tw"] = role["tw"] /\ hist'["tw"] = hist["tw"]
<1>0. busy["tw"] = NoCommit
  BY DEF UnitsHoldLease, TypeOK
<1>1. ASSUME NEW n \in Node, WriteStart(n) \/ PersonClears(n)
      PROVE  role' = role /\ hist' = hist
  BY <1>1 DEF WriteStart, PersonClears, trees
<1>2. ASSUME NEW n \in Node, WriteCommit(n)
      PROVE  role' = role /\ hist'["tw"] = hist["tw"]
  BY <1>0, <1>2 DEF WriteCommit, TypeOK
<1>3. ASSUME NEW n \in Node, SyncCommits(n)
      PROVE  role' = role /\ hist'["tw"] = hist["tw"]
  BY <1>3 DEF SyncCommits, TypeOK, lease
<1>4. ASSUME NEW n \in Node, NEW lost \in SUBSET Remote, PushTimer(n, lost)
      PROVE  role' = role /\ hist' = hist
  BY <1>4 DEF PushTimer
<1>5. CASE Update
  BY <1>5 DEF Update, FastForward, TypeOK, lease
<1>6. CASE HeartbeatPublic \/ HeartbeatPeer
  BY <1>6 DEF HeartbeatPublic, HeartbeatPeer
<1>7. CASE ForeignPush \/ Isolate \/ Reconnect \/ \E h \in Host : EdgeSettles(h)
  BY <1>7 DEF ForeignPush, Isolate, Reconnect, EdgeSettles, lease, trees
<1>. QED  BY <1>1, <1>2, <1>3, <1>4, <1>5, <1>6, <1>7 DEF Elsewhere

\* A promotion that fenced tw carries tw's heads.
LEMMA PromotionNext ==
  ASSUME TypeOK, ScriptShape, UnitsHoldLease, PromotionCarries, Next
  PROVE  PromotionCarries'
<1>0. op \in OpShape
  BY DEF TypeOK
<1>. USE DEF PromotionCarries, Fetched
<1>1. CASE Elsewhere
  <2>1. op' = op /\ Grows
    BY <1>1, ElsewhereOp, ElsewhereGrows
  <2>2. CASE op.fenced /\ op.pc \in {"compare", "updater"} \union Fetched
    <3>1. role'["tw"] # "primary" /\ hist'["tw"] = hist["tw"]
      BY <1>1, <2>2, TwAtRest
    <3>2. hist["nl"] \subseteq hist'["nl"] /\ store["vault"] \subseteq store'["vault"]
      BY <2>1 DEF Grows, Remote
    <3>. QED  BY <2>1, <2>2, <3>1, <3>2
  <2>. QED  BY <2>1, <2>2
<1>2. CASE ScriptDies \/ OpEnds \/ \E n \in Node : Reboot(n)
  <2>1. (op' = op \/ op' = NoOp) /\ UNCHANGED <<role, hist, store>>
    BY <1>2 DEF ScriptDies, OpEnds, Reboot, lease, trees
  <2>. QED  BY <2>1 DEF NoOp
<1>4. ASSUME NEW h \in Host, DnsStep(h) \/ RollbackStep(h) PROVE PromotionCarries'
  <2>1. UNCHANGED <<role, hist, store>>
    BY <1>4 DEF DnsStep, RollbackStep, lease, trees
  <2>. QED  BY <1>0, <1>4, <2>1, LoopStepOp DEF AfterDns
<1>5. CASE TakeRole
  <2>1. op.pc = "role" /\ op'.pc = "flags" /\ op'.fenced = op.fenced /\ hist' = hist
    BY <1>0, <1>5 DEF TakeRole, Goto, OpShape, trees
  <2>2. op.fenced => op.script = "promote"
    BY DEF ScriptShape
  <2>3. op.fenced => role'["tw"] = role["tw"]
    BY <1>5, <2>2 DEF TakeRole, Home, TypeOK
  <2>. QED  BY <2>1, <2>3
<1>6. CASE ClearFlags \/ StartUnits
  BY <1>0, <1>6 DEF ClearFlags, StartUnits, Goto, NoOp, OpShape
<1>7. CASE Promote
  <2>1. CASE PromoteStart
    BY <2>1 DEF PromoteStart, StartDns, NoOp
  <2>2. CASE PromoteAsk
    <3>1. op.pc = "ask" /\ op'.fenced = op.fenced
      BY <1>0, <2>2 DEF PromoteAsk, Goto, At, OpShape
    <3>. QED  BY <3>1 DEF ScriptShape
  <2>3. CASE PromoteFence
    <3>1. CASE op' = [op EXCEPT !.pc = "abort"]
      BY <1>0, <3>1 DEF OpShape
    <3>2. CASE /\ role["tw"] # "primary"
               /\ op' = [op EXCEPT !.pc = "compare", !.fenced = TRUE, !.want = hist["tw"]]
               /\ UNCHANGED <<lease, trees>>
      BY <1>0, <3>2 DEF OpShape, lease, trees
    <3>3. CASE \E H \in AfterStop("tw") :
                  /\ hist' = [hist EXCEPT !["tw"] = H]
                  /\ op' = [op EXCEPT !.pc = "compare", !.fenced = TRUE, !.want = H]
                  /\ role' = [role EXCEPT !["tw"] = "fenced"]
      <4>1. op'.pc = "compare" /\ op'.want = hist'["tw"] /\ role'["tw"] = "fenced"
        BY <1>0, <3>3 DEF OpShape, TypeOK
      <4>. QED  BY <4>1
    <3>. QED  BY <2>3, <3>1, <3>2, <3>3 DEF PromoteFence, Goto
  <2>4. CASE PromoteCompare
    BY <1>0, <2>4 DEF PromoteCompare, Goto, At, OpShape, lease, trees
  <2>5. CASE PromoteUpdater
    <3>1. CASE op' = [op EXCEPT !.pc = "abort"]
      BY <1>0, <3>1 DEF OpShape
    <3>2. CASE /\ Comparable(hist["nl"], store["vault"])
               /\ FastForward("nl", store["vault"])
               /\ op' = StartDns(op, "take")
      <4>1. store["vault"] \subseteq hist'["nl"] /\ hist'["tw"] = hist["tw"]
        BY <3>2 DEF FastForward, Comparable, TypeOK
      <4>2. op.pc = "updater" /\ op'.pc = "dns" /\ op'.fenced = op.fenced
        BY <1>0, <2>5, <3>2 DEF PromoteUpdater, At, StartDns, OpShape
      <4>3. role' = role
        BY <2>5 DEF PromoteUpdater, lease
      <4>. QED  BY <4>1, <4>2, <4>3
    <3>. QED  BY <2>5, <3>1, <3>2 DEF PromoteUpdater, Goto
  <2>6. CASE PromoteAbort
    BY <2>6 DEF PromoteAbort, NoOp
  <2>. QED  BY <1>7, <2>1, <2>2, <2>3, <2>4, <2>5, <2>6 DEF Promote
<1>8. CASE Handback
  <2>1. op' = NoOp \/ op'.script = "handback"
    BY <1>0, <1>8 DEF Handback, HandbackStart, HandbackPrepare, HandbackDrain, HandbackFinal,
              HandbackHeads, HandbackFails, HandbackFetch, HandbackAbort, Release, At, Goto,
              StartDns, OpShape, NoOp
  <2>2. ScriptShape'
    BY ShapeNext
  <2>. QED  BY <2>1, <2>2 DEF ScriptShape, NoOp
<1>. QED  BY <1>1, <1>2, <1>4, <1>5, <1>6, <1>7, <1>8, StepKinds

\* An nl that holds the lease only under READONLY has no write on its way but
\* the late one; all it gains is that one, what the standby fetches and what the
\* protocol sync commits.
LEMMA NlAtRest ==
  ASSUME TypeOK, UnitsHoldLease, Elsewhere, busy["nl"] \in {NoCommit} \union late,
         role["nl"] = "primary" => flag["nl"] = "handback"
  PROVE  /\ busy'["nl"] \in {NoCommit} \union late
         /\ late' = late
         /\ synced \subseteq synced'
         /\ \/ hist'["nl"] = store["vault"]
            \/ hist'["nl"] \subseteq hist["nl"] \union synced' \union late
         /\ store'["vault"] = store["vault"] \/ store'["vault"] = hist["tw"]
<1>1. ASSUME NEW n \in Node, WriteStart(n)
      PROVE  busy'["nl"] = busy["nl"] /\ UNCHANGED <<hist, store, synced, late>>
  <2>1. n # "nl"
    BY <1>1 DEF WriteStart, Accepts, UnitsHoldLease
  <2>. QED  BY <1>1, <2>1 DEF WriteStart, TypeOK, trees, marks
<1>2. ASSUME NEW n \in Node, WriteCommit(n)
      PROVE  /\ busy'["nl"] \in {NoCommit} \union late
             /\ hist'["nl"] \subseteq hist["nl"] \union late
             /\ UNCHANGED <<store, synced, late>>
  BY <1>2 DEF WriteCommit, TypeOK, marks
<1>3. ASSUME NEW n \in Node, SyncCommits(n)
      PROVE  /\ busy' = busy /\ store' = store /\ synced \subseteq synced' /\ late' = late
             /\ hist'["nl"] \subseteq hist["nl"] \union synced'
  <2>1. busy' = busy /\ store' = store /\ synced \subseteq synced' /\ late' = late
    BY <1>3 DEF SyncCommits, lease
  <2>2. CASE n = "tw"
    <3>1. hist'["nl"] = hist["nl"]
      BY <1>3, <2>2 DEF SyncCommits, TypeOK
    <3>. QED  BY <2>1, <3>1
  <2>3. CASE n = "nl"
    <3>1. PICK c \in Fresh :
             /\ hist' = [hist EXCEPT ![n] = @ \union {c}]
             /\ synced' = IF n = "tw" \/ flag[n] = "none" THEN synced
                                                          ELSE synced \union {c}
      BY <1>3 DEF SyncCommits
    <3>2. hist'["nl"] = hist["nl"] \union {c}
      BY <2>3, <3>1 DEF TypeOK
    <3>3. flag["nl"] = "handback" /\ synced' = synced \union {c}
      BY <1>3, <2>3, <3>1 DEF SyncCommits
    <3>. QED  BY <2>1, <3>2, <3>3
  <2>. QED  BY <2>1, <2>2, <2>3
<1>4. ASSUME NEW n \in Node, NEW lost \in SUBSET Remote, PushTimer(n, lost)
      PROVE  /\ UNCHANGED <<busy, hist, synced, late>>
             /\ store'["vault"] = store["vault"] \/ store'["vault"] = hist["tw"]
  <2>1. n = "tw"
    BY <1>4 DEF PushTimer
  <2>. QED  BY <1>4, <2>1 DEF PushTimer, Push, TypeOK, Remote, marks
<1>5. ASSUME NEW n \in Node, PersonClears(n) PROVE UNCHANGED <<busy, hist, store, synced, late>>
  BY <1>5 DEF PersonClears, trees, marks
<1>6. CASE Update
  BY <1>6 DEF Update, FastForward, TypeOK, lease, marks
<1>7. CASE HeartbeatPublic \/ HeartbeatPeer
  <2>1. FenceSelf("tw")
    BY <1>7 DEF HeartbeatPublic, HeartbeatPeer
  <2>. QED  BY <2>1 DEF FenceSelf, Stop, TypeOK
<1>8. CASE ForeignPush
  BY <1>8 DEF ForeignPush, TypeOK, Remote, lease, marks
<1>9. CASE Isolate \/ Reconnect \/ \E h \in Host : EdgeSettles(h)
  BY <1>9 DEF Isolate, Reconnect, EdgeSettles, lease, trees, marks
<1>. QED  BY <1>1, <1>2, <1>3, <1>4, <1>5, <1>6, <1>7, <1>8, <1>9 DEF Elsewhere

\* A handback carries nl's commits.
LEMMA HandbackNext ==
  ASSUME TypeOK, ScriptShape, UnitsHoldLease, LeaseTaken, HandbackCarries, Next
  PROVE  HandbackCarries'
<1>0. op \in OpShape
  BY DEF TypeOK
<1>. USE DEF HandbackCarries, Fetched, Returning
<1>1. CASE Elsewhere
  <2>1. op' = op /\ Grows
    BY <1>1, ElsewhereOp, ElsewhereGrows
  <2>2. hist["tw"] \subseteq hist'["tw"] /\ store["vault"] \subseteq store'["vault"]
    BY <2>1 DEF Grows, Remote
  <2>3. CASE Returning /\ op.pc \in {"final", "heads", "fetch"} \union Fetched
    <3>1. role["nl"] = "primary" => flag["nl"] = "handback"
      BY <2>3 DEF LeaseTaken
    <3>2. /\ busy'["nl"] \in {NoCommit} \union late
          /\ late' = late
          /\ synced \subseteq synced'
          /\ \/ hist'["nl"] = store["vault"]
             \/ hist'["nl"] \subseteq hist["nl"] \union synced' \union late
          /\ store'["vault"] = store["vault"] \/ store'["vault"] = hist["tw"]
      BY <1>1, <2>3, <3>1, NlAtRest
    <3>. QED  BY <2>1, <2>2, <2>3, <3>2
  <2>. QED  BY <2>1, <2>3
<1>2. CASE ScriptDies \/ OpEnds \/ \E n \in Node : Reboot(n)
  <2>1. op' = op \/ op' = NoOp
    BY <1>2 DEF ScriptDies, OpEnds, Reboot
  <2>2. /\ UNCHANGED <<hist, store, synced, late>>
        /\ busy'["nl"] \in {busy["nl"], NoCommit}
    BY <1>2 DEF ScriptDies, OpEnds, Reboot, TypeOK, lease, trees, marks
  <2>. QED  BY <2>1, <2>2 DEF NoOp
<1>3. ASSUME NEW h \in Host, DnsStep(h) \/ RollbackStep(h) PROVE HandbackCarries'
  <2>1. UNCHANGED <<busy, hist, store, synced, late>>
    BY <1>3 DEF DnsStep, RollbackStep, lease, trees
  <2>. QED  BY <1>0, <1>3, <2>1, LoopStepOp DEF AfterDns
<1>4. CASE TakeRole
  BY <1>0, <1>4 DEF TakeRole, Goto, OpShape, trees
<1>5. CASE ClearFlags \/ StartUnits
  BY <1>0, <1>5 DEF ClearFlags, StartUnits, Goto, NoOp, OpShape
<1>6. CASE Promote
  <2>1. CASE PromoteAbort
    BY <2>1 DEF PromoteAbort, NoOp
  <2>2. CASE PromoteStart \/ PromoteAsk \/ PromoteFence \/ PromoteCompare \/ PromoteUpdater
    <3>1. op'.script = "promote"
      BY <1>0, <2>2 DEF PromoteStart, PromoteAsk, PromoteFence, PromoteCompare, PromoteUpdater,
                        At, Goto, StartDns, OpShape, NoOp
    <3>. QED  BY <3>1
  <2>. QED  BY <1>6, <2>1, <2>2 DEF Promote
<1>7. CASE Handback
  <2>1. CASE HandbackStart
    <3>1. UNCHANGED <<busy, hist, store, synced>>
      BY <2>1 DEF HandbackStart, lease, trees
    <3>2. CASE role["nl"] # "primary"
      <4>1. busy["nl"] = NoCommit
        BY <3>2 DEF UnitsHoldLease, TypeOK
      <4>2. op'.go = "take" => op'.pc = "fetch" /\ op'.want = hist["nl"]
        BY <2>1, <3>2 DEF HandbackStart, StartDns, NoOp
      <4>. QED  BY <3>1, <4>1, <4>2
    <3>3. CASE role["nl"] = "primary"
      <4>1. op'.go = "take" => op'.pc = "prepare"
        BY <2>1, <3>3 DEF HandbackStart, StartDns, NoOp
      <4>. QED  BY <4>1
    <3>. QED  BY <3>2, <3>3
  <2>2. CASE HandbackPrepare \/ HandbackFails
    BY <1>0, <2>2 DEF HandbackPrepare, HandbackFails, Goto, OpShape
  <2>3. CASE HandbackDrain
    BY <1>0, <2>3 DEF HandbackDrain, Goto, OpShape, lease
  <2>4. ASSUME NEW lost \in SUBSET Remote, HandbackFinal(lost) PROVE HandbackCarries'
    <3>1. op.pc = "final" /\ op' = [op EXCEPT !.pc = op'.pc]
          /\ busy' = busy /\ late' = late
      BY <1>0, <2>4 DEF HandbackFinal, At, Goto, OpShape, marks
    <3>2. op'.pc \in {"heads", "abort"}
      BY <1>0, <2>4 DEF HandbackFinal, Goto, OpShape
    <3>. QED  BY <1>0, <3>1, <3>2 DEF OpShape
  <2>5. CASE HandbackHeads
    BY <1>0, <2>5 DEF HandbackHeads, At, OpShape, lease, trees, marks
  <2>6. CASE HandbackFetch
    <3>1. /\ op.pc = "fetch" /\ op'.pc = "dns" /\ op'.script = op.script /\ op.go = "take"
      BY <1>0, <2>6 DEF HandbackFetch, At, StartDns, OpShape, ScriptShape, Asking
    <3>2. /\ store["vault"] \subseteq hist'["tw"] /\ hist'["nl"] = hist["nl"]
          /\ op.want = store["vault"]
      BY <2>6 DEF HandbackFetch, FastForward, Comparable, TypeOK
    <3>3. UNCHANGED <<busy, store, synced, late>>
      BY <2>6 DEF HandbackFetch, lease, marks
    <3>. QED  BY <3>1, <3>2, <3>3
  <2>7. CASE HandbackAbort
    <3>1. op' = NoOp \/ op' = StartDns(op, "back")
      BY <2>7 DEF HandbackAbort
    <3>2. op' = NoOp => op'.script = "none"
      BY DEF NoOp
    <3>3. op' = StartDns(op, "back") => op'.go = "back"
      BY <1>0 DEF StartDns, OpShape
    <3>. QED  BY <3>1, <3>2, <3>3
  <2>8. CASE Release
    BY <1>0, <2>8 DEF Release, Goto, OpShape
  <2>. QED  BY <1>7, <2>1, <2>2, <2>3, <2>4, <2>5, <2>6, <2>7, <2>8 DEF Handback
<1>. QED  BY <1>1, <1>2, <1>3, <1>4, <1>5, <1>6, <1>7, StepKinds

\* The invariant as a whole: it holds at first, and every step keeps it.
LEMMA InvInit == Init => LeaseInv
<1>. SUFFICES ASSUME Init PROVE LeaseInv
  OBVIOUS
<1>1. op = NoOp /\ op.script = "none" /\ op.pc = "idle" /\ op.fenced = FALSE
  BY DEF Init, NoOp
<1>2. /\ role["tw"] = "primary" /\ role["nl"] = "standby"
      /\ unit["tw"] = TRUE /\ unit["nl"] = FALSE /\ busy["tw"] = NoCommit /\ busy["nl"] = NoCommit
      /\ \A h \in Host : dns[h] = "tw"
  BY DEF Init
<1>3. ScriptShape
  BY <1>1 DEF ScriptShape, Asking
<1>4. UnitsHoldLease
  BY <1>2 DEF UnitsHoldLease
<1>5. LeaseTaken
  BY <1>1, <1>2 DEF LeaseTaken, Returning, At
<1>6. LoopMoves
  BY <1>1, <1>2 DEF LoopMoves
<1>7. PromotionCarries /\ HandbackCarries
  BY <1>1 DEF PromotionCarries, HandbackCarries, Returning
<1>. QED  BY InitType, <1>3, <1>4, <1>5, <1>6, <1>7 DEF LeaseInv

LEMMA InvNext == LeaseInv /\ [Next]_vars => LeaseInv'
<1>. SUFFICES ASSUME LeaseInv, [Next]_vars PROVE LeaseInv'
  OBVIOUS
<1>0. TypeOK /\ TypeOK'
  BY TypeNext DEF LeaseInv
<1>1. CASE UNCHANGED vars
  BY <1>0, <1>1 DEF vars, lease, trees, edge, marks, LeaseInv, ScriptShape, UnitsHoldLease,
              LeaseTaken, LoopMoves, PromotionCarries, HandbackCarries, Returning, At, Home,
              To, Back
<1>2. CASE Next
  BY <1>0, <1>2, ShapeNext, UnitsNext, TakenNext, LoopNext, PromotionNext, HandbackNext DEF LeaseInv
<1>. QED  BY <1>1, <1>2

\* LeaseInv holds throughout: scripts, timers, clients, reboots and outages in any
\* order never leave a takeover half claimed.
THEOREM LeaseInvariant == Spec => []LeaseInv
  BY InvInit, InvNext, PTL DEF Spec

\* At most one node accepts writes, unless nl was promoted over a tw that has not
\* heard of it yet.
THEOREM OneWriterAlways == Spec => []OneWriter
<1>1. TypeOK /\ LeaseInv => OneWriter
  BY DEF LeaseInv, UnitsHoldLease, LeaseTaken, OneWriter, Accepts
<1>. QED  BY <1>1, LeaseTypeCorrect, LeaseInvariant, PTL

\* All hosts move, or none does, in any order of steps, failures and rollbacks.
THEOREM HostsTogetherAlways == Spec => []HostsTogether
<1>1. LeaseInv => HostsTogether
  BY DEF LeaseInv, LoopMoves, HostsTogether
<1>. QED  BY <1>1, LeaseInvariant, PTL

\* A promotion that fenced tw takes over with every commit of tw's tree.
THEOREM PromotionTakesAllAlways == Spec => []PromotionTakesAll
<1>1. LeaseInv => PromotionTakesAll
  BY DEF LeaseInv, PromotionCarries, PromotionTakesAll, At, Fetched
<1>. QED  BY <1>1, LeaseInvariant, PTL

\* A tw that takes the lease back has every commit of nl's but the protocol sync's
\* last and the one write, if any, that was past nl's fence when the drain ended:
\* however long a write takes, whatever push is lost or refused.
THEOREM HandbackTakesAllAlways == Spec => []HandbackTakesAll
<1>1. LeaseInv => HandbackTakesAll
  BY DEF LeaseInv, HandbackCarries, HandbackTakesAll, ScriptShape, Returning, At, Fetched
<1>. QED  BY <1>1, LeaseInvariant, PTL
=============================================================================
