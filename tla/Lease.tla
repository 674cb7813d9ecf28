-------------------------------- MODULE Lease --------------------------------
(***************************************************************************)
(* The writer lease of replication/: two nodes, tw (home) and nl           *)
(* (standby), each with a role, a READONLY flag and a running or stopped   *)
(* memory unit; a working tree on each node, the bare vault on nl and the  *)
(* copy on GitHub; the DNS records that send clients to a node.  The       *)
(* operator's two scripts, mem-promote-nl and mem-handback-tw, run step by *)
(* step and may die anywhere; the timers (push, update, heartbeat, protocol *)
(* sync), clients, reboots and a broken link come in between.              *)
(*                                                                         *)
(* One vault instance is modelled: the scripts loop over instances.        *)
(***************************************************************************)
EXTENDS FiniteSets

CONSTANTS
    Host,           \* PUBLIC_HOSTS
    Commit,         \* bound: commits there can be at once
    NoCommit,
    Heartbeats,     \* memheartbeat.timer is on at tw
    Outages,        \* tw may be cut off from everything
    ProtocolSync    \* this vault is in PROTO_TARGETS

ASSUME HostAssumption  == Host # {} /\ IsFiniteSet(Host)
ASSUME CommitAssumption == NoCommit \notin Commit
ASSUME SwitchAssumption ==
    {Heartbeats, Outages, ProtocolSync} \subseteq BOOLEAN

Node   == {"tw", "nl"}
Remote == {"vault", "gh"}          \* memsync-push's REMOTES, on either node
History == SUBSET Commit           \* never a merge: its commits determine a chain
Other(n) == IF n = "tw" THEN "nl" ELSE "tw"

VARIABLES
    role,     \* ROLE_FILE
    unit,     \* the memory unit runs
    flag,     \* READONLY, by its reason: "none" is no flag
    busy,     \* a write past the READONLY re-check, not committed yet, if any
    hist,     \* the working tree's HEAD
    store,    \* the vault and GitHub
    pushed,   \* remotes known to hold the node's HEAD (repl/pushed.<inst>.<remote>)
    updater,  \* memvault-update.path is enabled on nl
    dns,      \* where each host's CNAME points
    routes,   \* the nodes the edge still sends a host's requests to
    online,   \* tw reaches, and is reached from, the outside
    op,       \* the operator's running script
    forced,   \* history: nl was promoted while tw still held the lease
    whole,    \* history: the last dns_point_all ended, with no failed rollback
    synced,   \* history: commits of the protocol sync on a READONLY nl
    late      \* history: the write past nl's fence that outlasted the drain, if any

lease == <<role, unit, flag, busy>>
trees == <<hist, store, pushed>>
edge  == <<dns, routes>>
marks == <<forced, whole, synced, late>>
vars  == <<lease, trees, updater, edge, online, op, marks>>

NoOp == [script |-> "none", pc |-> "idle", pr |-> "none", want |-> {},
         fenced |-> FALSE, go |-> "take", todo |-> {}, clean |-> TRUE]

Pc == {"idle", "ask", "fence", "compare", "updater", "prepare", "drain", "final",
       "heads", "fetch", "dns", "rollback", "role", "flags", "units", "release",
       "abort", "aborted", "done"}
OpShape == [script : {"none", "promote", "handback"}, pc : Pc,
            pr : {"none", "primary", "standby", "fenced"}, want : History,
            fenced : BOOLEAN, go : {"take", "recheck", "back"},
            todo : SUBSET Host, clean : BOOLEAN]

TypeOK ==
    /\ role \in [Node -> {"primary", "standby", "fenced"}]
    /\ unit \in [Node -> BOOLEAN]
    /\ flag \in [Node -> {"none", "handback", "fence", "reject"}]
    /\ busy \in [Node -> Commit \union {NoCommit}]
    /\ hist \in [Node -> History]
    /\ store \in [Remote -> History]
    /\ pushed \in [Node -> SUBSET Remote]
    /\ updater \in BOOLEAN
    /\ dns \in [Host -> Node]
    /\ routes \in [Host -> SUBSET Node]
    /\ online \in BOOLEAN
    /\ op \in OpShape
    /\ forced \in BOOLEAN
    /\ whole \in BOOLEAN
    /\ synced \in History
    /\ late \in History

Init ==
    /\ role = [n \in Node |-> IF n = "tw" THEN "primary" ELSE "standby"]
    /\ unit = [n \in Node |-> n = "tw"]
    /\ flag = [n \in Node |-> "none"]
    /\ busy = [n \in Node |-> NoCommit]
    /\ hist = [n \in Node |-> {}]
    /\ store = [r \in Remote |-> {}]
    /\ pushed = [n \in Node |-> {}]
    /\ updater = TRUE
    /\ dns = [h \in Host |-> "tw"]
    /\ routes = [h \in Host |-> {"tw"}]
    /\ online = TRUE
    /\ op = NoOp
    /\ forced = FALSE /\ whole = TRUE /\ synced = {} /\ late = {}

Reachable(n) == n = "nl" \/ online
Comparable(a, b) == a \subseteq b \/ b \subseteq a    \* classify # diverged

-----------------------------------------------------------------------------
(***************************************************************************)
(* The nodes: clients' writes, pushes, the standby's updater.              *)
(***************************************************************************)

\* A new commit is one that no tree, remote, mark or write in flight has.
Fresh == Commit \ ( UNION {hist[n] : n \in Node} \union UNION {store[r] : r \in Remote}
                    \union {busy[n] : n \in Node} \union synced \union late )

Accepts(n) == unit[n] /\ flag[n] = "none"

\* A client's write passes the READONLY re-check (main.py, replflag.py) ...
WriteStart(n) ==
    /\ Accepts(n) /\ busy[n] = NoCommit
    /\ Reachable(n) /\ \E h \in Host : n \in routes[h]
    /\ \E c \in Fresh : busy' = [busy EXCEPT ![n] = c]
    /\ UNCHANGED <<role, unit, flag, trees, updater, edge, online, op, marks>>

\* ... and is committed.
WriteCommit(n) ==
    /\ busy[n] # NoCommit
    /\ hist' = [hist EXCEPT ![n] = @ \union {busy[n]}]
    /\ pushed' = [pushed EXCEPT ![n] = {}]
    /\ busy' = [busy EXCEPT ![n] = NoCommit]
    /\ UNCHANGED <<role, unit, flag, store, updater, edge, online, op, marks>>

\* memprotocol-sync commits on the lease holder; it does not look at READONLY.
SyncCommits(n) ==
    /\ ProtocolSync /\ role[n] = "primary"
    /\ \E c \in Fresh :
        /\ hist' = [hist EXCEPT ![n] = @ \union {c}]
        /\ synced' = IF n = "tw" \/ flag[n] = "none" THEN synced ELSE synced \union {c}
    /\ pushed' = [pushed EXCEPT ![n] = {}]
    /\ UNCHANGED <<lease, store, updater, edge, online, op, forced, whole, late>>

\* Somebody else pushes to GitHub.
ForeignPush ==
    /\ \E c \in Fresh : store' = [store EXCEPT !["gh"] = @ \union {c}]
    /\ UNCHANGED <<lease, hist, pushed, updater, edge, online, op, marks>>

\* memsync-push of history H: the remotes it asks, those that refuse because H
\* does not contain what they hold, and what it leaves behind.
Asked(n, lost)      == Remote \ (pushed[n] \union lost)
Refusing(n, H, lost) == {r \in Asked(n, lost) : ~(store[r] \subseteq H)}
Taking(n, H, lost)  == Asked(n, lost) \ Refusing(n, H, lost)

PushOk(n, H, lost) == lost \subseteq pushed[n] /\ Refusing(n, H, lost) = {}

Push(n, H, lost) ==
    /\ store' = [r \in Remote |-> IF r \in Taking(n, H, lost) THEN H ELSE store[r]]
    /\ pushed' = [pushed EXCEPT ![n] = @ \union Taking(n, H, lost)]

\* The remotes a push from n may fail to reach.
Losses(n) == IF Reachable(n) THEN SUBSET Remote ELSE {Remote}

\* A rejection raises READONLY: the remote holds what H lacks, or it refused for a
\* reason of its own and the fetch that was to tell which of the two failed.
Flags(n, H, lost) ==
    \/ Refusing(n, H, lost) = {} /\ UNCHANGED flag
    \/ /\ Refusing(n, H, lost) # {} \/ (Reachable(n) /\ lost \ pushed[n] # {})
       /\ flag' = [flag EXCEPT ![n] = "reject"]

\* The push timer and the post-commit hook.
PushTimer(n, lost) ==
    /\ role[n] = "primary" /\ flag[n] = "none"
    /\ lost \in Losses(n) /\ Asked(n, lost) # {}
    /\ Push(n, hist[n], lost)
    /\ Flags(n, hist[n], lost)
    /\ UNCHANGED <<role, unit, busy, hist, updater, edge, online, op, marks>>

\* A person who has seen the notification removes the flag.
PersonClears(n) ==
    /\ flag[n] = "reject"
    /\ flag' = [flag EXCEPT ![n] = "none"]
    /\ UNCHANGED <<role, unit, busy, trees, updater, edge, online, op, marks>>

\* pushed.* name the head they were written for: another head was not pushed yet.
Unpushed(n) == pushed' = [pushed EXCEPT ![n] = IF hist'[n] = hist[n] THEN @ ELSE {}]

\* Seeded fault: the tree is reset to the remote's head.
FastForwardForced(n, H) == hist' = [hist EXCEPT ![n] = H]

\* ff_to: only to a history that contains the present one.
FastForward(n, H) == hist' = [hist EXCEPT ![n] = IF @ \subseteq H THEN H ELSE @]

\* memvault-update on the standby.
Update ==
    /\ role["nl"] = "standby" /\ updater
    /\ hist["nl"] \subseteq store["vault"] /\ hist["nl"] # store["vault"]
    /\ FastForward("nl", store["vault"])
    /\ Unpushed("nl")
    /\ UNCHANGED <<lease, store, updater, edge, online, op, marks>>

\* units_stop: a write in flight is committed first, or lost.
AfterStop(n) == {hist[n], hist[n] \union ({busy[n]} \ {NoCommit})}
Stop(n) == /\ unit' = [unit EXCEPT ![n] = FALSE]
           /\ busy' = [busy EXCEPT ![n] = NoCommit]

\* fence_self
FenceSelf(n) ==
    /\ Stop(n)
    /\ \E H \in AfterStop(n) : hist' = [hist EXCEPT ![n] = H]
    /\ Unpushed(n)
    /\ role' = [role EXCEPT ![n] = "fenced"]
    /\ flag' = [flag EXCEPT ![n] = "fence"]
    /\ forced' = FALSE
    /\ UNCHANGED <<store, updater, edge, online, op, whole, synced, late>>

\* The nodes that all public hostnames may be found to be served by, seen from n.
\* A probe may always go unanswered, and the hostnames may disagree.
PublicNode(n) ==
    {m \in Node : /\ unit[m] /\ Reachable(m) /\ Reachable(n)
                  /\ \A h \in Host : m \in routes[h]}

\* memheartbeat, every minute at tw: its two reasons to give up the lease.
HeartbeatPublic ==
    /\ Heartbeats /\ role["tw"] = "primary" /\ "nl" \in PublicNode("tw")
    /\ FenceSelf("tw")

\* Seeded fault: the peer's word counts only once the hostnames agree with it.
HeartbeatPeerWaits ==
    /\ Heartbeats /\ role["tw"] = "primary" /\ online /\ role["nl"] = "primary"
    /\ "nl" \in PublicNode("tw")
    /\ FenceSelf("tw")

HeartbeatPeer ==
    /\ Heartbeats /\ role["tw"] = "primary" /\ online /\ role["nl"] = "primary"
    /\ FenceSelf("tw")

-----------------------------------------------------------------------------
(***************************************************************************)
(* The surroundings.                                                       *)
(***************************************************************************)

\* A minute or so after a CNAME changed, the edge follows.
EdgeSettles(h) ==
    /\ routes[h] # {dns[h]}
    /\ routes' = [routes EXCEPT ![h] = {dns[h]}]
    /\ UNCHANGED <<lease, trees, updater, dns, online, op, marks>>

Isolate ==
    /\ Outages /\ online
    /\ online' = FALSE
    /\ UNCHANGED <<lease, trees, updater, edge, op, marks>>

Reconnect ==
    /\ ~online
    /\ online' = TRUE
    /\ UNCHANGED <<lease, trees, updater, edge, op, marks>>

Home == IF op.script = "promote" THEN "nl" ELSE "tw"   \* where the script runs

\* memgate lets a unit start only where ROLE=primary.
Reboot(n) ==
    /\ unit' = [unit EXCEPT ![n] = role[n] = "primary"]
    /\ busy' = [busy EXCEPT ![n] = NoCommit]
    /\ op' = IF op # NoOp /\ Home = n THEN NoOp ELSE op
    /\ UNCHANGED <<role, flag, trees, updater, edge, online, marks>>

\* The script is killed (its ssh session, the operator).
ScriptDies ==
    /\ op # NoOp
    /\ op' = NoOp
    /\ UNCHANGED <<lease, trees, updater, edge, online, marks>>

-----------------------------------------------------------------------------
(***************************************************************************)
(* dns_point_all: every host to To, or -- after a failure -- every host    *)
(* back.  A lookup or a point may fail, a point although it took effect.   *)
(***************************************************************************)
To   == IF op.go = "back" THEN Other(Home) ELSE Home
Back == Other(To)

StartDns(o, go) == [o EXCEPT !.pc = "dns", !.go = go, !.want = {}, !.todo = Host, !.clean = TRUE]

\* Seeded fault: an abort's own move back aborts again when it has ended.
AfterDnsAgain(good) ==
    IF op.go = "recheck" THEN (IF op.script = "promote" THEN "units" ELSE "release")
    ELSE IF good /\ op.go = "take" THEN "role" ELSE "abort"

\* Where the script goes once the loop has ended.
AfterDns(good) ==
    IF op.go = "back" THEN "aborted"
    ELSE IF op.go = "recheck" THEN (IF op.script = "promote" THEN "units" ELSE "release")
    ELSE IF good THEN "role" ELSE "abort"

Point(h, n) == /\ dns' = [dns EXCEPT ![h] = n]
               /\ routes' = [routes EXCEPT ![h] = @ \union {n}]

\* Seeded fault: only the hosts before the failed one are taken back.
DnsStepForgets(h) ==
    /\ op.pc = "dns" /\ h \in op.todo
    /\ \/ /\ dns[h] = To \/ Reachable(Home)
          /\ Point(h, To)
          /\ op' = [op EXCEPT !.todo = @ \ {h},
                              !.pc = IF op.todo = {h} THEN AfterDns(TRUE) ELSE @]
          /\ whole' = (op.todo = {h})
       \/ /\ UNCHANGED edge \/ (Reachable(Home) /\ Point(h, To))
          /\ op' = [op EXCEPT !.todo = Host \ @,
                              !.pc = IF op.todo = Host THEN AfterDns(FALSE) ELSE "rollback"]
          /\ whole' = (op.todo = Host)
    /\ UNCHANGED <<lease, trees, updater, online, forced, synced, late>>

DnsStep(h) ==
    /\ op.pc = "dns" /\ h \in op.todo
    /\ \/ /\ dns[h] = To \/ Reachable(Home)
          /\ Point(h, To)
          /\ op' = [op EXCEPT !.todo = @ \ {h},
                              !.pc = IF op.todo = {h} THEN AfterDns(TRUE) ELSE @]
          /\ whole' = (op.todo = {h})
       \/ /\ UNCHANGED edge \/ (Reachable(Home) /\ Point(h, To))
          /\ op' = [op EXCEPT !.todo = Host, !.pc = "rollback"]
          /\ whole' = FALSE
    /\ UNCHANGED <<lease, trees, updater, online, forced, synced, late>>

\* Not just the hosts this run moved: every host.
RollbackStep(h) ==
    /\ op.pc = "rollback" /\ h \in op.todo
    /\ \E ok \in BOOLEAN :
          /\ IF ok THEN /\ dns[h] = Back \/ Reachable(Home)
                        /\ Point(h, Back)
             ELSE UNCHANGED edge
          /\ op' = [op EXCEPT !.todo = @ \ {h}, !.clean = @ /\ ok,
                              !.pc = IF op.todo = {h} THEN AfterDns(FALSE) ELSE @]
          /\ whole' = (op.todo = {h} /\ op.clean /\ ok)
    /\ UNCHANGED <<lease, trees, updater, online, forced, synced, late>>

-----------------------------------------------------------------------------
(***************************************************************************)
(* mem-promote-nl.                                                         *)
(***************************************************************************)
At(script, pc) == op.script = script /\ op.pc = pc
Goto(pc) == op' = [op EXCEPT !.pc = pc]

PromoteStart ==
    /\ op = NoOp
    /\ LET o == [NoOp EXCEPT !.script = "promote", !.pc = "ask"] IN
       op' = IF role["nl"] = "primary" THEN StartDns(o, "recheck") ELSE o
    /\ UNCHANGED <<lease, trees, updater, edge, online, marks>>

\* peer_status; without an answer, the public hostnames decide.
PromoteAsk ==
    /\ At("promote", "ask")
    /\ \/ /\ online
          /\ op' = [op EXCEPT !.pr = role["tw"],
                              !.pc = IF role["tw"] = "primary" THEN "fence" ELSE "updater"]
       \/ "tw" \in PublicNode("nl") /\ Goto("abort")
       \/ Goto("updater")
    /\ UNCHANGED <<lease, trees, updater, edge, online, marks>>

\* memctl fence on tw: stop, push, give up the lease, say where it stands.  The
\* answer may get lost.
PromoteFence ==
    /\ At("promote", "fence")
    /\ \/ Goto("abort") /\ UNCHANGED <<lease, trees, marks>>
       \/ /\ online
          /\ role["tw"] # "primary"
          /\ op' = [op EXCEPT !.pc = "compare", !.fenced = TRUE, !.want = hist["tw"]]
          /\ UNCHANGED <<lease, trees, marks>>
       \/ /\ online
          /\ role["tw"] = "primary"
          /\ Stop("tw")
          /\ \E H \in AfterStop("tw"), lost \in Losses("tw") :
                /\ hist' = [hist EXCEPT !["tw"] = H]
                /\ Push("tw", H, lost)
                /\ \/ op' = [op EXCEPT !.pc = "compare", !.fenced = TRUE, !.want = H]
                   \/ Goto("abort")
          /\ role' = [role EXCEPT !["tw"] = "fenced"]
          /\ flag' = [flag EXCEPT !["tw"] = "fence"]
          /\ UNCHANGED marks
    /\ UNCHANGED <<updater, edge, online>>

\* Seeded fault: the heads are not compared.
PromoteCompareNot ==
    /\ At("promote", "compare")
    /\ Goto("updater")
    /\ UNCHANGED <<lease, trees, updater, edge, online, marks>>

\* tw's head must be in the vault.
PromoteCompare ==
    /\ At("promote", "compare")
    /\ Goto("abort") \/ (op.want = store["vault"] /\ Goto("updater"))
    /\ UNCHANGED <<lease, trees, updater, edge, online, marks>>

\* Updater off; catch up with the vault, or abort on a fork.
PromoteUpdater ==
    /\ At("promote", "updater")
    /\ updater' = FALSE
    /\ \/ Goto("abort") /\ UNCHANGED trees
       \/ /\ Comparable(hist["nl"], store["vault"])
          /\ FastForward("nl", store["vault"])
          /\ Unpushed("nl")
          /\ op' = StartDns(op, "take")
          /\ UNCHANGED store
    /\ UNCHANGED <<lease, edge, online, marks>>

\* abort: the updater back on, and tw un-fenced if this run fenced it.
PromoteAbort ==
    /\ At("promote", "abort")
    /\ updater' = TRUE
    /\ op' = NoOp
    /\ \/ UNCHANGED lease
       \/ /\ op.fenced /\ online /\ role["tw"] = "fenced"
          /\ role' = [role EXCEPT !["tw"] = "primary"]
          /\ flag' = [flag EXCEPT !["tw"] = "none"]
          /\ unit' = [unit EXCEPT !["tw"] = TRUE]
          /\ UNCHANGED busy
    /\ UNCHANGED <<trees, edge, online, marks>>

-----------------------------------------------------------------------------
(***************************************************************************)
(* mem-handback-tw.                                                        *)
(***************************************************************************)

\* peer_status; a tw that is primary already only finishes an earlier run.
HandbackStart ==
    /\ op = NoOp /\ online
    /\ LET o == [NoOp EXCEPT !.script = "handback", !.pr = role["nl"]] IN
       op' = IF role["tw"] = "primary" THEN StartDns(o, "recheck")
             ELSE IF role["nl"] = "primary" THEN [o EXCEPT !.pc = "prepare"]
             ELSE [o EXCEPT !.pc = "fetch", !.want = hist["nl"]]
    /\ late' = {}
    /\ UNCHANGED <<lease, trees, updater, edge, online, forced, whole, synced>>

\* Seeded fault: nl is asked for its heads without READONLY.
HandbackPrepareOpen ==
    /\ At("handback", "prepare") /\ online /\ role["nl"] = "primary"
    /\ Goto("drain")
    /\ UNCHANGED <<lease, trees, updater, edge, online, marks>>

\* memctl prepare-handback on nl: READONLY, drain, final push, heads.
HandbackPrepare ==
    /\ At("handback", "prepare") /\ online /\ role["nl"] = "primary"
    /\ flag' = [flag EXCEPT !["nl"] = "handback"]
    /\ Goto("drain")
    /\ UNCHANGED <<role, unit, busy, trees, updater, edge, online, marks>>

\* The wait for a write past the fence ends with the first moment in which there
\* is no index.lock, or after 35 s, and DRAIN_SECS: the write may outlast it.
HandbackDrain ==
    /\ At("handback", "drain")
    /\ late' = {busy["nl"]} \ {NoCommit}
    /\ Goto("final")
    /\ UNCHANGED <<lease, trees, updater, edge, online, forced, whole, synced>>

HandbackFinal(lost) ==
    /\ At("handback", "final") /\ lost \in Losses("nl")
    /\ Push("nl", hist["nl"], lost)
    /\ Flags("nl", hist["nl"], lost)
    /\ Goto(IF PushOk("nl", hist["nl"], lost) THEN "heads" ELSE "abort")
    /\ UNCHANGED <<role, unit, busy, hist, updater, edge, online, marks>>

HandbackHeads ==
    /\ At("handback", "heads")
    /\ op' = [op EXCEPT !.pc = "fetch", !.want = hist["nl"]]
    /\ UNCHANGED <<lease, trees, updater, edge, online, marks>>

\* Any of these calls, the fetch or the copy of the state files may fail.
HandbackFails ==
    /\ op.script = "handback"
    /\ op.pc \in {"prepare", "drain", "final", "heads", "fetch"}
    /\ Goto("abort")
    /\ UNCHANGED <<lease, trees, updater, edge, online, marks>>

\* Seeded fault: what nl said of its heads is not compared with the vault.
HandbackFetchUnseen ==
    /\ At("handback", "fetch") /\ online
    /\ Comparable(hist["tw"], store["vault"])
    /\ FastForward("tw", store["vault"])
    /\ Unpushed("tw")
    /\ op' = StartDns(op, "take")
    /\ UNCHANGED <<lease, store, updater, edge, online, marks>>

\* tw catches up with the vault: nothing it lacks, and no fork with nl or (if
\* GitHub answers) with GitHub.
HandbackFetch ==
    /\ At("handback", "fetch") /\ online
    /\ op.want = store["vault"]
    /\ Comparable(hist["tw"], store["vault"])
    /\ FastForward("tw", store["vault"])
    /\ Unpushed("tw")
    /\ op' = StartDns(op, "take")
    /\ UNCHANGED <<lease, store, updater, edge, online, marks>>

\* abort-handback lifts nl's READONLY if it still is the handback's; hosts that
\* point at tw go back.
HandbackAbort ==
    /\ At("handback", "abort")
    /\ \/ UNCHANGED flag
       \/ /\ op.pr = "primary" /\ online /\ flag["nl"] = "handback"
          /\ flag' = [flag EXCEPT !["nl"] = "none"]
    /\ \/ (\E h \in Host : dns[h] = "tw") /\ op' = StartDns(op, "back")
       \/ op' = NoOp      \* none does, or the lookups fail
    /\ UNCHANGED <<role, unit, busy, trees, updater, edge, online, marks>>

-----------------------------------------------------------------------------
(***************************************************************************)
(* What both scripts end with.                                             *)
(***************************************************************************)

TakeRole ==
    /\ op.pc = "role"
    /\ role' = [role EXCEPT ![Home] = "primary"]
    /\ forced' = (op.script = "promote" /\ role["tw"] = "primary")
    /\ Goto("flags")
    /\ UNCHANGED <<unit, flag, busy, trees, updater, edge, online, whole, synced, late>>

ClearFlags ==
    /\ op.pc = "flags"
    /\ flag' = [flag EXCEPT ![Home] = "none"]
    /\ Goto("units")
    /\ UNCHANGED <<role, unit, busy, trees, updater, edge, online, marks>>

\* units_start; memgate skips it where the role has gone.
StartUnits ==
    /\ op.pc = "units"
    /\ unit' = [unit EXCEPT ![Home] = @ \/ role[Home] = "primary"]
    /\ op' = IF op.script = "promote" THEN NoOp ELSE [op EXCEPT !.pc = "release"]
    /\ UNCHANGED <<role, flag, busy, trees, updater, edge, online, marks>>

\* memctl release on nl, once the edge has settled or was waited for long enough.
Release ==
    /\ At("handback", "release")
    /\ Goto("done")
    /\ \/ UNCHANGED <<lease, trees, updater, forced>>
       \/ /\ op.pr = "primary" /\ online /\ role["nl"] = "primary"
          /\ Stop("nl")
          /\ \E H \in AfterStop("nl") : hist' = [hist EXCEPT !["nl"] = H]
          /\ Unpushed("nl")
          /\ role' = [role EXCEPT !["nl"] = "standby"]
          /\ flag' = [flag EXCEPT !["nl"] = "none"]
          /\ updater' = TRUE
          /\ forced' = FALSE
          /\ UNCHANGED store
    /\ UNCHANGED <<edge, online, whole, synced, late>>

\* The script's last message is out.  (mem-handback-tw's closing push is one more
\* PushTimer: same guards, and as free to fail.)
OpEnds ==
    /\ op.pc \in {"done", "aborted"}
    /\ op' = NoOp
    /\ UNCHANGED <<lease, trees, updater, edge, online, marks>>

-----------------------------------------------------------------------------
NodeStep(n) == \/ WriteStart(n) \/ WriteCommit(n) \/ SyncCommits(n)
               \/ \E lost \in SUBSET Remote : PushTimer(n, lost)
               \/ PersonClears(n) \/ Reboot(n)

Promote == PromoteStart \/ PromoteAsk \/ PromoteFence \/ PromoteCompare
           \/ PromoteUpdater \/ PromoteAbort

Handback == \/ HandbackStart \/ HandbackPrepare \/ HandbackDrain
            \/ \E lost \in SUBSET Remote : HandbackFinal(lost)
            \/ HandbackHeads \/ HandbackFails \/ HandbackFetch \/ HandbackAbort
            \/ Release

Script == \/ Promote \/ Handback
          \/ \E h \in Host : DnsStep(h) \/ RollbackStep(h)
          \/ TakeRole \/ ClearFlags \/ StartUnits \/ OpEnds

Next == \/ \E n \in Node : NodeStep(n)
        \/ ForeignPush \/ Update \/ HeartbeatPublic \/ HeartbeatPeer
        \/ \E h \in Host : EdgeSettles(h)
        \/ Isolate \/ Reconnect \/ ScriptDies
        \/ Script

Spec == Init /\ [][Next]_vars

\* memheartbeat.timer fires every minute; a script's process runs.
FairSpec == Spec /\ WF_vars(HeartbeatPeer) /\ WF_vars(Script)

-----------------------------------------------------------------------------

\* At most one node accepts writes, unless nl was promoted over a tw that could
\* not be reached and has not heard of it yet ("At every step at most one node
\* accepts writes", mem-handback-tw).
OneWriter == Accepts("tw") /\ Accepts("nl") => forced

\* No step takes a commit out of a history: neither a fetch, a push, a takeover
\* nor a fork ("DIVERGED -> abort, no merge").
HistoryKept ==
    [][ /\ \A n \in Node : hist[n] \subseteq hist'[n]
        /\ \A r \in Remote : store[r] \subseteq store'[r] ]_vars

\* When tw has taken the lease back it has every commit nl made, but for what the
\* protocol sync, which does not look at READONLY, added after the fence, and for
\* one write at most: the one already past the fence when READONLY was set, if it
\* was still under way when the drain ended (memctl:46-52).  A lost or refused
\* push, a head that moved and a write begun later cost nothing.
HandbackTakesAll ==
    At("handback", "flags") => hist["nl"] \subseteq hist["tw"] \union synced \union late

\* A promotion that fenced tw itself takes over with tw's heads in nl's tree
\* ("its heads must then be in our vault", mem-promote-nl:8).
PromotionTakesAll ==
    (At("promote", "flags") /\ op.fenced) => hist["tw"] \subseteq hist["nl"]

\* All hosts move, or none does: after a dns_point_all whose rollback, if any,
\* met no failure, every host points at one node.
HostsTogether == whole => \A g, h \in Host : dns[g] = dns[h]

\* A tw promoted over while cut off fences itself once it is back ("it fences
\* itself on reconnect"): the window OneWriter excepts ends.
ForcedEnds == forced ~> (~forced \/ ~online)

\* Either script, alive and whatever fails around it, comes to its end.
ScriptEnds == op # NoOp ~> op = NoOp

-----------------------------------------------------------------------------
(***************************************************************************)
(* The invariant behind OneWriter, HostsTogether, PromotionTakesAll and    *)
(* HandbackTakesAll, each part with the rule of the scripts that keeps it. *)
(***************************************************************************)

\* The script's places up to its takeover, and those after which nothing aborts.
Asking  == {"ask", "fence", "compare", "updater", "prepare", "drain", "final",
            "heads", "fetch", "role", "abort"}
Before  == Asking \union {"dns", "rollback"}
Fetched == {"dns", "rollback", "role", "flags"}
Returning == op.script = "handback" /\ op.go = "take"

\* Which place goes with which kind of run.
ScriptShape ==
    /\ op.script = "none" => op = NoOp
    /\ op.pc \in Asking \union {"flags"} => op.go = "take"
    /\ op.fenced => /\ op.script = "promote" /\ op.go = "take"
                    /\ op.pc \notin {"ask", "fence"}

\* memgate: a unit runs only on a node that holds the lease, and writes only if it runs.
UnitsHoldLease == \A n \in Node : /\ unit[n] => role[n] = "primary"
                                  /\ busy[n] # NoCommit => unit[n]

\* A script takes what its node does not hold, and two nodes hold the lease only
\* over a READONLY nl or by force.
LeaseTaken ==
    /\ (op.script # "none" /\ op.go = "take" /\ op.pc \in Before) => role[Home] # "primary"
    /\ (At("promote", "flags") /\ role["tw"] = "primary") => forced
    /\ (Returning /\ op.pc \in Fetched \union {"drain", "final", "heads", "fetch"}
                /\ role["nl"] = "primary") => flag["nl"] = "handback"
    /\ (role["tw"] = "primary" /\ role["nl"] = "primary" /\ ~forced)
          => flag["nl"] = "handback"

\* The hosts a loop has done are where it takes them.
LoopMoves ==
    /\ op.pc = "dns" => \A h \in Host \ op.todo : dns[h] = To
    /\ (op.pc = "rollback" /\ op.clean) => \A h \in Host \ op.todo : dns[h] = Back
    /\ whole => \A g, h \in Host : dns[g] = dns[h]

\* A promotion that fenced tw carries tw's heads: to the vault, then into nl's tree.
PromotionCarries == op.fenced =>
    /\ op.pc \in {"compare", "updater"} \union Fetched => role["tw"] # "primary"
    /\ op.pc = "compare" => op.want = hist["tw"]
    /\ op.pc = "updater" => hist["tw"] \subseteq store["vault"]
    /\ op.pc \in Fetched => hist["tw"] \subseteq hist["nl"]

\* A handback carries nl's; a write left past nl's fence is the one noted.
HandbackCarries == Returning =>
    /\ op.pc \in {"final", "heads", "fetch"} \union Fetched =>
           busy["nl"] \in {NoCommit} \union late
    /\ op.pc = "fetch" =>
           hist["nl"] \subseteq op.want \union store["vault"] \union synced \union late
    /\ op.pc \in Fetched => /\ hist["nl"] \subseteq hist["tw"] \union synced \union late
                            /\ store["vault"] \subseteq hist["tw"]

\* The inductive invariant: what both scripts rely on between any two of their
\* steps, whatever timers, clients, reboots and outages do.
LeaseInv == /\ TypeOK /\ ScriptShape /\ UnitsHoldLease /\ LeaseTaken /\ LoopMoves
            /\ PromotionCarries /\ HandbackCarries

-----------------------------------------------------------------------------
\* What comments and the README say of the scripts, and the code does not do.

\* "handback complete: $NODE is primary" (mem-handback-tw:105).
HandbackEndsPrimary ==
    (At("handback", "done") /\ op.go = "take") => role["tw"] = "primary"

\* "re-running after a crash mid-way finishes the job" (mem-handback-tw:3).
ResumeFinishes ==
    (At("handback", "done") /\ op.go = "recheck" /\ role["tw"] = "primary") => unit["tw"]
=============================================================================
