# TLA+ models of claude-memory-web

claude-memory-web keeps Markdown notes ("categories" under `/memory`, working
documents under `/docs`) in a git repository and serves them over HTTP, MCP and
a web page.  One node holds a writer lease; a standby and GitHub follow.  This
directory models the parts whose behaviour depends on order, failure and time,
checks them with TLC on small instances, and proves what matters most with the
TLA+ proof system for all instances.

## 1. The system

| Part | Source | State | Operations | Talks to |
|---|---|---|---|---|
| Write path | `main.py` (routes from line 1888), `replflag.py` | working tree, git index and HEAD, `index.lock`, `_write_lock`, READONLY | PUT, DELETE, section PUT and DELETE on `/memory` and `/docs`; restart | git; reads the roster, passes, the READONLY file |
| Container passes | `passes.py` | table in memory | issue, verify, alive, revoke, list | write path (`check_doc_auth`, `put_doc`) |
| Protocol sync | `replication/memprotocol-sync` | none of its own | render, compare, `mv`, commit with retries | the write path's working tree and `index.lock`, without its lock |
| Writer lease | `replication/lib.sh`, `memctl`, `mem-promote-nl`, `mem-handback-tw`, `memgate` | ROLE, READONLY, ALERT per node; units; DNS | promote, hand back, fence, unfence, release, reboot | both nodes over ssh, Cloudflare, systemd |
| Push and update | `memsync-push`, `memvault-update`, post-commit hook | histories of two trees, a bare vault, GitHub; `pushed.*` | push, fast-forward | the lease (role), READONLY |
| Heartbeat | `memheartbeat`, `memheartbeat-check` | reports | self-fence, alerts | the lease |
| State files | `memstate-sync`, `memstate-xfer`, `lib.sh` 158-210 | `.env`, keys, grants, passkeys on each node | copy on a timer and at handback | the lease |
| Documents | `main.py` 630-895 | none (pure text) | find, upsert, rename, delete a `## ` section | write path |
| Sessions, throttle | `webauth.py`, login routes | signed cookies, attempt table | login, GitHub/Google sign-in, challenges | passkeys |
| API keys | `apikeys.py` | table in memory and on disk | mint, verify, touch, revoke | every route |
| OAuth server | `mcpoauth.py`, routes from 2301 | clients, codes, grants | register, authorise, redeem, refresh, revoke | `/mcp` |
| Download tokens | `dstokens.py` | leases in memory | issue, extend, use, end | `/docs` |
| Passkeys | `passkeys.py` | credentials on disk | register, sign in, remove | sessions |
| MCP tools | `mcpserver.py` | none | map tool calls to the routes | write path |
| Search, index, pins | `main.py`, `searchrank.py` | one cache | read-only views | working tree |
| Web page | `web/*.js` | drafts in the browser | edit, save, resolve a conflict | write path |
| Tools | `clients/memfiles.py`, `manage_auth.py` | none | pack and unpack files; edit auth.json | write path, sessions |

What is hard in it: requests that await their body between two checks; one lock
held across git calls that may time out; a second process that writes the same
tree; operator scripts that span two machines, may die anywhere and are run
again; messages and pushes that get lost or take effect without an answer; DNS
that follows late.  `PROJECT.json` lists each hazard at its line, with the
property that would catch it.

## 2. The modules

### VaultStore: the write path

One action per step of `put_category` / `put_doc` / `delete_*`, at the
granularity at which something else can come in between:

| Action | Code |
|---|---|
| `Arrive` | middleware, credential, name checks, up to the `await` of the body |
| `BodyIn`, `Acquire` | body complete; `_write_lock`, first come first served |
| `CheckPasses`, `CheckRefuses` | what `write()` checks in the worker thread (`Clear`): pass still alive, READONLY, If-Match / If-None-Match, roster, the section edit itself |
| `Truncate`, `Fill`, `FillFails`, `Unlink` | `write_bytes` empties the file, then fills it, or cannot; `unlink` |
| `GitAdd`, `AddFails`, `GitCommit`, `CommitFails` | `_git_commit`; a killed git may leave `index.lock` and may have moved HEAD |
| `Respond` | 200 with ETag and, after a failed commit, `X-Memory-Commit: failed` |
| `Crash`, `Start`, `Age` | process death; `clear_stale_index_lock`; the lock growing older than 60 s |
| `SetReadonly` ... `IssuePass` | the flag file and the pass table change at any moment |
| `SyncStart` ... `SyncCommitFails` | `memprotocol-sync` |

Contents are blob ids; what an edit does to a text is an uninterpreted function
(`Normalise`, `Splice`, `Cut`), so the results do not depend on it.  Three
history variables are not in the code: `warned` (files whose missing commit
somebody was told of), `landed` (writes that reached the disk under READONLY) and
`cutoff` (requests whose pass died in time).

`AtomicVault` is what clients are promised: each accepted write replaces, at one
instant, exactly the content its precondition names.  `VaultStore` implements it
under the mapping at the end of the module (a write takes effect when it empties
the file).

### Lease: failover

Two nodes, `tw` (home) and `nl`.  Histories are sets of commits (there are no
merges, so a set determines the chain and inclusion is ancestry).  `op` is the
running operator script with its program counter and locals; each ssh call, each
CNAME change and each local step is an action, and a call may be lost before or
after it took effect.  `ScriptDies` and `Reboot` interrupt it anywhere.  Timers
(`PushTimer`, `Update`, `HeartbeatPublic`, `HeartbeatPeer`, `SyncCommits`) and
clients (`WriteStart`, `WriteCommit`) run in between.  `routes` is where the edge
may still send requests after a CNAME change.

Assumptions, each a named constant or a stated choice: one vault instance (the
scripts loop over instances); one operator script at a time (nothing in the code
excludes two, the operator does); a timer's job is one step.

`drain` (`memctl` 40-53) goes on at the first moment without an `index.lock`, or after
35 s, and `DRAIN_SECS` later; a write past the fence may take longer (between its
`git add` and its `git commit` there is no lock, and each may take 30 s).  So
`HandbackDrain` may end at any moment, and the history variable `late` holds the write
that was then under way, if there was one.  `Flags` is READONLY after a rejected push,
also one that `memsync-push` could not look into because its `git fetch` failed;
`Unpushed` says that `pushed.*`, which the code compares with HEAD, is void once HEAD
has moved.

### Access: keys, connectors and sign-out-everyone

What outlives a browser session.  A *credential* is an API key or a consent (a
click on Allow, which makes a code and then a grant); `stamp` is its `kv`.

| Action | Code |
|---|---|
| `AskKey`, `AskConsent` | `create_key`, `oauth_authorize_post` up to the `await` of the body: the session is accepted under a keyver, `asked` |
| `MintKey`, `IssueCode`, `Refuse` | ... and after it: the keyver is read again and becomes the stamp |
| `UseKey` | `check_auth` with a key not used today: `touch` saves |
| `DeleteKey`, `RevokeGrant` | `delete_key`, `delete_grant` |
| `Register`, `Redeem`, `Refresh`, `LoseCode` | `register`, `redeem_code` with `_new_grant`, `refresh`; a code that expires or is presented wrongly |
| `SignOutEveryone` | `bump_keyver` in `manage_auth.py`, another process |
| `EditAuth` | auth.json becomes unreadable, or readable again; unreadable reads as keyver 1 |
| `Restart` | the copies in memory are read again, codes are gone |

Both stores follow one pattern, `Save`: the copy in memory is edited, then the
file replaced, then chmod.  An outcome `"unsaved"` leaves the file as it was and
the edit in memory; `"unanswered"` replaces the file and answers 500 all the
same.  So `keys.mem` and `keys.disk` may differ until a restart, and the next
save of anything writes the difference out.  History variables: `note` (what an
asker may believe of a credential), `told` (the newest access token answered),
`late` (made for a session already ended), `buried` (there at a
sign-out-everyone).

Stated choices: the files are readable (a damaged one reads as empty and is
replaced by the next save); an expired credential is one that is not used;
which unused client or old grant makes room is left open, so nothing depends on
the clock; PKCE, redirect and name checks are one refusal each.

### Passkeys: passkeys.json and its two writers

A *record* is one registration; a table gives each record in it its sign counter.
The service's copy in memory (`mem`) comes with `raw`, the rows of the bytes it was
read from, which decides whether the next access reads the file again.

| Action | Code |
|---|---|
| `Issue` | `passkey_options`: the challenge travels in a signed cookie, bound to the process's epoch |
| `Take` | `take_challenge` with `read_challenge`, in a verify route before its `await` |
| `Refuse` | every check of a body (client data, authenticator data, key, signature) that fails: 400, 401 |
| `Add`, `SignIn`, `Delete` | the store's operations up to their save: memory is edited |
| `Save` | `_save_locked`, in four outcomes: answered; replaced but chmod fails; not replaced; no temporary file at all |
| `Read` | listings and `excludeCredentials`: only load |
| `Restart` | memory, the list of spent challenges and all requests are gone |
| `Mangle`, `Remove` | an operator damages, mends or removes the file |

`Delete("tool")` is `manage_auth.py passkey-delete`, which runs in a process of its
own with a store of its own.  Its load and its save are two steps, and so are the
service's; the service's lock means nothing to it.  History variables: `note` (what
became of a record, as far as somebody was told while no other process was writing),
`high` (the highest counter let in), `undone` (records whose counter a write of
`manage_auth.py` put back below it, until a sign-in passes it again), `uses` (how often
a challenge led to something).  A challenge that runs out is one that is not presented; `Attempts`
has the clock.

### Clock, Tickets and Attempts: what lives in memory for a time

`Clock` is the clock of these stores and one observation about them: every
operation reads the clock *before* it waits for its store's lock.  When it acts, its
reading is up to `Lag` old, and two operations may act on readings in the wrong
order (`Reading`).  All bounds of the properties are up to that `Lag`.

`Tickets` has both stores of tickets that die by themselves: container passes
(`passes.py`; using one slides its window) and scoped tokens (`dstokens.py`; only
`renew` does, and ended tokens leave a record).  `Issue`, `Use`, `Renew`, `Revoke`,
`RevokeAll` and `Look` are the operations, each under its store's lock; `Answer`,
`Leave` and `Recheck` are what the request does later that presented a ticket:
`Scoped.call` after its await, or `put_doc` with its body in and the write lock held.

`Attempts` has the login throttle (`Throttle.allow`, `record`) and the list of spent
challenges (`Challenges.spend`) as the routes use them: `Enter` is everything before
a verify route's `await`, with three readings of the clock; `Refused` and `Succeed`
what comes after.  Password, OAuth callback and token routes follow the same
pattern without a challenge.  A failure is a record of when it happened, the how
manieth it was at that address at that time, and the reading it was noted with, so
a set of them is the code's list of times with its repetitions.

Stated choices: the stores' clocks are the same clock and never jump (the throttle
and the cookies use `time.time()`, the tickets `time.monotonic()`); which slugs a
pass or which categories a token covers is a refusal.

### Sections, Documents and MemFiles: what an edit does to a text

`Documents` is the section functions of `main.py` on a text.  A text is what
`split("\n")` makes of it, a sequence of *pieces*.  A piece is a plain line of one of a
few kinds (blank, whitespace, heading, `##` alone, code fence behind so many
backslashes, other), or it is several lines to somebody: a `cut` piece has characters
in it that `splitlines` takes for line ends and `split("\n")` does not (U+2028, a form
feed), a `cr` piece bare carriage returns.  Such a piece has its lines, of any kind, as
its *parts*: `SplitLines` and `Normalise` take them apart, and the patterns
(`Toggles`, `IsHead`, `IsBlank`) see what they see in the code, where `\s` matches a
form feed and `.` does.  So a heading or a fence behind a form feed is one to the
server and none to the client, or the other way round.  A piece with both kinds of
characters in it is left out.  `Headers`, `Bounds`, `BoundsAt`, `NameAt` and `Spans`
are the code's own ways of finding a section, `PutSection`, `DeleteSection` and
`PutWhole` its edits.

`Sections` is what an edit promises: a document is a preamble and a sequence of named
sections, and an edit changes the one it names.  It is exact for a body that is one
section with its fences closed; for any other, everything *above* the place stays.
`Documents` implements it under the mapping `See` (the text as its readers get it).

`MemFiles` adds `clients/memfiles.py`: `Pack` writes a preamble and any number of
files, one section each, as a code block (`Coded`) with lines that `ESC_RE` takes for
fences escaped; `Unpacked` gets a file out again, from the text as it then is, after
other clients edited sections.  The history variable `packed` is what a file should
still come back as.  A file is *not* expected back, each time because the code loses
it, in the cases that three operators name:

- `Held`: its line ends are mixed, it has a bare carriage return in it, or it is a
  line end alone;
- `Peaceful`: it was packed below a preamble with a heading or an open fence, or beside
  a file in which a fence follows a bare carriage return (`normalise_body` makes it a
  line of its own);
- `Spares`: somebody wrote a section with a body that is no section (a fence left open,
  a second heading), or wrote a section by its own name; or any section of the document
  was written while the file had a cut in it (the cut becomes a line end), or while a
  fence or a heading was beside a cut anywhere in the document (the line end turns it
  into one for everybody, or for nobody).

## 3. What is checked

| Run | Instance | Shows |
|---|---|---|
| VaultWrite | 2 clients, 1 file, 4 contents (one CRLF), all edits, right/stale/any/create preconditions | refinement of `AtomicVault` (no lost update), `HistoryLossReported`, `EtagIsAccepted`, `FenceCostsOneWrite` |
| VaultRoster | 2 clients, a roster and a category it gates | `CreatedOnlyIfRostered`, `CommitNamesItsChange`, and that `IInv`, which the proofs use, holds |
| VaultLive | 2 clients, one with a pass, the protocol sync, one content | `DeadPassWritesNothing`; `Answered` and `SyncEnds` under fairness |
| LeaseHistory | 1 host, 2 commits, no outages or heartbeats | `HandbackTakesAll`, `PromotionTakesAll`, `HistoryKept`, and that `LeaseInv`, which the proofs use, holds |
| LeaseLive | 2 hosts, no commits, heartbeats, outages | `OneWriter`, `HostsTogether`; `ForcedEnds` and `ScriptEnds` under fairness |
| AccessStores | 3 keys (1 legacy, 2 of one name), 3 clients, 2 consents; room for 2 keys, 2 clients, 1 grant; keyver up to 3 | `SignedOutStaysOut`, `RevokedStaysRevoked`, `AnswersSurvive`, `GrantsNameClients`, `WithinLimits`, and that `AccessInv`, which the proofs use, holds |
| PasskeyStore | 4 registrations of 3 authenticators, 1 of them there at first; 2 challenges, room for 2, counters to 1, 2 starts | `DeletedStaysDeleted`, `AnsweredSurvives`, `OneTryPerChallenge`, `OneRecordPerKey`, `CounterMovesForward`, and that `PasskeyInv`, which the proofs use, holds |
| TicketStore | 3 passes or 3 tokens with room for 2, one request; or 2 callers, 2 addresses, 1 challenge; the clock to 4, readings up to 1 old | `WithinLease`, `LeaseHolds`, `EvictsTheIdle`, `ReadsOnRecord`, `AcceptedOnce`, `FailuresBounded`, and that `TicketInv`, which the proofs use, holds |
| DocumentText | every text of up to 3 lines of 6 kinds, of 4 lines of 5 kinds (no line of spaces), and of up to 2 pieces of 13 kinds, 8 of them cut; bodies of up to 3 lines; files of up to 2 pieces of 13 kinds (4 cut, 4 with carriage returns) with any line ends, and four longer ones, alone or above or below another; 9 preambles | refinement of `Sections` (`KeepsPromise`), `SectionsAgree`, `PackedComesBack` |
| LeaseSettle, LeaseResume, AccessSignOut | as above, 1 host and 1 commit | the disagreements of section 5 |

Bounds.  Two clients are enough for every race here: the lock admits one at a
time, so a third only waits.  Two files are needed to see a commit carry another
request's change.  Two commits are the smallest number that can fork.  Two hosts
are the smallest number that can split.  `SyncTries = 2` stands for the script's 15.
`Commit` bounds how many commits there can be at once: one that no tree has any
more may be made again.
In `AccessStores` every table is at its limit with one credential left over;
keyver 3 lets two sign-outs separate a stamp from the present; `MaxRefresh = 1`
is the smallest number that makes a token old.  Keys and connectors share
nothing but the keyver, and all of both is too much for one run: `MCInit` starts
from two states the program reaches, one with every key made and deleted and one
with every consent's code lost, and from each the other store does all it can.
`AccessInv` and the properties are proved without that split (section 4).

In `PasskeyStore` two starts are what it takes to present a cookie of the last one,
two challenges what it takes for two sign-ins to be under way, and a counter of 0 or
1 has a value to move to, to repeat and to fall back from.  In `TicketStore` windows of 2,
a cap of 3 and a clock to 4 let a ticket slide, reach its cap and be outlived by
another; `MaxEnded = 1` makes the record of the ended overflow; `Slack` exceeds `Lag`
by 1.  The three worlds of that run share the clock and nothing else, so `MCTickets`
explores one at a time.  In `DocumentText` every short text is an initial state, so
one edit of each is every edit of it (`MaxEdits = 1`); four lines hold two sections
with a fence or a blank each, which is as much context as any of the functions looks
at.  Two pieces are enough to have a cut beside anything else.  A second file is there
to be disturbed by the first and a preamble to disturb both, so only one of the files
is varied, and neither below a preamble.

Fairness.  `VaultStore`: the server's own steps (git and the thread pool return,
git has a 30 s timeout; systemd restarts the process; the sync runs to its end).
No client is obliged to finish its upload, so `Answered` starts at a complete
body.  `Lease`: the heartbeat timer fires and a living script goes on; no write,
push, repair of the network or operator is assumed.

Every property has a seeded fault in its module ("Fault:" or "Seeded fault:"),
listed under `mutants` in `PROJECT.json`, with which TLC finds it violated.

## 4. What is proved

`VaultStoreProofs` proves, for every value of the constants, `Spec => []IInv`,
where

    IInv == TypeOK /\ LockInv /\ CheckedInv /\ WrittenInv
            /\ SyncInv /\ FenceInv /\ HistoryLossReported

The safety properties are not inductive by themselves: that a write replaces the
content it checked needs `CheckedInv` (between check and write nobody else
touches the file), which needs `LockInv` (whoever is past `Acquire` is the lock's
only holder); that a commit records the write needs `WrittenInv`; that READONLY
costs one write needs `FenceInv`.  From it follow type correctness,
`HistoryLossReported`, `EtagIsAccepted`, `FenceCostsOneWrite`, and with a
further invariant `DeadPassWritesNothing`; the action properties
`CommitNamesItsChange` and `CreatedOnlyIfRostered` follow step by step.
`VaultRefinementProofs` proves `Spec => AtomicSpec`: initial states map to
initial states and every action to a step of `AtomicVault` or a stutter.

The proofs use the constants' assumptions named in the modules and nothing else.

`LeaseProofs` proves `Spec => []TypeOK`,
`Spec => []LeaseInv` and, from it, `OneWriter`, `HostsTogether`,
`PromotionTakesAll`, `HandbackTakesAll` and `HistoryKept`, for any number of
hosts and commits.  What goes wrong between two steps of an operator script does
so because of something that happened while it was not looking; `LeaseInv` says,
place by place, what the script may still rely on: which places go with which
kind of run (`ScriptShape`); units run and clients write only where the lease is
held (`UnitsHoldLease`); a script takes what its node does not hold, and two
nodes hold the lease only over a READONLY `nl` or by force (`LeaseTaken`); the
hosts a loop has done are where it takes them (`LoopMoves`); a promotion that
fenced `tw` has `tw`'s heads in the vault, then in `nl`'s tree
(`PromotionCarries`), and a handback has `nl`'s in `tw`'s (`HandbackCarries`).
`HandbackTakesAllAlways` has no premise about `drain`: `HandbackCarries` says that
what `nl` has and `tw` will not is the protocol sync's, or the write in `late`.

`AccessProofs` proves `Spec => []AccessInv` for any keys, clients, consents and
limits.  To the properties it adds what they rest on: a request waits only where
there is nothing yet (`AskedIsNew`), what a file or its copy holds was made and
never answered as removed (`FilesHoldMade`), codes in memory are the codes that
were made (`CodesNoted`), no file is behind a token that was answered
(`TokensAhead`), no stamp is ahead of the keyver and every buried one behind it
(`StampsBehind`).  `RevokedStaysRevoked` needs `FilesHoldMade` for both the copy
and the file, because a restart exchanges them; `SignedOutStaysOut` needs
`StampsBehind`, which holds because a grant takes the stamp of its code.

`PasskeysProofs` proves `Spec => []PasskeyInv` and all five properties of passkeys,
for any records, challenges, limits and numbers of restarts.  What carries them:
while a write is under way, memory holds what is being written (`JobsInv`); nothing
holds a record that was never made (`FreshInv`); no write under way lacks a live
record it does not delete (`LiveInv`), and none holds a dead one (`DeadInv`, which
must also say that a failed registration astray in memory is of a record that is in
no file); no counter anywhere is behind one let in, but for records whose counter
`manage_auth.py` put back (`CountInv`); a challenge that led
to something is spent or of an earlier start (`ChallengeInv`).

`TicketsProofs` proves `Spec => []TicketInv`, `WithinLease`, `LeaseHolds`,
`EvictsTheIdle` and `ReadsOnRecord` for any windows, limits and `Lag`.  The invariant relates what the
stores keep of a ticket to when it was really made and last opened: each differs by
`Lag` at most (`Dated`), which is not obvious for a window that a late reading moves
backwards.  `AttemptsProofs` proves `AcceptedOnce` from `SpentInv`: a challenge that
was accepted is on the list for as long as any reading of the clock could still find
its cookie fresh.  Its premise is the assumption `Lag < Slack`: the 5 s that
`Challenges.spend` adds must exceed the age of a reading.  It proves `FailuresBounded`
from `ThrottleInv`: no failure that still counts has left the throttle's list, however
crowded its memory, and those failures and the requests let in but not yet answered
are together at most `MAX - 1` and one for each caller.

`ReadsOnRecord` is inductive: what an ended token's record lacks, and the requests that
still read on it, were all counted when it ended, each request once.

`DocumentsProofs` proves of `FilesSpec`, for any documents, bodies, files, names and
number of edits:

- `TextOK` and `SectionsAgree`: the server's four computations of where a section is are
  four descriptions of one set of places, `Headers`, and the places in order
  (`OrderedUnique`).  The client's reading of the pieces and the server's of the lines
  have the same headings as long as nothing beside a cut is a heading or a fence
  (`SplitNames`); that is the premise `Alike` of the second half of `SectionsAgree`,
  and without it the two disagree.
- `KeepsPromiseAlways`: every edit is an edit of `Sections`, so `Documents`
  implements it.  The proof puts texts together: behind a text with its fences closed
  what follows has the sections it has alone (`ConcatSections`), blank lines add
  nothing to it (`BlankTail`), and what precedes a heading ends where it ended
  (`PrefixSections`).  A text with section `n` in it is three parts
  (`SiteIs`); `ReplacedView`, `RemovedView` and `AppendedView` say what readers get
  when the middle one is exchanged, dropped or added, and `PutKeeps` and `DeleteKeeps`
  go through the cases of `Sections` with that.  `FlattenSeq`
  enters by one fact, that its parts are put together in order (`FlattenIs`, proved by
  a least counterexample).

- `PackedComesBackAlways`, from `PackInv` (`PackedSitsAlways`): the section of a file
  that is expected back is the only one of its name and its body is as it was written,
  in the pieces that the client sees and, while the text is `Alike`, in the lines that
  the next edit starts from.  The property alone is not inductive, since an edit rewrites
  the text from its lines: a file with a cut in it still comes back before the first edit
  and not after, which is why `PackInv` speaks of both.  Both theorems except what
  `Held`, `Peaceful` and `Spares` name (section 2) and nothing else.  Packing establishes
  `PackInv` (`PackSits`: a code block hides whatever is in it); an edit of another name keeps it because that is what
  `Sections` promises (`EditSits` uses `Promise!Next` and nothing of how the edit is
  done); and `UnpackIs` is the round trip of the format, escapes, flags and last line
  end included.

The run checks less than that: `MCSpec` packs only over the empty document, two files
at most, and its files have three pieces at most.

Only model-checked: liveness (`Answered`, `SyncEnds`, `ForcedEnds`, `ScriptEnds`),
which with its fairness is out of the prover's reach.

## 5. Where the code disagrees with its comments

- `LeaseSettle`: a handback waits `SETTLE_SECS` (two minutes) with both nodes
  primary; `tw`'s heartbeat, every minute, sees that and fences `tw`.  The script
  then releases `nl` and reports success.  The tests set `SETTLE_SECS=0`.
- `LeaseResume`: a handback that dies between `set_role` and `units_start` is not
  finished by running it again.
- `AccessSignOut`: a request to make a key, or a consent, that is past its
  session check and still sending its body when `sign-out-everyone` runs, is
  stamped with the new keyver; the key or connector made from the ended session
  works.

Met while modelling and not given a run.  Lease: a re-run of a finished promotion,
which "only re-verifies" (`mem-promote-nl` 3), moves every hostname to the fenced node
if one DNS lookup fails (`lib.sh` 147); a promotion re-run after it fenced `tw`
does not compare heads (`mem-promote-nl` 54); un-fencing removes the READONLY of a
rejected push (`memctl` 93); the protocol sync ignores READONLY
(`memprotocol-sync` 37), which `HandbackTakesAll` has to except; a handback started
on a `tw` that is still primary after a forced promotion releases `nl` without
fetching (`mem-handback-tw` 22).

Access: a delete that fails to save answers 500, the retry answers 404, and after
a restart the key works again; a create that fails to save leaves a key that
nobody holds, takes a name and a place, and is written out by the next `touch`;
while auth.json cannot be read everything stamped with keyver 1 works again, and
deleting it, which `manage_auth.py` suggests, makes that permanent (keyver starts
from 1); a code from before a sign-out-everyone can still be redeemed, for a grant
that never works and yet may push a live one out of a full table.

Write path: a READONLY that is there but cannot be read (a failing `stat`) refuses
nothing, which `replflag.py` 28-31 says and `FenceCostsOneWrite` excepts: in the model
the flag can always be read.

Passkeys: `_save_locked` resets `_raw` ("force a re-read; trust the disk, not this
dict") in a `finally` that a failing `mkstemp` does not reach (`passkeys.py` 602): the
edited rows in memory go on to pass for the file's, so a registration answered 503 can
sign in, and after a deletion answered 503 the retry answers 404 and the passkey is
back at the next restart.  A deletion by `manage_auth.py` and a sign-in can undo each
other, which is why the properties except writes that overlap.  So can its write undo
the counter of a sign-in, after which a copy of that assertion would pass
(`passkeys.py` 734 says that a sign-in is refused rather than "accept the same counter
again next time"): `CounterMovesForward` excepts such a record by name (`undone`) until
a sign-in has passed its highest counter.  "Five failures" in
`passkeys.py` 244 is `MAX - 1` and one for each request under way (`FailuresBounded`).

Tickets: a read that was under way when its token ended is answered and appears in no
record (`ReadsOnRecord` says there are no others; `test_dstokens.py` 136 accepts it); a
slow request's old reading can shorten the window a later one opened; a request
refused for the wrong slug slides a pass's window all the same.

Documents: a section PUT drops a blank line at the end of the text, although
`main.py` 714-717 says a round-trip never touches it; a section write turns U+2028 or
a form feed *anywhere* in the document into a line end; an upsert into a text that
ends inside a code fence answers 200 and adds nothing a reader finds; a body of two
headings, or a rename onto a name that is taken, can hide a later section; deleting
the first section leaves a blank line at the top.

memfiles: `_sections` "mirrors the server's fence_mask exactly [...] so section names
here always agree" (`clients/memfiles.py` 205-207), and escaping "keeps every content
line invisible to the parser" (237-238).  Neither is so beside a U+2028 or a form feed: a
heading or a fence behind one is one to the server and none to the client.  In
particular `ESC_RE` takes a form feed for whitespace and puts its backslash in front of
it, so that `splitlines` still finds a bare fence behind it; and a line with a fence
after a form feed in the middle is not escaped at all.  The fence opens or closes a block
for the server only, and the first section write of anybody, anywhere in the document,
makes it one for the client: that file and those below it no longer unpack.
`SectionsAgree` and `PackedComesBack` state what remains true, under `Alike`.  A bare
carriage return before a fence does the same at once (`normalise_body`), and so does a
preamble with an open fence.  A file that is one line end, mixes line ends or holds a
bare carriage return does not come back either.  What is lost at once `t_doc_pack`
reports, after the write; what a later edit loses shows only when it is unpacked.

## 6. What is left

Done: the write path with its refinement, the lease, the stores behind keys and
connectors, passkeys, tickets and attempts, documents with their refinement and the files packed
into them.

Not modelled, and planned in this order:

1. `StateFiles`: `memstate-sync` and `memstate-xfer` copying keys, grants and
   passkeys between nodes, composed with `Lease`: what a promoted or handed-back
   node serves.
2. Two operator scripts at once in `Lease`.
3. `Editor`: the draft and conflict flow of `web/app.js` against `AtomicVault`: no
   draft is lost and nothing is overwritten unseen.
4. The sign-in through GitHub or Google (`oauth_start`, `oauth_callback`) against an
   allowlist edit; the deletion of auth.json; `memheartbeat-check`.

Not modelled, and not planned: ranking and snippets (`searchrank.py`), index and pins,
which only read; rendering and layout of the web page; the tool catalogue of
`mcpserver.py`, which maps calls onto modelled routes; cryptography; `devstub.py` and
the tests.
