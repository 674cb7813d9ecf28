------------------------------- MODULE Access -------------------------------
(***************************************************************************)
(* What outlives a browser session: API keys (apikeys.py) and connectors   *)
(* (mcpoauth.py), the sessions that hand them out (webauth.py) and the     *)
(* keyver in auth.json that ends all of them at once (manage_auth.py).     *)
(*                                                                         *)
(* Both stores keep a JSON file and a copy of it in memory that is read    *)
(* again only when the file's bytes change.  An operation edits the copy   *)
(* and then replaces the file; if that fails the edited copy stays until   *)
(* a restart.  The handlers that mint check the session, await the body    *)
(* and only then act.                                                      *)
(*                                                                         *)
(* A session is a signed cookie of which the server keeps nothing, and     *)
(* somebody may sign in at any moment: what counts is the keyver under     *)
(* which a request's cookie was accepted.  Expiry by time only refuses, so *)
(* here it is a step not taken.                                            *)
(***************************************************************************)
EXTENDS Naturals, FiniteSets

CONSTANTS
    Key,          \* key ids ever made
    Legacy,       \* keys from before keys carried a keyver
    NameOf,       \* the name asked for with each key
    Client,       \* ids of registered clients
    NoClient,
    Consent,      \* clicks on Allow: each makes a code, and the code a grant
    MaxKeys, MaxClients, MaxGrants,
    MaxKeyver,    \* bound: sign-out-everyone runs at most MaxKeyver - 1 times
    MaxRefresh    \* bound: refreshes of one grant in a row

ASSUME FiniteAssumption ==
    IsFiniteSet(Key) /\ IsFiniteSet(Client) /\ IsFiniteSet(Consent)
ASSUME KeyAssumption    == Legacy \subseteq Key /\ Cardinality(Legacy) <= MaxKeys
ASSUME ClientAssumption == NoClient \notin Client
ASSUME ConsentAssumption == Key \intersect Consent = {}
ASSUME LimitAssumption  ==
    /\ {MaxKeys, MaxClients, MaxGrants, MaxKeyver} \subseteq Nat \ {0}
    /\ MaxGrants < MaxClients
    /\ MaxRefresh \in Nat

Credential == Key \union Consent

VARIABLES
    authfile,   \* auth.json: its keyver, and whether it can be read
    asked,      \* a mint or consent between its checks and its body: the
                \* keyver of the session that passed them (0: no request)
    keys,       \* apikeys.json and the copy in memory
    oauth,      \* mcpoauth.json and the copy in memory
    codes,      \* authorization codes, in memory only
    client,     \* the client a consent is for
    stamp,      \* "kv" of a key, a code and the grant made from it (0: none)
    note,       \* history: what became of a credential
    told,       \* history: the newest access token a client was answered
    late,       \* history: credentials made for a session already ended
    buried      \* history: credentials there were at a sign-out-everyone

vars == <<authfile, asked, keys, oauth, codes, client, stamp, note,
          told, late, buried>>

Notes == {"none", "code", "lost", "orphan", "live", "removing", "dead", "evicted"}
Keyvers == 0..MaxKeyver
OAuthFile == [clients : SUBSET Client, grants : SUBSET Consent,
              token : [Consent -> 0..MaxRefresh]]

TypeOK ==
    /\ authfile \in [kv : 1..MaxKeyver, ok : BOOLEAN]
    /\ asked \in [Credential -> Keyvers]
    /\ keys \in [mem : SUBSET Key, disk : SUBSET Key]
    /\ oauth \in [mem : OAuthFile, disk : OAuthFile]
    /\ codes \in SUBSET Consent
    /\ client \in [Consent -> Client \union {NoClient}]
    /\ stamp \in [Credential -> Keyvers]
    /\ note \in [Credential -> Notes]
    /\ told \in [Consent -> 0..MaxRefresh]
    /\ late \in SUBSET Credential
    /\ buried \in SUBSET Credential

NoGrants == [clients |-> {}, grants |-> {}, token |-> [c \in Consent |-> 0]]

Init ==
    /\ authfile = [kv |-> 1, ok |-> TRUE]
    /\ asked = [x \in Credential |-> 0]
    /\ keys = [mem |-> Legacy, disk |-> Legacy]
    /\ oauth = [mem |-> NoGrants, disk |-> NoGrants]
    /\ codes = {}
    /\ client = [c \in Consent |-> NoClient]
    /\ stamp = [x \in Credential |-> 0]
    /\ note = [x \in Credential |-> IF x \in Legacy THEN "live" ELSE "none"]
    /\ told = [c \in Consent |-> 0]
    /\ late = {}
    /\ buried = {}

(***************************************************************************)
(* auth.json and sessions                                                  *)
(***************************************************************************)
\* creds.keyver: a missing or unreadable file reads as keyver 1.
Keyver == IF authfile.ok THEN authfile.kv ELSE 1

\* bump_keyver, by sign-out-everyone, deny or disable: a process of its own.
\* It refuses to touch a file it cannot parse.
SignOutEveryone ==
    /\ authfile.ok
    /\ authfile.kv < MaxKeyver
    /\ authfile' = [authfile EXCEPT !.kv = @ + 1]
    /\ buried' = buried \union {x \in Credential : note[x] # "none" /\ stamp[x] # 0}
    /\ UNCHANGED <<asked, keys, oauth, codes, client, stamp, note, told, late>>

\* An edit by hand leaves auth.json unreadable, or makes it readable again.
EditAuth ==
    /\ authfile' = [authfile EXCEPT !.ok = ~ @]
    /\ UNCHANGED <<asked, keys, oauth, codes, client, stamp, note, told, late,
                   buried>>

(***************************************************************************)
(* The store pattern.  "answered": the file is replaced and the answer     *)
(* sent.  "unanswered": the file is replaced, then chmod fails.            *)
(* "unsaved": the file stays as it was.  The last two answer 500.          *)
(***************************************************************************)
Outcome == {"answered", "unanswered", "unsaved"}

\* The copy in memory was edited first, whatever comes of the file.
Save(file, new, o) == [mem |-> new, disk |-> IF o = "unsaved" THEN file.disk ELSE new]

\* Seeded fault: an error while saving does not reach the answer.
NoteAfterRegardless(o, good, bad) == good

\* What the asker may believe.
NoteAfter(o, good, bad) == IF o = "answered" THEN good ELSE bad

(***************************************************************************)
(* API keys                                                                *)
(***************************************************************************)
\* kv_ok, and the same test in KeyStore.verify
KvOk(x) == stamp[x] \in {0, Keyver}

KeyAccepted(k) == k \in keys.mem /\ KvOk(k)

\* create_key up to the await of its body
AskKey(k) ==
    /\ note[k] = "none" /\ asked[k] = 0
    /\ asked' = [asked EXCEPT ![k] = Keyver]
    /\ UNCHANGED <<authfile, keys, oauth, codes, client, stamp, note, told,
                   late, buried>>

\* KeyStore.create.  The keyver is read here, after the await.
MintKey(k, o) ==
    /\ asked[k] # 0
    /\ Cardinality(keys.mem) < MaxKeys
    /\ \A r \in keys.mem : NameOf[r] # NameOf[k]
    /\ keys' = Save(keys, keys.mem \union {k}, o)
    /\ stamp' = [stamp EXCEPT ![k] = Keyver]
    /\ late' = IF asked[k] = Keyver THEN late ELSE late \union {k}
    /\ asked' = [asked EXCEPT ![k] = 0]
    /\ note' = [note EXCEPT ![k] = NoteAfter(o, "live", "orphan")]
    /\ UNCHANGED <<authfile, oauth, codes, client, told, buried>>

\* A request that ends in a refusal once its body is in: a bad body, a bad or
\* taken name, too many keys, an unknown client, a click on Deny.
Refuse(x) ==
    /\ asked[x] # 0
    /\ asked' = [asked EXCEPT ![x] = 0]
    /\ UNCHANGED <<authfile, keys, oauth, codes, client, stamp, note, told,
                   late, buried>>

\* check_auth with a key not used today: touch saves the copy, whatever an
\* earlier failed save left in it.  Nobody holds an orphan's secret.
UseKey(k, o) ==
    /\ KeyAccepted(k) /\ note[k] # "orphan"
    /\ keys' = Save(keys, keys.mem, o)
    /\ UNCHANGED <<authfile, asked, oauth, codes, client, stamp, note, told,
                   late, buried>>

\* Seeded fault: the copy is edited and never saved.
DeleteKeyInCopy(k, o) ==
    /\ k \in keys.mem
    /\ keys' = [keys EXCEPT !.mem = @ \ {k}]
    /\ note' = [note EXCEPT ![k] = NoteAfter(o, "dead", "removing")]
    /\ UNCHANGED <<authfile, asked, oauth, codes, client, stamp, told, late, buried>>

\* delete_key.  A key that is not in memory is answered 404.
DeleteKey(k, o) ==
    /\ k \in keys.mem
    /\ keys' = Save(keys, keys.mem \ {k}, o)
    /\ note' = [note EXCEPT ![k] = NoteAfter(o, "dead", "removing")]
    /\ UNCHANGED <<authfile, asked, oauth, codes, client, stamp, told, late,
                   buried>>

(***************************************************************************)
(* Connectors                                                              *)
(***************************************************************************)
mem == oauth.mem

GrantAccepted(c) == c \in mem.grants /\ KvOk(c)

\* verify_access
TokenAccepted(c, t) == GrantAccepted(c) /\ mem.token[c] = t

Used(file) == {client[c] : c \in file.grants}

\* An id never made before: as good as one that nothing refers to.
NewClient(d) ==
    /\ d \notin mem.clients \union oauth.disk.clients
    /\ \A c \in Consent : client[c] # d

\* Seeded fault: any old registration makes room, in use or not.
MakesRoomAny(gone) ==
    /\ gone \subseteq mem.clients
    /\ Cardinality(mem.clients \ gone) < MaxClients

\* Registrations no grant names go after a day, and the oldest of them when
\* the table is full.  Ages are left open: any of them may go.
MakesRoom(gone) ==
    /\ gone \subseteq mem.clients \ Used(mem)
    /\ Cardinality(mem.clients \ gone) < MaxClients

\* register: open to anybody.
Register(d, gone, o) ==
    /\ NewClient(d)
    /\ MakesRoom(gone)
    /\ oauth' = Save(oauth, [mem EXCEPT !.clients = (@ \ gone) \union {d}], o)
    /\ UNCHANGED <<authfile, asked, keys, codes, client, stamp, note, told,
                   late, buried>>

\* The Allow form arrives: oauth_authorize_post up to its await.  The form of
\* an unknown client can only be refused.
AskConsent(c, d) ==
    /\ note[c] = "none" /\ asked[c] = 0
    /\ d \in mem.clients
    /\ asked' = [asked EXCEPT ![c] = Keyver]
    /\ client' = [client EXCEPT ![c] = d]
    /\ UNCHANGED <<authfile, keys, oauth, codes, stamp, note, told, late, buried>>

\* ... and after it: authz_validate, issue_code.  The keyver is read here.
IssueCode(c) ==
    /\ asked[c] # 0
    /\ client[c] \in mem.clients
    /\ codes' = codes \union {c}
    /\ stamp' = [stamp EXCEPT ![c] = Keyver]
    /\ late' = IF asked[c] = Keyver THEN late ELSE late \union {c}
    /\ asked' = [asked EXCEPT ![c] = 0]
    /\ note' = [note EXCEPT ![c] = "code"]
    /\ UNCHANGED <<authfile, keys, oauth, client, told, buried>>

\* Seeded fault: a code presented wrongly may be tried again.
LoseCodeKept(c) ==
    /\ c \in codes
    /\ note' = [note EXCEPT ![c] = "lost"]
    /\ UNCHANGED <<authfile, asked, keys, oauth, codes, client, stamp, told, late,
                   buried>>

\* CODE_SECONDS pass, or the code is presented with the wrong verifier,
\* redirect or client, or its client is gone: it is popped first.
LoseCode(c) ==
    /\ c \in codes
    /\ codes' = codes \ {c}
    /\ note' = [note EXCEPT ![c] = "lost"]
    /\ UNCHANGED <<authfile, asked, keys, oauth, client, stamp, told, late,
                   buried>>

\* Seeded fault: a full table drops one grant too few.
EvictsLate(out) ==
    IF Cardinality(mem.grants) < MaxGrants
    THEN out = {}
    ELSE out \subseteq mem.grants /\ Cardinality(mem.grants \ out) = MaxGrants

\* A full table drops the grants least lately used; their order is left open.
Evicts(out) ==
    IF Cardinality(mem.grants) < MaxGrants
    THEN out = {}
    ELSE out \subseteq mem.grants /\ Cardinality(mem.grants \ out) = MaxGrants - 1

NoteGrant(c, out, o) ==
    [x \in Credential |->
        IF x = c THEN NoteAfter(o, "live", "orphan")
        ELSE IF x \in out THEN "evicted" ELSE note[x]]

\* Seeded fault: the grant gets the keyver of the moment, not of the consent.
RedeemRestamped(c, out, o) ==
    /\ c \in codes
    /\ codes' = codes \ {c}
    /\ client[c] \in mem.clients
    /\ Evicts(out)
    /\ oauth' = Save(oauth, [mem EXCEPT !.grants = (@ \ out) \union {c}], o)
    /\ note' = NoteGrant(c, out, o)
    /\ stamp' = [stamp EXCEPT ![c] = Keyver]
    /\ UNCHANGED <<authfile, asked, keys, client, told, late, buried>>

\* redeem_code and _new_grant.  The grant carries the keyver of its code.
Redeem(c, out, o) ==
    /\ c \in codes
    /\ codes' = codes \ {c}
    /\ client[c] \in mem.clients
    /\ Evicts(out)
    /\ oauth' = Save(oauth, [mem EXCEPT !.grants = (@ \ out) \union {c}], o)
    /\ note' = NoteGrant(c, out, o)
    /\ UNCHANGED <<authfile, asked, keys, client, stamp, told, late, buried>>

\* refresh: a new access token for the old refresh token.
Refresh(c, o) ==
    /\ GrantAccepted(c) /\ note[c] # "orphan"
    /\ mem.token[c] < MaxRefresh
    /\ oauth' = Save(oauth, [mem EXCEPT !.token[c] = @ + 1], o)
    /\ told' = [told EXCEPT ![c] = IF o = "answered" THEN mem.token[c] + 1 ELSE @]
    /\ UNCHANGED <<authfile, asked, keys, codes, client, stamp, note, late,
                   buried>>

\* delete_grant.  A grant that is not in memory is answered 404.
RevokeGrant(c, o) ==
    /\ c \in mem.grants
    /\ oauth' = Save(oauth, [mem EXCEPT !.grants = @ \ {c}], o)
    /\ note' = [note EXCEPT ![c] = NoteAfter(o, "dead", "removing")]
    /\ UNCHANGED <<authfile, asked, keys, codes, client, stamp, told, late,
                   buried>>

(***************************************************************************)
(* The process                                                             *)
(***************************************************************************)
\* A deploy, a crash: what was in memory only is gone.
Restart ==
    /\ keys' = [keys EXCEPT !.mem = keys.disk]
    /\ oauth' = [oauth EXCEPT !.mem = oauth.disk]
    /\ codes' = {}
    /\ asked' = [x \in Credential |-> 0]
    /\ note' = [x \in Credential |-> IF x \in codes THEN "lost" ELSE note[x]]
    /\ UNCHANGED <<authfile, client, stamp, told, late, buried>>

Next ==
    \/ SignOutEveryone
    \/ EditAuth
    \/ \E k \in Key : AskKey(k)
    \/ \E k \in Key, o \in Outcome : MintKey(k, o) \/ UseKey(k, o) \/ DeleteKey(k, o)
    \/ \E x \in Credential : Refuse(x)
    \/ \E d \in Client, gone \in SUBSET Client, o \in Outcome : Register(d, gone, o)
    \/ \E c \in Consent, d \in Client : AskConsent(c, d)
    \/ \E c \in Consent : IssueCode(c) \/ LoseCode(c)
    \/ \E c \in Consent, out \in SUBSET Consent, o \in Outcome : Redeem(c, out, o)
    \/ \E c \in Consent, o \in Outcome : Refresh(c, o) \/ RevokeGrant(c, o)
    \/ Restart

Spec == Init /\ [][Next]_vars

(***************************************************************************)
(* Properties                                                              *)
(***************************************************************************)
Accepted(x) == IF x \in Key THEN KeyAccepted(x) ELSE GrantAccepted(x)

\* Whatever key, code still to be redeemed or grant there was when
\* sign-out-everyone ran is never accepted again, through refreshes, failed
\* saves and restarts -- as long as auth.json can be read.
SignedOutStaysOut ==
    authfile.ok => \A x \in buried : ~ Accepted(x)

\* A key or grant whose removal was answered 200 never works again, nor an
\* access token its client was given a successor of: not after a failed save,
\* and not after a restart that reads the file again.
RevokedStaysRevoked ==
    /\ \A x \in Credential : note[x] = "dead" => ~ Accepted(x)
    /\ \A c \in Consent, t \in 0..MaxRefresh : TokenAccepted(c, t) => t >= told[c]

\* A key or grant its owner was given is in memory and on disk until somebody
\* asks for its removal or a full table drops it: an error in an operation on
\* another credential, or a restart, loses nothing that was answered.
AnswersSurvive ==
    \A x \in Credential : note[x] = "live" =>
        IF x \in Key THEN x \in keys.mem \intersect keys.disk
                     ELSE x \in mem.grants \intersect oauth.disk.grants

\* Anonymous registrations may push out each other, never a client in use: the
\* client of every grant is registered, in memory and on disk.
GrantsNameClients ==
    \A file \in {mem, oauth.disk} : Used(file) \subseteq file.clients

\* The three tables keep their limits, on disk too and after a restart.
WithinLimits ==
    /\ \A file \in {keys.mem, keys.disk} : Cardinality(file) <= MaxKeys
    /\ \A file \in {mem, oauth.disk} :
           Cardinality(file.clients) <= MaxClients /\ Cardinality(file.grants) <= MaxGrants

(***************************************************************************)
(* Why they hold                                                           *)
(***************************************************************************)
\* A request waits for its body only where there is nothing yet.
AskedIsNew == \A x \in Credential : asked[x] # 0 => note[x] = "none"

\* What a file or its copy in memory holds was made, and not removed for good.
FilesHoldMade ==
    /\ \A k \in keys.mem \union keys.disk : note[k] \notin {"none", "code", "lost", "dead"}
    /\ \A c \in mem.grants \union oauth.disk.grants :
           note[c] \notin {"none", "code", "lost", "dead"}

CodesNoted == codes = {c \in Consent : note[c] = "code"}

\* No file falls behind a token that was answered.
TokensAhead ==
    \A c \in Consent : told[c] <= mem.token[c] /\ told[c] <= oauth.disk.token[c]

\* Nothing is stamped ahead of its time, and the buried stay behind.
StampsBehind ==
    /\ \A x \in Credential : stamp[x] <= authfile.kv
    /\ \A x \in buried :
           stamp[x] # 0 /\ stamp[x] < authfile.kv /\ note[x] # "none"

\* The inductive invariant: the order of asking, stamping, saving and answering
\* in create_key, oauth_authorize_post, redeem_code and refresh.
AccessInv ==
    /\ TypeOK
    /\ AskedIsNew
    /\ FilesHoldMade
    /\ CodesNoted
    /\ TokensAhead
    /\ StampsBehind
    /\ AnswersSurvive
    /\ GrantsNameClients
    /\ WithinLimits

\* What manage_auth.py promises of sign-out-everyone: a key or connector made
\* from a session it ended does not work.
SignOutReachesAll ==
    \A x \in late : ~ Accepted(x)
=============================================================================
