---------------------------- MODULE AccessProofs ----------------------------
(***************************************************************************)
(* Proofs about Access for any keys, clients, consents and limits.         *)
(***************************************************************************)
EXTENDS Access, FiniteSetTheorems, TLAPS

\* What an answer lets its asker believe.
LEMMA NoteAfterType ==
  ASSUME NEW o, NEW good, NEW bad
  PROVE  /\ NoteAfter(o, good, bad) \in {good, bad}
         /\ o # "answered" => NoteAfter(o, good, bad) = bad
  BY DEF NoteAfter

LEMMA KeyverType ==
  ASSUME TypeOK
  PROVE  /\ Keyver \in 1..MaxKeyver
         /\ Keyver \in Keyvers \ {0}
         /\ StampsBehind => Keyver <= authfile.kv
  BY LimitAssumption DEF TypeOK, Keyver, Keyvers

LEMMA Apart == \A k \in Key, c \in Consent : k # c
  BY ConsentAssumption

\* Subsets of the tables are finite, and one more element counts for one more.
LEMMA OneMore ==
  ASSUME NEW S, IsFiniteSet(S), NEW x, NEW n \in Nat, Cardinality(S) < n
  PROVE  Cardinality(S \union {x}) <= n
<1>1. Cardinality(S) \in Nat
  BY FS_CardinalityType
<1>2. Cardinality(S \union {x}) \in {Cardinality(S), Cardinality(S) + 1}
  BY FS_AddElement
<1>. QED  BY <1>1, <1>2

LEMMA NoMore ==
  ASSUME NEW S, IsFiniteSet(S), NEW R, R \subseteq S, NEW n \in Nat, Cardinality(S) <= n
  PROVE  IsFiniteSet(R) /\ Cardinality(R) <= n
<1>1. IsFiniteSet(R) /\ Cardinality(R) <= Cardinality(S)
  BY FS_Subset
<1>2. Cardinality(R) \in Nat /\ Cardinality(S) \in Nat
  BY <1>1, FS_CardinalityType
<1>. QED  BY <1>1, <1>2

LEMMA FiniteTables ==
  ASSUME TypeOK
  PROVE  /\ \A S \in SUBSET keys.mem : IsFiniteSet(S)
         /\ \A S \in SUBSET mem.clients : IsFiniteSet(S)
         /\ \A S \in SUBSET mem.grants : IsFiniteSet(S)
  BY FiniteAssumption, FS_Subset DEF TypeOK, mem, OAuthFile

\* The initial state.
LEMMA InitInv == Init => AccessInv
<1>. SUFFICES ASSUME Init PROVE AccessInv
  OBVIOUS
<1>1. NoGrants \in OAuthFile
  BY LimitAssumption DEF NoGrants, OAuthFile
<1>2. TypeOK
  BY <1>1, LimitAssumption, KeyAssumption DEF Init, TypeOK, Keyvers, Notes, Credential
<1>3. AskedIsNew /\ FilesHoldMade
  BY KeyAssumption DEF Init, AskedIsNew, FilesHoldMade, Credential, mem, NoGrants
<1>4. CodesNoted
  BY KeyAssumption, ConsentAssumption DEF Init, CodesNoted, Credential
<1>5. TokensAhead /\ StampsBehind
  BY DEF Init, TokensAhead, StampsBehind, mem, NoGrants
<1>6. AnswersSurvive
  BY KeyAssumption DEF Init, AnswersSurvive, Credential
<1>7. GrantsNameClients
  BY DEF Init, GrantsNameClients, Used, mem, NoGrants
<1>8. WithinLimits
  BY KeyAssumption, LimitAssumption, FS_EmptySet DEF Init, WithinLimits, mem, NoGrants
<1>. QED  BY <1>2, <1>3, <1>4, <1>5, <1>6, <1>7, <1>8 DEF AccessInv

(***************************************************************************)
(* auth.json                                                               *)
(***************************************************************************)
LEMMA SignOutKeeps == AccessInv /\ SignOutEveryone => AccessInv'
<1>. SUFFICES ASSUME AccessInv, SignOutEveryone PROVE AccessInv'
  OBVIOUS
<1>1. TypeOK'
  BY LimitAssumption DEF AccessInv, SignOutEveryone, TypeOK
<1>2. (AskedIsNew /\ FilesHoldMade /\ CodesNoted /\ TokensAhead)'
  BY DEF AccessInv, SignOutEveryone, AskedIsNew, FilesHoldMade, CodesNoted, TokensAhead, mem
<1>3. StampsBehind'
  <2>1. authfile.kv \in Nat /\ authfile'.kv = authfile.kv + 1
    BY LimitAssumption DEF AccessInv, SignOutEveryone, TypeOK
  <2>2. \A x \in Credential : stamp[x] \in Nat /\ stamp[x] <= authfile.kv
    BY LimitAssumption DEF AccessInv, StampsBehind, TypeOK, Keyvers
  <2>3. \A x \in buried' : x \in buried \/ (note[x] # "none" /\ stamp[x] # 0 /\ x \in Credential)
    BY DEF SignOutEveryone
  <2>4. \A x \in buried : x \in Credential /\ stamp[x] # 0 /\ stamp[x] < authfile.kv /\ note[x] # "none"
    BY DEF AccessInv, StampsBehind, TypeOK
  <2>5. stamp' = stamp /\ note' = note
    BY DEF SignOutEveryone
  <2>. QED  BY <2>1, <2>2, <2>3, <2>4, <2>5 DEF StampsBehind
<1>4. (AnswersSurvive /\ GrantsNameClients /\ WithinLimits)'
  BY DEF AccessInv, SignOutEveryone, AnswersSurvive, GrantsNameClients, WithinLimits, Used, mem
<1>. QED  BY <1>1, <1>2, <1>3, <1>4 DEF AccessInv

LEMMA EditAuthKeeps == AccessInv /\ EditAuth => AccessInv'
<1>. SUFFICES ASSUME AccessInv, EditAuth PROVE AccessInv'
  OBVIOUS
<1>1. TypeOK'
  BY DEF AccessInv, EditAuth, TypeOK
<1>2. (AskedIsNew /\ FilesHoldMade /\ CodesNoted /\ TokensAhead)'
  BY DEF AccessInv, EditAuth, AskedIsNew, FilesHoldMade, CodesNoted, TokensAhead, mem
<1>3. StampsBehind'
  BY DEF AccessInv, EditAuth, StampsBehind, TypeOK
<1>4. (AnswersSurvive /\ GrantsNameClients /\ WithinLimits)'
  BY DEF AccessInv, EditAuth, AnswersSurvive, GrantsNameClients, WithinLimits, Used, mem
<1>. QED  BY <1>1, <1>2, <1>3, <1>4 DEF AccessInv

(***************************************************************************)
(* API keys                                                                *)
(***************************************************************************)
LEMMA AskKeyKeeps ==
  ASSUME AccessInv, NEW k \in Key, AskKey(k)
  PROVE  AccessInv'
<1>1. TypeOK'
  BY KeyverType DEF AccessInv, AskKey, TypeOK, Credential
<1>2. (AskedIsNew /\ FilesHoldMade /\ CodesNoted /\ TokensAhead)'
  BY DEF AccessInv, AskKey, AskedIsNew, FilesHoldMade, CodesNoted, TokensAhead, mem, TypeOK
<1>3. (StampsBehind /\ AnswersSurvive /\ GrantsNameClients /\ WithinLimits)'
  BY DEF AccessInv, AskKey, StampsBehind, AnswersSurvive, GrantsNameClients, WithinLimits,
         Used, mem
<1>. QED  BY <1>1, <1>2, <1>3 DEF AccessInv

LEMMA RefuseKeeps ==
  ASSUME AccessInv, NEW x \in Credential, Refuse(x)
  PROVE  AccessInv'
<1>1. TypeOK'
  BY LimitAssumption DEF AccessInv, Refuse, TypeOK, Keyvers
<1>2. (AskedIsNew /\ FilesHoldMade /\ CodesNoted /\ TokensAhead)'
  BY DEF AccessInv, Refuse, AskedIsNew, FilesHoldMade, CodesNoted, TokensAhead, mem, TypeOK
<1>3. (StampsBehind /\ AnswersSurvive /\ GrantsNameClients /\ WithinLimits)'
  BY DEF AccessInv, Refuse, StampsBehind, AnswersSurvive, GrantsNameClients, WithinLimits,
         Used, mem
<1>. QED  BY <1>1, <1>2, <1>3 DEF AccessInv

LEMMA MintKeyKeeps ==
  ASSUME AccessInv, NEW k \in Key, NEW o \in Outcome, MintKey(k, o)
  PROVE  AccessInv'
<1>. DEFINE new == keys.mem \union {k}
<1>1. /\ TypeOK /\ k \in Credential
      /\ keys \in [mem : SUBSET Key, disk : SUBSET Key] /\ new \in SUBSET Key
  BY DEF AccessInv, TypeOK, Credential
<1>2. /\ keys' \in [mem : SUBSET Key, disk : SUBSET Key]
      /\ keys'.mem = new
      /\ keys'.disk \in {new, keys.disk}
      /\ o # "unsaved" => keys'.disk = new
  BY <1>1 DEF MintKey, Save
<1>3. note[k] = "none" /\ k \notin buried
  BY <1>1 DEF AccessInv, MintKey, AskedIsNew, StampsBehind
<1>4. /\ note'[k] \in {"live", "orphan"}
      /\ o # "answered" => note'[k] = "orphan"
      /\ \A x \in Credential \ {k} : note'[x] = note[x]
      /\ note' \in [Credential -> Notes]
  BY <1>1, NoteAfterType DEF MintKey, TypeOK, Notes
<1>5. TypeOK'
  <2>1. /\ asked' \in [Credential -> Keyvers] /\ stamp' \in [Credential -> Keyvers]
        /\ late' \in SUBSET Credential
    BY <1>1, KeyverType, LimitAssumption DEF MintKey, TypeOK, Keyvers
  <2>. QED  BY <1>1, <1>2, <1>4, <2>1 DEF MintKey, TypeOK
<1>6. (AskedIsNew /\ FilesHoldMade /\ CodesNoted)'
  <2>1. AskedIsNew'
    BY <1>1, <1>4 DEF AccessInv, MintKey, AskedIsNew, TypeOK
  <2>2. FilesHoldMade'
    BY <1>1, <1>2, <1>4, Apart DEF AccessInv, MintKey, FilesHoldMade, mem, TypeOK, OAuthFile,
       Credential
  <2>3. CodesNoted'
    BY <1>4, Apart DEF AccessInv, MintKey, CodesNoted, Credential
  <2>. QED  BY <2>1, <2>2, <2>3
<1>7. (TokensAhead /\ GrantsNameClients)'
  BY DEF AccessInv, MintKey, TokensAhead, GrantsNameClients, Used, mem
<1>8. StampsBehind'
  BY <1>1, <1>3, <1>4, KeyverType DEF AccessInv, MintKey, StampsBehind, TypeOK, Keyvers
<1>9. AnswersSurvive'
  BY <1>1, <1>2, <1>4, Apart DEF AccessInv, MintKey, AnswersSurvive, mem, Credential, Outcome
<1>10. WithinLimits'
  <2>1. Cardinality(new) <= MaxKeys
    BY <1>1, OneMore, FiniteTables, LimitAssumption DEF MintKey
  <2>. QED  BY <1>2, <2>1 DEF AccessInv, MintKey, WithinLimits, mem
<1>. QED  BY <1>5, <1>6, <1>7, <1>8, <1>9, <1>10 DEF AccessInv

\* A step that only changes what is in apikeys.json and its copy: what it
\* leaves in either was in one of them before.
LEMMA KeysShrink ==
  ASSUME AccessInv, NEW new \in SUBSET keys.mem, NEW o \in Outcome,
         keys' = Save(keys, new, o),
         UNCHANGED <<authfile, asked, oauth, codes, client, stamp, told, late, buried>>,
         note' \in [Credential -> Notes],
         \A x \in Credential : note'[x] # note[x] =>
             /\ x \in Key
             /\ note'[x] \in {"dead", "removing"}
             /\ x \in keys.mem
             /\ note'[x] = "dead" => x \notin new /\ o # "unsaved",
         \A x \in keys.mem \ new : note'[x] # "live"
  PROVE  AccessInv'
<1>1. TypeOK /\ keys \in [mem : SUBSET Key, disk : SUBSET Key] /\ new \in SUBSET Key
  BY DEF AccessInv, TypeOK
<1>2. /\ keys' \in [mem : SUBSET Key, disk : SUBSET Key]
      /\ keys'.mem = new
      /\ keys'.disk \in {new, keys.disk}
      /\ o # "unsaved" => keys'.disk = new
  BY <1>1 DEF Save
<1>3. TypeOK'
  BY <1>1, <1>2 DEF TypeOK
<1>4. AskedIsNew'
  BY <1>1 DEF AccessInv, AskedIsNew, FilesHoldMade, TypeOK, Credential
<1>5. FilesHoldMade'
  BY <1>1, <1>2, Apart DEF AccessInv, FilesHoldMade, mem, TypeOK, OAuthFile, Credential
<1>6. CodesNoted'
  BY Apart DEF AccessInv, CodesNoted, Credential
<1>7. (TokensAhead /\ GrantsNameClients)'
  BY DEF AccessInv, TokensAhead, GrantsNameClients, Used, mem
<1>8. StampsBehind'
  BY <1>1 DEF AccessInv, StampsBehind, TypeOK
<1>9. AnswersSurvive'
  BY <1>1, <1>2, Apart DEF AccessInv, AnswersSurvive, mem, Credential
<1>10. WithinLimits'
  <2>1. Cardinality(new) <= MaxKeys
    BY <1>1, NoMore, FiniteTables, LimitAssumption DEF AccessInv, WithinLimits
  <2>. QED  BY <1>2, <2>1 DEF AccessInv, WithinLimits, mem
<1>. QED  BY <1>3, <1>4, <1>5, <1>6, <1>7, <1>8, <1>9, <1>10 DEF AccessInv

LEMMA UseKeyKeeps ==
  ASSUME AccessInv, NEW k \in Key, NEW o \in Outcome, UseKey(k, o)
  PROVE  AccessInv'
<1>1. note' \in [Credential -> Notes]
  BY DEF AccessInv, UseKey, TypeOK
<1>. QED  BY <1>1, KeysShrink DEF UseKey

LEMMA DeleteKeyKeeps ==
  ASSUME AccessInv, NEW k \in Key, NEW o \in Outcome, DeleteKey(k, o)
  PROVE  AccessInv'
<1>. DEFINE new == keys.mem \ {k}
<1>1. note \in [Credential -> Notes] /\ k \in Credential
  BY DEF AccessInv, TypeOK, Credential
<1>2. /\ note'[k] \in {"dead", "removing"}
      /\ note'[k] = "dead" => o # "unsaved"
      /\ \A x \in Credential \ {k} : note'[x] = note[x]
      /\ note' \in [Credential -> Notes]
  BY <1>1 DEF DeleteKey, NoteAfter, Notes, Outcome
<1>3. new \in SUBSET keys.mem /\ k \in keys.mem /\ keys.mem \ new = {k} /\ k \notin new
  BY DEF DeleteKey
<1>4. keys' = Save(keys, new, o)
  BY DEF DeleteKey
<1>. HIDE DEF new
<1>. QED  BY <1>1, <1>2, <1>3, <1>4, KeysShrink DEF DeleteKey

(***************************************************************************)
(* Connectors                                                              *)
(***************************************************************************)
\* What a save of mcpoauth.json leaves.
LEMMA SaveShape ==
  ASSUME TypeOK, NEW new \in OAuthFile, NEW o, oauth' = Save(oauth, new, o)
  PROVE  /\ oauth \in [mem : OAuthFile, disk : OAuthFile]
         /\ oauth' \in [mem : OAuthFile, disk : OAuthFile]
         /\ oauth'.mem = new /\ oauth'.disk \in {new, oauth.disk}
         /\ o # "unsaved" => oauth'.disk = new
<1>1. oauth \in [mem : OAuthFile, disk : OAuthFile]
  BY DEF TypeOK
<1>. HIDE DEF OAuthFile
<1>. QED  BY <1>1 DEF Save

LEMMA RegisterKeeps ==
  ASSUME AccessInv, NEW d \in Client, NEW gone \in SUBSET Client, NEW o \in Outcome,
         Register(d, gone, o)
  PROVE  AccessInv'
<1>. DEFINE new == [mem EXCEPT !.clients = (@ \ gone) \union {d}]
<1>1. TypeOK /\ mem \in OAuthFile
  BY DEF AccessInv, TypeOK, mem
<1>2. /\ new \in OAuthFile /\ new.clients = (mem.clients \ gone) \union {d}
      /\ new.grants = mem.grants /\ new.token = mem.token
  BY <1>1 DEF OAuthFile
<1>3. oauth' = Save(oauth, new, o)
  BY DEF Register
<1>. HIDE DEF new
<1>4. /\ oauth \in [mem : OAuthFile, disk : OAuthFile]
      /\ oauth' \in [mem : OAuthFile, disk : OAuthFile]
      /\ oauth'.mem = new /\ oauth'.disk \in {new, oauth.disk}
  BY <1>1, <1>2, <1>3, SaveShape
<1>5. TypeOK'
  BY <1>1, <1>4 DEF Register, TypeOK
<1>6. (AskedIsNew /\ CodesNoted /\ StampsBehind)'
  BY DEF AccessInv, Register, AskedIsNew, CodesNoted, StampsBehind
<1>7. (FilesHoldMade /\ TokensAhead /\ AnswersSurvive)'
  <2>1. FilesHoldMade'
    BY <1>2, <1>4 DEF AccessInv, Register, FilesHoldMade, mem
  <2>2. TokensAhead'
    BY <1>2, <1>4 DEF AccessInv, Register, TokensAhead, mem
  <2>3. AnswersSurvive'
    BY <1>2, <1>4 DEF AccessInv, Register, AnswersSurvive, mem
  <2>. QED  BY <2>1, <2>2, <2>3
<1>8. GrantsNameClients'
  <2>1. \A c \in new.grants : client[c] \in new.clients
    BY <1>2 DEF AccessInv, Register, MakesRoom, GrantsNameClients, Used
  <2>2. \A c \in oauth.disk.grants : client[c] \in oauth.disk.clients
    BY DEF AccessInv, GrantsNameClients, Used
  <2>3. client' = client
    BY DEF Register
  <2>. QED  BY <1>4, <2>1, <2>2, <2>3 DEF GrantsNameClients, Used, mem
<1>9. WithinLimits'
  <2>1. Cardinality(new.clients) <= MaxClients
    BY <1>1, <1>2, OneMore, FiniteTables, LimitAssumption DEF Register, MakesRoom
  <2>. QED  BY <1>2, <1>4, <2>1 DEF AccessInv, Register, WithinLimits, mem
<1>. QED  BY <1>5, <1>6, <1>7, <1>8, <1>9 DEF AccessInv

LEMMA AskConsentKeeps ==
  ASSUME AccessInv, NEW c \in Consent, NEW d \in Client, AskConsent(c, d)
  PROVE  AccessInv'
<1>1. TypeOK /\ c \in Credential /\ note[c] = "none"
  BY DEF AccessInv, AskConsent, Credential
<1>2. TypeOK'
  BY <1>1, KeyverType DEF AskConsent, TypeOK
<1>3. (AskedIsNew /\ FilesHoldMade /\ CodesNoted /\ TokensAhead)'
  BY <1>1 DEF AccessInv, AskConsent, AskedIsNew, FilesHoldMade, CodesNoted, TokensAhead, mem, TypeOK
<1>4. (StampsBehind /\ AnswersSurvive /\ WithinLimits)'
  BY DEF AccessInv, AskConsent, StampsBehind, AnswersSurvive, WithinLimits, mem
<1>5. GrantsNameClients'
  <2>1. c \notin mem.grants \union oauth.disk.grants
    BY <1>1 DEF AccessInv, FilesHoldMade
  <2>2. \A e \in mem.grants \union oauth.disk.grants : client'[e] = client[e]
    BY <1>1, <2>1 DEF AskConsent, TypeOK, mem, OAuthFile
  <2>. QED  BY <2>2 DEF AccessInv, AskConsent, GrantsNameClients, Used, mem
<1>. QED  BY <1>2, <1>3, <1>4, <1>5 DEF AccessInv

LEMMA IssueCodeKeeps ==
  ASSUME AccessInv, NEW c \in Consent, IssueCode(c)
  PROVE  AccessInv'
<1>1. /\ TypeOK /\ c \in Credential
      /\ note[c] = "none" /\ c \notin buried
      /\ c \notin mem.grants \union oauth.disk.grants
  BY DEF AccessInv, IssueCode, AskedIsNew, StampsBehind, FilesHoldMade, Credential
<1>2. /\ note' \in [Credential -> Notes] /\ note'[c] = "code"
      /\ \A x \in Credential \ {c} : note'[x] = note[x]
  BY <1>1 DEF IssueCode, TypeOK, Notes
<1>3. TypeOK'
  <2>1. /\ asked' \in [Credential -> Keyvers] /\ stamp' \in [Credential -> Keyvers]
        /\ late' \in SUBSET Credential /\ codes' \in SUBSET Consent
    BY <1>1, KeyverType, LimitAssumption DEF IssueCode, TypeOK, Keyvers
  <2>. QED  BY <1>2, <2>1 DEF AccessInv, IssueCode, TypeOK
<1>4. (AskedIsNew /\ FilesHoldMade)'
  <2>1. AskedIsNew'
    BY <1>1, <1>2 DEF AccessInv, IssueCode, AskedIsNew, TypeOK
  <2>2. FilesHoldMade'
    BY <1>1, <1>2, Apart DEF AccessInv, IssueCode, FilesHoldMade, mem, TypeOK, OAuthFile, Credential
  <2>. QED  BY <2>1, <2>2
<1>5. CodesNoted'
  BY <1>1, <1>2 DEF AccessInv, IssueCode, CodesNoted, Credential
<1>6. (TokensAhead /\ GrantsNameClients /\ WithinLimits)'
  BY DEF AccessInv, IssueCode, TokensAhead, GrantsNameClients, WithinLimits, Used, mem
<1>7. StampsBehind'
  BY <1>1, <1>2, KeyverType DEF AccessInv, IssueCode, StampsBehind, TypeOK, Keyvers
<1>8. AnswersSurvive'
  BY <1>1, <1>2 DEF AccessInv, IssueCode, AnswersSurvive, mem
<1>. QED  BY <1>3, <1>4, <1>5, <1>6, <1>7, <1>8 DEF AccessInv

LEMMA LoseCodeKeeps ==
  ASSUME AccessInv, NEW c \in Consent, LoseCode(c)
  PROVE  AccessInv'
<1>1. TypeOK /\ c \in Credential /\ note[c] = "code"
  BY DEF AccessInv, LoseCode, CodesNoted, Credential
<1>2. c \notin mem.grants \union oauth.disk.grants
  BY <1>1 DEF AccessInv, FilesHoldMade
<1>3. /\ note' \in [Credential -> Notes] /\ note'[c] = "lost"
      /\ \A x \in Credential \ {c} : note'[x] = note[x]
  BY <1>1 DEF LoseCode, TypeOK, Notes
<1>4. TypeOK'
  BY <1>1, <1>3 DEF LoseCode, TypeOK
<1>5. AskedIsNew'
  BY <1>1, <1>3 DEF AccessInv, LoseCode, AskedIsNew
<1>6. FilesHoldMade'
  BY <1>1, <1>2, <1>3, Apart DEF AccessInv, LoseCode, FilesHoldMade, mem, TypeOK, OAuthFile,
     Credential
<1>7. CodesNoted'
  BY <1>1, <1>3 DEF AccessInv, LoseCode, CodesNoted, Credential
<1>8. (TokensAhead /\ GrantsNameClients /\ WithinLimits)'
  BY DEF AccessInv, LoseCode, TokensAhead, GrantsNameClients, WithinLimits, Used, mem
<1>9. (StampsBehind /\ AnswersSurvive)'
  BY <1>1, <1>3 DEF AccessInv, LoseCode, StampsBehind, AnswersSurvive, mem, TypeOK
<1>. QED  BY <1>4, <1>5, <1>6, <1>7, <1>8, <1>9 DEF AccessInv

LEMMA RedeemKeeps ==
  ASSUME AccessInv, NEW c \in Consent, NEW out \in SUBSET Consent, NEW o \in Outcome,
         Redeem(c, out, o)
  PROVE  AccessInv'
<1>. DEFINE new == [mem EXCEPT !.grants = (@ \ out) \union {c}]
<1>1. /\ TypeOK /\ mem \in OAuthFile /\ c \in Credential
      /\ note[c] = "code" /\ out \subseteq mem.grants
  BY DEF AccessInv, TypeOK, mem, Redeem, CodesNoted, Credential, Evicts
<1>2. /\ new \in OAuthFile /\ new.grants = (mem.grants \ out) \union {c}
      /\ new.clients = mem.clients /\ new.token = mem.token
  BY <1>1 DEF OAuthFile
<1>3. oauth' = Save(oauth, new, o)
  BY DEF Redeem
<1>. HIDE DEF new
<1>4. /\ oauth \in [mem : OAuthFile, disk : OAuthFile]
      /\ oauth' \in [mem : OAuthFile, disk : OAuthFile]
      /\ oauth'.mem = new /\ oauth'.disk \in {new, oauth.disk}
      /\ o # "unsaved" => oauth'.disk = new
  BY <1>1, <1>2, <1>3, SaveShape
<1>5. c \notin mem.grants \union oauth.disk.grants
      /\ \A e \in mem.grants : note[e] \notin {"none", "code", "lost", "dead"}
  BY <1>1 DEF AccessInv, FilesHoldMade
<1>6. /\ note'[c] \in {"live", "orphan"}
      /\ o # "answered" => note'[c] = "orphan"
      /\ \A x \in out : note'[x] = "evicted"
      /\ \A x \in Credential \ (out \union {c}) : note'[x] = note[x]
      /\ note' \in [Credential -> Notes]
  <2>1. note' = NoteGrant(c, out, o)
    BY DEF Redeem
  <2>2. \A x \in out : x \in Credential /\ x # c
    BY <1>1, <1>5 DEF Credential
  <2>3. NoteAfter(o, "live", "orphan") \in {"live", "orphan"}
        /\ (o # "answered" => NoteAfter(o, "live", "orphan") = "orphan")
    BY NoteAfterType
  <2>4. note \in [Credential -> Notes]
    BY <1>1 DEF TypeOK
  <2>. QED  BY <1>1, <2>1, <2>2, <2>3, <2>4 DEF NoteGrant, Notes
<1>7. TypeOK'
  BY <1>1, <1>4, <1>6 DEF Redeem, TypeOK
<1>8. AskedIsNew'
  BY <1>1, <1>5, <1>6 DEF AccessInv, Redeem, AskedIsNew
<1>9. FilesHoldMade'
  <2>1. \A k \in keys.mem \union keys.disk : k \in Key /\ k \in Credential /\ k \notin out /\ k # c
    BY <1>1, Apart DEF TypeOK, Credential
  <2>2. \A e \in new.grants \union oauth.disk.grants : e \in Credential
    BY <1>2, <1>4 DEF OAuthFile, Credential
  <2>3. \A k \in keys.mem \union keys.disk : note'[k] \notin {"none", "code", "lost", "dead"}
    BY <1>6, <2>1 DEF AccessInv, FilesHoldMade
  <2>4. \A e \in new.grants \union oauth.disk.grants : note'[e] \notin {"none", "code", "lost", "dead"}
    BY <1>2, <1>6, <2>2 DEF AccessInv, FilesHoldMade
  <2>. QED  BY <1>4, <2>3, <2>4 DEF Redeem, FilesHoldMade, mem
<1>10. CodesNoted'
  BY <1>1, <1>5, <1>6 DEF AccessInv, Redeem, CodesNoted, Credential
<1>11. TokensAhead'
  BY <1>2, <1>4 DEF AccessInv, Redeem, TokensAhead, mem
<1>12. StampsBehind'
  BY <1>1, <1>6 DEF AccessInv, Redeem, StampsBehind, TypeOK
<1>13. AnswersSurvive'
  <2>1. ASSUME NEW x \in Credential, note'[x] = "live", x \in Key
        PROVE  x \in keys'.mem \intersect keys'.disk
    <3>1. x \notin out /\ x # c
      BY <2>1, Apart
    <3>. QED  BY <1>6, <2>1, <3>1 DEF AccessInv, Redeem, AnswersSurvive
  <2>2. ASSUME NEW x \in Credential, note'[x] = "live", x \notin Key
        PROVE  x \in oauth'.mem.grants \intersect oauth'.disk.grants
    <3>1. CASE x = c
      <4>1. o = "answered"
        BY <1>6, <2>2, <3>1
      <4>. QED  BY <1>2, <1>4, <3>1, <4>1
    <3>2. CASE x # c
      <4>1. x \notin out /\ note[x] = "live"
        BY <1>6, <2>2, <3>2
      <4>2. x \in mem.grants \intersect oauth.disk.grants
        BY <2>2, <4>1 DEF AccessInv, AnswersSurvive
      <4>. QED  BY <1>2, <1>4, <4>1, <4>2
    <3>. QED  BY <3>1, <3>2
  <2>. QED  BY <2>1, <2>2 DEF AnswersSurvive, mem
<1>14. GrantsNameClients'
  <2>1. \A e \in new.grants : client[e] \in new.clients
    BY <1>2 DEF AccessInv, Redeem, GrantsNameClients, Used
  <2>2. \A e \in oauth.disk.grants : client[e] \in oauth.disk.clients
    BY DEF AccessInv, GrantsNameClients, Used
  <2>3. client' = client
    BY DEF Redeem
  <2>. QED  BY <1>4, <2>1, <2>2, <2>3 DEF GrantsNameClients, Used, mem
<1>15. WithinLimits'
  <2>1. Cardinality(mem.grants \ out) < MaxGrants
    <3>1. CASE Cardinality(mem.grants) < MaxGrants
      <4>1. mem.grants \ out = mem.grants
        BY <3>1 DEF Redeem, Evicts
      <4>. QED  BY <3>1, <4>1
    <3>2. CASE ~ (Cardinality(mem.grants) < MaxGrants)
      BY <3>2, LimitAssumption DEF Redeem, Evicts
    <3>. QED  BY <3>1, <3>2
  <2>2. Cardinality(new.grants) <= MaxGrants
    BY <1>1, <1>2, <2>1, OneMore, FiniteTables, LimitAssumption
  <2>. QED  BY <1>2, <1>4, <2>2 DEF AccessInv, Redeem, WithinLimits, mem
<1>. QED  BY <1>7, <1>8, <1>9, <1>10, <1>11, <1>12, <1>13, <1>14, <1>15 DEF AccessInv

LEMMA RefreshKeeps ==
  ASSUME AccessInv, NEW c \in Consent, NEW o \in Outcome, Refresh(c, o)
  PROVE  AccessInv'
<1>. DEFINE new == [mem EXCEPT !.token[c] = @ + 1]
<1>1. TypeOK /\ mem \in OAuthFile /\ mem.token \in [Consent -> 0..MaxRefresh]
  BY DEF AccessInv, TypeOK, mem, OAuthFile
<1>2. /\ mem.token[c] \in Nat /\ mem.token[c] + 1 \in 0..MaxRefresh
      /\ told[c] \in Nat /\ told[c] <= mem.token[c]
  BY <1>1, LimitAssumption DEF AccessInv, Refresh, TokensAhead, TypeOK
<1>3. /\ new = [mem EXCEPT !.token = [mem.token EXCEPT ![c] = mem.token[c] + 1]]
      /\ [mem.token EXCEPT ![c] = mem.token[c] + 1] \in [Consent -> 0..MaxRefresh]
  BY <1>1, <1>2
<1>4. /\ new \in OAuthFile
      /\ new.clients = mem.clients /\ new.grants = mem.grants
      /\ new.token = [mem.token EXCEPT ![c] = mem.token[c] + 1]
  <2>. DEFINE tok == [mem.token EXCEPT ![c] = mem.token[c] + 1]
  <2>1. new = [mem EXCEPT !.token = tok] /\ tok \in [Consent -> 0..MaxRefresh]
    BY <1>3
  <2>. HIDE DEF tok, new
  <2>2. new \in OAuthFile /\ new.clients = mem.clients /\ new.grants = mem.grants /\ new.token = tok
    BY <1>1, <2>1 DEF OAuthFile
  <2>. QED  BY <2>2 DEF tok
<1>5. oauth' = Save(oauth, new, o)
  BY DEF Refresh
<1>. HIDE DEF new
<1>6. /\ oauth \in [mem : OAuthFile, disk : OAuthFile]
      /\ oauth' \in [mem : OAuthFile, disk : OAuthFile]
      /\ oauth'.mem = new /\ oauth'.disk \in {new, oauth.disk}
      /\ o # "unsaved" => oauth'.disk = new
  BY <1>1, <1>4, <1>5, SaveShape
<1>7. /\ told' \in [Consent -> 0..MaxRefresh]
      /\ told'[c] \in {told[c], mem.token[c] + 1}
      /\ o # "answered" => told'[c] = told[c]
      /\ \A e \in Consent \ {c} : told'[e] = told[e]
  BY <1>1, <1>2 DEF Refresh, TypeOK
<1>8. TypeOK'
  BY <1>1, <1>6, <1>7 DEF Refresh, TypeOK
<1>9. (AskedIsNew /\ CodesNoted /\ StampsBehind)'
  BY DEF AccessInv, Refresh, AskedIsNew, CodesNoted, StampsBehind
<1>10. (FilesHoldMade /\ AnswersSurvive /\ GrantsNameClients /\ WithinLimits)'
  <2>1. FilesHoldMade'
    BY <1>4, <1>6 DEF AccessInv, Refresh, FilesHoldMade, mem
  <2>2. AnswersSurvive'
    BY <1>4, <1>6 DEF AccessInv, Refresh, AnswersSurvive, mem
  <2>3. GrantsNameClients'
    BY <1>4, <1>6 DEF AccessInv, Refresh, GrantsNameClients, Used, mem
  <2>4. WithinLimits'
    BY <1>4, <1>6 DEF AccessInv, Refresh, WithinLimits, mem
  <2>. QED  BY <2>1, <2>2, <2>3, <2>4
<1>11. TokensAhead'
  <2>1. \A e \in Consent : /\ told[e] \in Nat /\ mem.token[e] \in Nat
                           /\ told[e] <= mem.token[e] /\ told[e] <= oauth.disk.token[e]
    BY <1>1, LimitAssumption DEF AccessInv, TokensAhead, TypeOK
  <2>2. \A e \in Consent : told'[e] <= new.token[e]
    BY <1>1, <1>2, <1>4, <1>7, <2>1
  <2>3. o = "unsaved" => \A e \in Consent : told'[e] <= oauth.disk.token[e]
    BY <1>7, <2>1
  <2>. QED  BY <1>6, <2>2, <2>3 DEF TokensAhead, mem
<1>. QED  BY <1>8, <1>9, <1>10, <1>11 DEF AccessInv

LEMMA RevokeGrantKeeps ==
  ASSUME AccessInv, NEW c \in Consent, NEW o \in Outcome, RevokeGrant(c, o)
  PROVE  AccessInv'
<1>. DEFINE new == [mem EXCEPT !.grants = @ \ {c}]
<1>1. TypeOK /\ mem \in OAuthFile /\ c \in Credential
  BY DEF AccessInv, TypeOK, mem, Credential
<1>2. /\ new \in OAuthFile /\ new.grants = mem.grants \ {c}
      /\ new.clients = mem.clients /\ new.token = mem.token
  BY <1>1 DEF OAuthFile
<1>3. oauth' = Save(oauth, new, o)
  BY DEF RevokeGrant
<1>. HIDE DEF new
<1>4. /\ oauth \in [mem : OAuthFile, disk : OAuthFile]
      /\ oauth' \in [mem : OAuthFile, disk : OAuthFile]
      /\ oauth'.mem = new /\ oauth'.disk \in {new, oauth.disk}
      /\ o # "unsaved" => oauth'.disk = new
  BY <1>1, <1>2, <1>3, SaveShape
<1>5. /\ note'[c] \in {"dead", "removing"}
      /\ note'[c] = "dead" => o # "unsaved"
      /\ \A x \in Credential \ {c} : note'[x] = note[x]
      /\ note' \in [Credential -> Notes]
      /\ note[c] \notin {"none", "code", "lost", "dead"}
  BY <1>1 DEF AccessInv, RevokeGrant, FilesHoldMade, NoteAfter, Notes, Outcome, TypeOK
<1>6. TypeOK'
  BY <1>1, <1>4, <1>5 DEF RevokeGrant, TypeOK
<1>7. (AskedIsNew /\ CodesNoted)'
  <2>1. AskedIsNew'
    BY <1>1, <1>5 DEF AccessInv, RevokeGrant, AskedIsNew
  <2>2. CodesNoted'
    BY <1>1, <1>5 DEF AccessInv, RevokeGrant, CodesNoted, Credential
  <2>. QED  BY <2>1, <2>2
<1>8. FilesHoldMade'
  <2>1. \A k \in keys.mem \union keys.disk : k \in Credential \ {c}
    BY <1>1, Apart DEF TypeOK, Credential
  <2>2. \A e \in oauth.mem.grants \union oauth.disk.grants : e \in Credential
    BY <1>4 DEF OAuthFile, Credential
  <2>3. \A e \in new.grants \union oauth'.disk.grants : note'[e] \notin {"none", "code", "lost", "dead"}
    BY <1>2, <1>4, <1>5, <2>2 DEF AccessInv, FilesHoldMade, mem
  <2>. QED  BY <1>4, <1>5, <2>1, <2>3 DEF AccessInv, RevokeGrant, FilesHoldMade, mem
<1>9. TokensAhead'
  BY <1>2, <1>4 DEF AccessInv, RevokeGrant, TokensAhead, mem
<1>10. StampsBehind'
  BY <1>1, <1>5 DEF AccessInv, RevokeGrant, StampsBehind, TypeOK
<1>11. AnswersSurvive'
  BY <1>2, <1>4, <1>5, Apart DEF AccessInv, RevokeGrant, AnswersSurvive, mem
<1>12. GrantsNameClients'
  BY <1>2, <1>4 DEF AccessInv, RevokeGrant, GrantsNameClients, Used, mem
<1>13. WithinLimits'
  <2>1. Cardinality(new.grants) <= MaxGrants
    BY <1>1, <1>2, NoMore, FiniteTables, LimitAssumption DEF AccessInv, WithinLimits, mem
  <2>. QED  BY <1>2, <1>4, <2>1 DEF AccessInv, RevokeGrant, WithinLimits, mem
<1>. QED  BY <1>6, <1>7, <1>8, <1>9, <1>10, <1>11, <1>12, <1>13 DEF AccessInv

(***************************************************************************)
(* The process                                                             *)
(***************************************************************************)
LEMMA RestartKeeps == AccessInv /\ Restart => AccessInv'
<1>. SUFFICES ASSUME AccessInv, Restart PROVE AccessInv'
  OBVIOUS
<1>1. /\ TypeOK
      /\ keys \in [mem : SUBSET Key, disk : SUBSET Key]
      /\ oauth \in [mem : OAuthFile, disk : OAuthFile]
  BY DEF AccessInv, TypeOK
<1>2. /\ keys' = [mem |-> keys.disk, disk |-> keys.disk]
      /\ oauth' = [mem |-> oauth.disk, disk |-> oauth.disk]
  <2>. HIDE DEF OAuthFile
  <2>. QED  BY <1>1 DEF Restart
<1>3. \A x \in Credential : /\ x \in codes => note'[x] = "lost" /\ note[x] = "code"
                            /\ x \notin codes => note'[x] = note[x]
  BY <1>1 DEF AccessInv, Restart, CodesNoted
<1>4. note' \in [Credential -> Notes]
  BY <1>1 DEF Restart, TypeOK, Notes
<1>5. TypeOK'
  <2>1. asked' \in [Credential -> Keyvers] /\ codes' \in SUBSET Consent
    BY LimitAssumption DEF Restart, Keyvers
  <2>. HIDE DEF OAuthFile
  <2>. QED  BY <1>1, <1>2, <1>4, <2>1 DEF Restart, TypeOK
<1>6. (AskedIsNew /\ CodesNoted)'
  <2>1. AskedIsNew'
    BY DEF Restart, AskedIsNew
  <2>2. CodesNoted'
    BY <1>3 DEF AccessInv, Restart, CodesNoted, Credential
  <2>. QED  BY <2>1, <2>2
<1>7. FilesHoldMade'
  <2>1. \A k \in keys.disk : k \in Credential /\ note[k] \notin {"none", "code", "lost", "dead"}
    BY <1>1 DEF AccessInv, FilesHoldMade, Credential
  <2>2. \A e \in oauth.disk.grants : e \in Credential /\ note[e] \notin {"none", "code", "lost", "dead"}
    BY <1>1 DEF AccessInv, FilesHoldMade, OAuthFile, Credential
  <2>. QED  BY <1>2, <1>3, <2>1, <2>2 DEF FilesHoldMade, mem
<1>8. (TokensAhead /\ GrantsNameClients /\ WithinLimits)'
  BY <1>2 DEF AccessInv, Restart, TokensAhead, GrantsNameClients, WithinLimits, Used, mem
<1>9. StampsBehind'
  BY <1>1, <1>3 DEF AccessInv, Restart, StampsBehind, TypeOK
<1>10. AnswersSurvive'
  BY <1>2, <1>3 DEF AccessInv, AnswersSurvive, mem
<1>. QED  BY <1>5, <1>6, <1>7, <1>8, <1>9, <1>10 DEF AccessInv

\* Every step keeps the invariant.
LEMMA NextInv == AccessInv /\ [Next]_vars => AccessInv'
<1>. SUFFICES ASSUME AccessInv, [Next]_vars PROVE AccessInv'
  OBVIOUS
<1>1. CASE SignOutEveryone \/ EditAuth \/ Restart
  BY <1>1, SignOutKeeps, EditAuthKeeps, RestartKeeps
<1>2. CASE \E k \in Key : AskKey(k)
  BY <1>2, AskKeyKeeps
<1>3. CASE \E k \in Key, o \in Outcome : MintKey(k, o) \/ UseKey(k, o) \/ DeleteKey(k, o)
  BY <1>3, MintKeyKeeps, UseKeyKeeps, DeleteKeyKeeps
<1>4. CASE \E x \in Credential : Refuse(x)
  BY <1>4, RefuseKeeps
<1>5. CASE \E d \in Client, gone \in SUBSET Client, o \in Outcome : Register(d, gone, o)
  BY <1>5, RegisterKeeps
<1>6. CASE \E c \in Consent, d \in Client : AskConsent(c, d)
  BY <1>6, AskConsentKeeps
<1>7. CASE \E c \in Consent : IssueCode(c) \/ LoseCode(c)
  BY <1>7, IssueCodeKeeps, LoseCodeKeeps
<1>8. CASE \E c \in Consent, out \in SUBSET Consent, o \in Outcome : Redeem(c, out, o)
  BY <1>8, RedeemKeeps
<1>9. CASE \E c \in Consent, o \in Outcome : Refresh(c, o) \/ RevokeGrant(c, o)
  BY <1>9, RefreshKeeps, RevokeGrantKeeps
<1>10. CASE UNCHANGED vars
  BY <1>10 DEF vars, AccessInv, TypeOK, AskedIsNew, FilesHoldMade, CodesNoted, TokensAhead,
     StampsBehind, AnswersSurvive, GrantsNameClients, WithinLimits, Used, mem
<1>. QED  BY <1>1, <1>2, <1>3, <1>4, <1>5, <1>6, <1>7, <1>8, <1>9, <1>10 DEF Next

(***************************************************************************)
(* The theorems                                                            *)
(***************************************************************************)
\* The order of asking, stamping, saving and answering in create_key,
\* oauth_authorize_post, redeem_code and refresh keeps the invariant.
THEOREM AccessInvariant == Spec => []AccessInv
  BY InitInv, NextInv, PTL DEF Spec

\* sign-out-everyone is final for every key, code and grant there was: no
\* refresh, failed save or restart brings one back while auth.json is readable.
THEOREM SignedOutStaysOutAlways == Spec => []SignedOutStaysOut
<1>1. AccessInv => SignedOutStaysOut
  <2>. SUFFICES ASSUME AccessInv, authfile.ok, NEW x \in buried PROVE ~ Accepted(x)
    BY DEF SignedOutStaysOut
  <2>1. stamp[x] # 0 /\ stamp[x] < authfile.kv /\ x \in Credential
    BY DEF AccessInv, StampsBehind, TypeOK
  <2>2. stamp[x] \in Nat /\ authfile.kv \in Nat
    BY <2>1, LimitAssumption DEF AccessInv, TypeOK, Keyvers
  <2>3. ~ KvOk(x)
    BY <2>1, <2>2 DEF KvOk, Keyver
  <2>. QED  BY <2>3 DEF Accepted, KeyAccepted, GrantAccepted
<1>. QED  BY <1>1, AccessInvariant, PTL

\* A removal that was answered 200 is final, and so is every access token that
\* was answered a successor of.
THEOREM RevokedStaysRevokedAlways == Spec => []RevokedStaysRevoked
<1>1. AccessInv => RevokedStaysRevoked
  <2>. SUFFICES ASSUME AccessInv PROVE RevokedStaysRevoked
    OBVIOUS
  <2>1. \A x \in Credential : note[x] = "dead" => ~ Accepted(x)
    BY DEF AccessInv, FilesHoldMade, Accepted, KeyAccepted, GrantAccepted
  <2>2. \A c \in Consent, t \in 0..MaxRefresh : TokenAccepted(c, t) => t >= told[c]
    BY LimitAssumption DEF AccessInv, TokensAhead, TokenAccepted, TypeOK
  <2>. QED  BY <2>1, <2>2 DEF RevokedStaysRevoked
<1>. QED  BY <1>1, AccessInvariant, PTL

\* No error on another credential and no restart loses a key or a grant that
\* was answered.
THEOREM AnswersSurviveAlways == Spec => []AnswersSurvive
<1>1. AccessInv => AnswersSurvive
  BY DEF AccessInv
<1>. QED  BY <1>1, AccessInvariant, PTL

\* No anonymous registration pushes out the client of a grant.
THEOREM GrantsNameClientsAlways == Spec => []GrantsNameClients
<1>1. AccessInv => GrantsNameClients
  BY DEF AccessInv
<1>. QED  BY <1>1, AccessInvariant, PTL

\* The tables of keys, clients and grants keep their limits in memory and on
\* disk, whatever fails.
THEOREM WithinLimitsAlways == Spec => []WithinLimits
<1>1. AccessInv => WithinLimits
  BY DEF AccessInv
<1>. QED  BY <1>1, AccessInvariant, PTL
=============================================================================
