--------------------------- MODULE UnlockedProofs ---------------------------
(***************************************************************************)
(* What requests that check first and commit later, or read in several     *)
(* statements, without a lock, keep true, for every number of them, for    *)
(* every life of a credential and for every publication that is watched.   *)
(***************************************************************************)
EXTENDS Unlocked, TLAPS, FiniteSetTheorems, SequenceTheorems, WellFoundedInduction

LEMMA SeqElement == ASSUME NEW S, NEW s \in Seq(S), NEW i \in DOMAIN s PROVE s[i] \in S
OBVIOUS

-----------------------------------------------------------------------------
(* Credentials                                                             *)

\* The request for S3 keys is less than a tick away from its checks.
KeysAreAsked == issue # Cre!Never => issue <= time /\ time <= issue + 1

\* Nothing was made to last longer than its life from now.
NothingOutlives ==
    /\ token <= time + AccessLife /\ scoped <= time + AccessLife
    /\ keys <= time + KeyLife
    /\ started = "none" => logging = 0
    /\ started = "running" => logging <= time + LoggingLife

\* No one who was removed comes back, and no keys are asked for after the removal.
RemovedIsOver ==
    /\ member => credential # "none"
    /\ removed # Cre!Never =>
          /\ ~member /\ credential # "none" /\ removed <= time
          /\ issue # Cre!Never => issue <= removed

\* A revoked credential logs in no more: what is exchanged, and then asked for, follows
\* from tokens that were there.
RevokedIsOver ==
    disabled # Cre!Never =>
        /\ credential = "revoked" /\ disabled <= time
        /\ token <= disabled + AccessLife
        /\ issue # Cre!Never => issue + 2 <= disabled + 2 * AccessLife

TimesAreNumbers ==
    /\ token \in Nat /\ scoped \in Nat /\ logging \in Nat /\ keys \in Nat
    /\ time \in 0..LastClock

MachineInv ==
    /\ Cre!CredentialsRunOut /\ TimesAreNumbers
    /\ KeysAreAsked /\ NothingOutlives /\ RemovedIsOver /\ RevokedIsOver

LEMMA MachineInit == Cre!Init => MachineInv
<1> SUFFICES ASSUME Cre!Init PROVE MachineInv
  OBVIOUS
<1> USE CredentialConstants DEF Cre!Init, Cre!Never, Cre!None, Cre!Times
<1>1. member \in BOOLEAN
  BY Zenon
<1>2. {token, scoped, logging, keys} \subseteq Nat
  OBVIOUS
<1>3. {issue, time, removed, disabled, ended} \subseteq Cre!Times
  OBVIOUS
<1>4. Cre!TypeOK
  BY <1>1, <1>2, <1>3 DEF Cre!TypeOK
<1>5. TimesAreNumbers /\ KeysAreAsked
  BY DEF TimesAreNumbers, KeysAreAsked
<1>6. NothingOutlives /\ RemovedIsOver /\ RevokedIsOver
  BY DEF NothingOutlives, RemovedIsOver, RevokedIsOver
<1> QED
  BY <1>4, <1>5, <1>6 DEF MachineInv, Cre!CredentialsRunOut

LEMMA MachineKeeps == MachineInv /\ [Cre!Next]_(Cre!vars) => MachineInv'
<1> SUFFICES ASSUME MachineInv, [Cre!Next]_(Cre!vars) PROVE MachineInv'
  OBVIOUS
<1> USE CredentialConstants
    DEF MachineInv, Cre!CredentialsRunOut, Cre!TypeOK, Cre!Never, Cre!None, Cre!Times,
        TimesAreNumbers, KeysAreAsked, NothingOutlives, RemovedIsOver, RevokedIsOver,
        Cre!issued, Cre!history, Cre!Valid
<1>1. Cre!RemoveMember => ~member' /\ member' \in BOOLEAN
  BY Zenon DEF Cre!RemoveMember
<1>2. CASE Cre!CreateCredential
  BY <1>2 DEF Cre!CreateCredential
<1>3. CASE Cre!RevokeCredential
  BY <1>3 DEF Cre!RevokeCredential
<1>4. CASE Cre!RemoveMember
  BY <1>1, <1>4 DEF Cre!RemoveMember
<1>5. CASE Cre!Login
  BY <1>5 DEF Cre!Login, Cre!Authenticates
<1>6. CASE Cre!Exchange
  BY <1>6 DEF Cre!Exchange, Cre!Exchangeable
<1>7. CASE Cre!IssueKeys
  BY <1>7 DEF Cre!IssueKeys
<1>8. CASE Cre!AssumeRole
  BY <1>8 DEF Cre!AssumeRole
<1>9. CASE Cre!StartRun \/ Cre!Heartbeat \/ Cre!EndRun
  BY <1>9 DEF Cre!StartRun, Cre!Heartbeat, Cre!EndRun, Cre!Controls
<1>10. CASE Cre!Tick
  BY <1>10 DEF Cre!Tick
<1>11. CASE UNCHANGED Cre!vars
  BY <1>11 DEF Cre!vars
<1> QED
  BY <1>2, <1>3, <1>4, <1>5, <1>6, <1>7, <1>8, <1>9, <1>10, <1>11 DEF Cre!Next

\* Whatever is exchanged while it can be, nothing made from a machine credential lasts
\* beyond its life after the revocation or the removal of its holder.
THEOREM CredentialsSafety == PartsSpec => []CredentialsRunOut
<1>1. PartsInit => MachineInv
  BY MachineInit DEF PartsInit
<1>2. PartsNext => [Cre!Next]_(Cre!vars)
  BY DEF PartsNext, SnapshotStep, ProgressStep, CatalogStep, SharingStep, MachineStep, StreamStep,
         machine, Cre!vars, Cre!issued, Cre!history
<1>3. UNCHANGED <<part, vars, catalog, sharing, machine, stream>> => UNCHANGED Cre!vars
  BY DEF machine, Cre!vars, Cre!issued, Cre!history
<1>4. MachineInv => CredentialsRunOut
  BY DEF MachineInv, CredentialsRunOut
<1> QED
  BY <1>1, <1>2, <1>3, <1>4, MachineKeeps, PTL DEF PartsSpec

-----------------------------------------------------------------------------
(* Catalog                                                                 *)

CatalogTypes ==
    /\ version \in Seq([archived : BOOLEAN]) /\ Len(version) <= MaxVersions
    /\ Cat!TypeOK

\* A name that points to an archived version: the two requests overlapped.
AliasIsRaced ==
    \A n \in Names, v \in DOMAIN version :
        alias[n] = v /\ version[v].archived => v \in raced

\* So it is for a version that a request is about to point a name to, and for one that it
\* is about to archive.
SetIsRaced ==
    \A r \in Editors : edit[r].op = "set" =>
        /\ edit[r].version \in DOMAIN version
        /\ version[edit[r].version].archived => edit[r].version \in raced
ArchiveIsRaced ==
    \A r \in Editors : edit[r].op = "archive" =>
        /\ edit[r].version \in DOMAIN version
        /\ \A n \in Names : alias[n] = edit[r].version => edit[r].version \in raced

\* What a listing did not see of the versions there were is archived by now.
ListingIsRaced ==
    \A r \in Editors :
        /\ edit[r].op = "aliases" =>
              /\ edit[r].upto <= Len(version)
              /\ \A v \in 1..edit[r].upto : v \in edit[r].read \/ version[v].archived
        /\ edit[r].op = "listed" =>
              \A v \in Cat!Unresolved(edit[r]) : v \in raced \/ v > edit[r].upto

CatalogInv ==
    CatalogTypes /\ AliasIsRaced /\ SetIsRaced /\ ArchiveIsRaced /\ ListingIsRaced

LEMMA IdleIsTyped ==
    /\ Cat!Idle \in Cat!RequestType
    /\ Cat!Idle.op = "none" /\ Cat!Idle.upto = 0
BY CatalogConstants DEF Cat!Idle, Cat!RequestType, Cat!AliasType, Cat!NoAliases, Cat!None

LEMMA CatalogInit == Cat!Init => CatalogInv
<1> SUFFICES ASSUME Cat!Init PROVE CatalogInv
  OBVIOUS
<1> USE CatalogConstants, IdleIsTyped DEF Cat!Init, Cat!Versions
<1>1. version \in Seq([archived : BOOLEAN]) /\ Len(version) = 0
  OBVIOUS
<1>2. Cat!TypeOK
  BY <1>1 DEF Cat!TypeOK, Cat!ArtifactType, Cat!AliasType, Cat!NoAliases, Cat!None
<1>3. AliasIsRaced /\ SetIsRaced /\ ArchiveIsRaced /\ ListingIsRaced
  BY <1>1 DEF AliasIsRaced, SetIsRaced, ArchiveIsRaced, ListingIsRaced
<1> QED
  BY <1>1, <1>2, <1>3 DEF CatalogInv, CatalogTypes

\* A request that starts knows a version that is not archived, or has no name.
LEMMA AdmitKeeps ==
    ASSUME CatalogInv, NEW r \in Editors, NEW q \in Cat!RequestType, Cat!Admit(r, q),
           q.op \notin {"aliases", "listed"},
           q.op = "set" => Cat!Targetable(q.version),
           q.op = "archive" => q.version \in DOMAIN version /\ Cat!Unaliased(q.version)
    PROVE  CatalogInv'
<1> USE DEF Cat!Admit, CatalogInv, CatalogTypes, Cat!TypeOK, Cat!Versions
<1>1. CatalogTypes'
  OBVIOUS
<1>2. AliasIsRaced'
  BY DEF AliasIsRaced
<1>3. SetIsRaced'
  BY DEF SetIsRaced, Cat!Targetable
<1>4. ArchiveIsRaced'
  BY DEF ArchiveIsRaced, Cat!Unaliased
<1>5. ListingIsRaced'
  BY DEF ListingIsRaced, Cat!Unresolved
<1> QED
  BY <1>1, <1>2, <1>3, <1>4, <1>5

LEMMA BeginKeeps == ASSUME CatalogInv, NEW r \in Editors, Cat!Begin(r) PROVE CatalogInv'
<1> USE CatalogConstants, IdleIsTyped
<1>1. ASSUME NEW k \in {"model", "generic"}, Cat!Create(r, k) \/ Cat!Update(r, k)
      PROVE  CatalogInv'
  <2>1. ASSUME NEW o \in {"create", "update"}
        PROVE  /\ [Cat!Idle EXCEPT !.op = o, !.kind = k] \in Cat!RequestType
               /\ [Cat!Idle EXCEPT !.op = o, !.kind = k].op = o
    BY <1>1 DEF Cat!RequestType
  <2> QED
    BY <1>1, <2>1, AdmitKeeps DEF Cat!Create, Cat!Update
<1>2. ASSUME NEW n \in Names, NEW v \in 1..MaxVersions, Cat!SetAlias(r, n, v)
      PROVE  CatalogInv'
  <2> DEFINE q == [Cat!Idle EXCEPT !.op = "set", !.name = n, !.version = v, !.found = alias[n] # 0]
  <2>1. v \in 0..MaxVersions /\ (alias[n] # 0) \in BOOLEAN
    OBVIOUS
  <2>2. q \in Cat!RequestType
    BY <1>2, <2>1 DEF Cat!RequestType
  <2>3. q.op = "set" /\ q.version = v
    BY <1>2, <2>1 DEF Cat!RequestType
  <2>4. Cat!Admit(r, q) /\ Cat!Targetable(v)
    BY <1>2 DEF Cat!SetAlias
  <2> HIDE DEF q
  <2> QED
    BY <2>2, <2>3, <2>4, AdmitKeeps
<1>3. ASSUME NEW n \in Names, Cat!DeleteAlias(r, n) PROVE CatalogInv'
  <2> DEFINE q == [Cat!Idle EXCEPT !.op = "delete", !.name = n]
  <2>1. q \in Cat!RequestType /\ q.op = "delete"
    BY <1>3 DEF Cat!RequestType
  <2>2. Cat!Admit(r, q)
    BY <1>3 DEF Cat!DeleteAlias
  <2> HIDE DEF q
  <2> QED
    BY <2>1, <2>2, AdmitKeeps
<1>4. ASSUME NEW v \in 1..MaxVersions, Cat!ArchiveVersion(r, v) PROVE CatalogInv'
  <2> DEFINE q == [Cat!Idle EXCEPT !.op = "archive", !.version = v]
  <2>1. v \in 0..MaxVersions
    OBVIOUS
  <2>2. q \in Cat!RequestType
    BY <2>1 DEF Cat!RequestType
  <2>3. q.op = "archive" /\ q.version = v
    BY <2>1 DEF Cat!RequestType
  <2>4. Cat!Admit(r, q) /\ v \in DOMAIN version /\ Cat!Unaliased(v)
    BY <1>4 DEF Cat!ArchiveVersion, Cat!Versions
  <2> HIDE DEF q
  <2> QED
    BY <2>2, <2>3, <2>4, AdmitKeeps
<1>5. CASE Cat!ArchiveArtifact(r)
  <2>1. [Cat!Idle EXCEPT !.op = "archiveArtifact"] \in Cat!RequestType
    BY DEF Cat!RequestType
  <2>2. [Cat!Idle EXCEPT !.op = "archiveArtifact"].op = "archiveArtifact"
    BY DEF Cat!RequestType
  <2> QED
    BY <1>5, <2>1, <2>2, AdmitKeeps DEF Cat!ArchiveArtifact
<1>6. CASE Cat!ListArtifacts(r)
  <2> DEFINE q == [Cat!Idle EXCEPT !.op = "versions", !.kind = artifact.kind]
  <2>1. q \in Cat!RequestType /\ q.op = "versions"
    BY DEF Cat!RequestType, CatalogInv, CatalogTypes, Cat!TypeOK, Cat!ArtifactType
  <2>2. Cat!Admit(r, q)
    BY <1>6 DEF Cat!ListArtifacts
  <2> HIDE DEF q
  <2> QED
    BY <2>1, <2>2, AdmitKeeps
<1> QED
  BY <1>1, <1>2, <1>3, <1>4, <1>5, <1>6 DEF Cat!Begin

LEMMA ArchivedIsTyped ==
    ASSUME NEW v \in [archived : BOOLEAN]
    PROVE  [v EXCEPT !.archived = TRUE] \in [archived : BOOLEAN]
BY Zenon

LEMMA ArchivedIsArchived ==
    ASSUME NEW v \in [archived : BOOLEAN] PROVE [v EXCEPT !.archived = TRUE].archived
BY SMT

LEMMA AliasGone ==
    ASSUME NEW n, NEW a \in [Names -> 0..MaxVersions]
    PROVE  /\ [a EXCEPT ![n] = 0] \in [Names -> 0..MaxVersions]
           /\ \A m \in Names : [a EXCEPT ![n] = 0][m] \in {a[m], 0}
<1>1. 0 \in 0..MaxVersions
  BY CatalogConstants
<1> QED
  BY <1>1

\* The end of a request changes nothing for the listings under way: versions stay, and
\* stay archived.
LEMMA FinishKeepsListings ==
    ASSUME CatalogInv, NEW r \in Editors, Cat!Finished(r), version' \in Seq([archived : BOOLEAN]),
           Len(version) <= Len(version'), raced \subseteq raced',
           \A v \in DOMAIN version : version[v].archived => version'[v].archived
    PROVE  /\ ListingIsRaced'
           /\ edit' \in [Editors -> Cat!RequestType]
           /\ \A s \in Editors : s # r => edit'[s] = edit[s]
           /\ edit'[r].op = "none"
<1> USE IdleIsTyped DEF CatalogInv, CatalogTypes, Cat!TypeOK, Cat!Finished
<1>1. /\ edit' \in [Editors -> Cat!RequestType]
      /\ \A s \in Editors : s # r => edit'[s] = edit[s]
      /\ edit'[r].op = "none"
  OBVIOUS
<1>2. ASSUME NEW s \in Editors, edit'[s].op = "aliases"
      PROVE  /\ edit'[s].upto <= Len(version')
             /\ \A v \in 1..edit'[s].upto : v \in edit'[s].read \/ version'[v].archived
  <2>1. edit'[s] = edit[s] /\ edit[s].upto \in Nat /\ edit[s].upto <= Len(version)
    BY <1>1, <1>2, CatalogConstants DEF ListingIsRaced, Cat!RequestType
  <2>2. ASSUME NEW v \in 1..edit'[s].upto PROVE v \in edit'[s].read \/ version'[v].archived
    BY <1>2, <2>1, <2>2 DEF ListingIsRaced
  <2> QED
    BY <2>1, <2>2
<1>3. ASSUME NEW s \in Editors, edit'[s].op = "listed", NEW v \in Cat!Unresolved(edit'[s])
      PROVE  v \in raced' \/ v > edit'[s].upto
  BY <1>1, <1>3 DEF ListingIsRaced
<1> QED
  BY <1>1, <1>2, <1>3 DEF ListingIsRaced

LEMMA CommitKeeps == ASSUME CatalogInv, NEW r \in Editors, Cat!Commit(r) PROVE CatalogInv'
<1> USE DEF CatalogInv, CatalogTypes, Cat!TypeOK, Cat!Versions
<1>1. CASE Cat!CommitCreate(r) \/ Cat!CommitUpdate(r) \/ Cat!CommitArchiveArtifact(r)
  <2>1. UNCHANGED <<version, alias, raced>> /\ Cat!Finished(r)
    BY <1>1 DEF Cat!CommitCreate, Cat!CommitUpdate, Cat!CommitArchiveArtifact
  <2>2. /\ ListingIsRaced' /\ edit' \in [Editors -> Cat!RequestType]
        /\ \A s \in Editors : s # r => edit'[s] = edit[s]
        /\ edit'[r].op = "none"
    BY <2>1, FinishKeepsListings
  <2>3. CASE Cat!CommitCreate(r)
    <3>1. edit[r].kind \in {"none", "model", "generic"}
      BY DEF Cat!RequestType, Cat!None
    <3>2. artifact' \in Cat!ArtifactType
      BY <2>3, <3>1 DEF Cat!CommitCreate, Cat!ArtifactType, Cat!None
    <3> QED
      BY <2>1, <2>2, <3>2 DEF AliasIsRaced, SetIsRaced, ArchiveIsRaced
  <2>4. CASE Cat!CommitUpdate(r)
    <3>1. edit[r].kind \in {"none", "model", "generic"}
      BY DEF Cat!RequestType, Cat!None
    <3>2. artifact' \in Cat!ArtifactType
      BY <2>4, <3>1 DEF Cat!CommitUpdate, Cat!ArtifactType, Cat!None
    <3> QED
      BY <2>1, <2>2, <3>2 DEF AliasIsRaced, SetIsRaced, ArchiveIsRaced
  <2>5. CASE Cat!CommitArchiveArtifact(r)
    <3>1. artifact' \in Cat!ArtifactType
      BY <2>5 DEF Cat!CommitArchiveArtifact, Cat!ArtifactType
    <3> QED
      BY <2>1, <2>2, <3>1 DEF AliasIsRaced, SetIsRaced, ArchiveIsRaced
  <2> QED
    BY <1>1, <2>3, <2>4, <2>5
<1>2. CASE Cat!CommitAlias(r)
  <2> DEFINE v == edit[r].version
  <2>1. /\ UNCHANGED <<artifact, version>> /\ Cat!Finished(r)
        /\ raced \subseteq raced' /\ raced' \subseteq raced \cup {v}
        /\ v \in DOMAIN version /\ (version[v].archived => v \in raced)
        /\ Cat!Pending("archive", v) => v \in raced'
    BY <1>2 DEF Cat!CommitAlias, SetIsRaced
  <2>2. /\ ListingIsRaced' /\ edit' \in [Editors -> Cat!RequestType]
        /\ \A s \in Editors : s # r => edit'[s] = edit[s]
        /\ edit'[r].op = "none"
    BY <2>1, FinishKeepsListings
  <2>3. v \in 0..MaxVersions /\ edit[r].name \in Names \cup {"none"}
    BY DEF Cat!RequestType, Cat!None
  <2>4. /\ alias' \in [Names -> 0..MaxVersions]
        /\ \A n \in Names : alias'[n] \in {alias[n], v}
    BY <1>2, <2>3 DEF Cat!CommitAlias, Cat!Written, Cat!AliasType
  <2> HIDE DEF v
  <2>5. CatalogTypes'
    BY <2>1, <2>2, <2>4 DEF Cat!AliasType
  <2>6. AliasIsRaced'
    BY <2>1, <2>4 DEF AliasIsRaced
  <2>7. SetIsRaced'
    BY <2>1, <2>2 DEF SetIsRaced
  <2>8. ASSUME NEW s \in Editors, edit'[s].op = "archive", NEW n \in Names,
               alias'[n] = edit'[s].version
        PROVE  edit'[s].version \in raced'
    <3>1. s # r /\ edit'[s] = edit[s]
      BY <2>2, <2>8
    <3>2. CASE alias'[n] = alias[n]
      BY <2>1, <2>8, <3>1, <3>2 DEF ArchiveIsRaced
    <3>3. CASE alias'[n] = v
      BY <2>1, <2>8, <3>1, <3>3 DEF Cat!Pending
    <3> QED
      BY <2>4, <3>2, <3>3
  <2>9. ArchiveIsRaced'
    BY <2>1, <2>2, <2>8 DEF ArchiveIsRaced
  <2> QED
    BY <2>2, <2>5, <2>6, <2>7, <2>9
<1>3. CASE Cat!CommitDelete(r)
  <2>1. UNCHANGED <<artifact, version, raced>> /\ Cat!Finished(r)
    BY <1>3 DEF Cat!CommitDelete
  <2>2. /\ ListingIsRaced' /\ edit' \in [Editors -> Cat!RequestType]
        /\ \A s \in Editors : s # r => edit'[s] = edit[s]
        /\ edit'[r].op = "none"
    BY <2>1, FinishKeepsListings
  <2>3. /\ alias' \in [Names -> 0..MaxVersions]
        /\ \A n \in Names : alias'[n] \in {alias[n], 0}
    BY <1>3, AliasGone DEF Cat!CommitDelete, Cat!AliasType
  <2>4. 0 \notin DOMAIN version
    OBVIOUS
  <2> QED
    BY <2>1, <2>2, <2>3, <2>4 DEF Cat!AliasType, AliasIsRaced, SetIsRaced, ArchiveIsRaced
<1>4. CASE Cat!CommitArchiveVersion(r)
  <2> DEFINE v == edit[r].version
  <2>1. /\ UNCHANGED <<artifact, alias>> /\ Cat!Finished(r)
        /\ raced \subseteq raced' /\ raced' \subseteq raced \cup {v}
        /\ v \in DOMAIN version /\ (\A n \in Names : alias[n] = v => v \in raced)
        /\ Cat!Pending("set", v) => v \in raced'
    BY <1>4 DEF Cat!CommitArchiveVersion, ArchiveIsRaced
  <2>2. /\ version' \in Seq([archived : BOOLEAN]) /\ Len(version') = Len(version)
        /\ DOMAIN version' = DOMAIN version
        /\ version'[v].archived /\ \A w \in DOMAIN version : w # v => version'[w] = version[w]
    <3> DEFINE row == [version[v] EXCEPT !.archived = TRUE]
    <3>1. version[v] \in [archived : BOOLEAN]
      BY <2>1, SeqElement
    <3>2. row \in [archived : BOOLEAN] /\ row.archived
      BY <3>1, ArchivedIsTyped, ArchivedIsArchived
    <3>3. version' = [version EXCEPT ![v] = row]
      BY <1>4 DEF Cat!CommitArchiveVersion
    <3> HIDE DEF row
    <3> QED
      BY <2>1, <3>2, <3>3
  <2>3. \A w \in DOMAIN version : version[w].archived => version'[w].archived
    BY <2>2
  <2>4. /\ ListingIsRaced' /\ edit' \in [Editors -> Cat!RequestType]
        /\ \A s \in Editors : s # r => edit'[s] = edit[s]
        /\ edit'[r].op = "none"
    BY <2>1, <2>2, <2>3, FinishKeepsListings
  <2> HIDE DEF v
  <2>5. CatalogTypes'
    <3>1. ASSUME NEW w \in DOMAIN version' PROVE version'[w].archived \in BOOLEAN
      <4>1. version'[w] \in [archived : BOOLEAN]
        BY <2>2, <3>1, SeqElement
      <4> QED
        BY <4>1
    <3> QED
      BY <2>1, <2>2, <2>4, <3>1
  <2>6. AliasIsRaced'
    BY <2>1, <2>2 DEF AliasIsRaced
  <2>7. ASSUME NEW s \in Editors, edit'[s].op = "set"
        PROVE  /\ edit'[s].version \in DOMAIN version'
               /\ version'[edit'[s].version].archived => edit'[s].version \in raced'
    <3>1. s # r /\ edit'[s] = edit[s]
      BY <2>4, <2>7
    <3>2. CASE edit[s].version = v
      BY <2>1, <2>2, <2>7, <3>1, <3>2 DEF Cat!Pending
    <3>3. CASE edit[s].version # v
      BY <2>1, <2>2, <2>7, <3>1, <3>3 DEF SetIsRaced
    <3> QED
      BY <3>2, <3>3
  <2>8. SetIsRaced'
    BY <2>7 DEF SetIsRaced
  <2>9. ArchiveIsRaced'
    BY <2>1, <2>2, <2>4 DEF ArchiveIsRaced
  <2> QED
    BY <2>4, <2>5, <2>6, <2>8, <2>9
<1> QED
  BY <1>1, <1>2, <1>3, <1>4 DEF Cat!Commit

\* A listing's next steps set its fields one by one.
LEMMA SetOp ==
    ASSUME NEW q \in Cat!RequestType, NEW o \in {"aliases", "listed"}
    PROVE  [q EXCEPT !.op = o] \in Cat!RequestType
BY DEF Cat!RequestType
LEMMA SetRead ==
    ASSUME NEW q \in Cat!RequestType, NEW R \in SUBSET (1..MaxVersions)
    PROVE  [q EXCEPT !.read = R] \in Cat!RequestType
BY DEF Cat!RequestType
LEMMA SetUpto ==
    ASSUME NEW q \in Cat!RequestType, NEW u \in 0..MaxVersions
    PROVE  [q EXCEPT !.upto = u] \in Cat!RequestType
BY DEF Cat!RequestType
LEMMA SetAliases ==
    ASSUME NEW q \in Cat!RequestType, NEW m \in Cat!AliasType
    PROVE  [q EXCEPT !.aliases = m] \in Cat!RequestType
BY DEF Cat!RequestType

LEMMA VersionsListed ==
    ASSUME NEW q \in Cat!RequestType, NEW R \in SUBSET (1..MaxVersions), NEW u \in 0..MaxVersions
    PROVE  [q EXCEPT !.op = "aliases", !.read = R, !.upto = u] \in Cat!RequestType
BY SetOp, SetRead, SetUpto

LEMMA AliasesListed ==
    ASSUME NEW q \in Cat!RequestType, NEW m \in Cat!AliasType
    PROVE  [q EXCEPT !.op = "listed", !.aliases = m] \in Cat!RequestType
BY SetOp, SetAliases

LEMMA ReadKeeps == ASSUME CatalogInv, NEW r \in Editors, Cat!Read(r) PROVE CatalogInv'
<1> USE DEF CatalogInv, CatalogTypes, Cat!TypeOK, Cat!Versions
<1>1. CASE Cat!ListVersions(r)
  <2>1. /\ UNCHANGED <<artifact, version, alias, raced>>
        /\ edit' = [edit EXCEPT ![r].op = "aliases", ![r].read = Cat!Unarchived,
                                ![r].upto = Len(version)]
    BY <1>1 DEF Cat!ListVersions
  <2>6. Cat!Unarchived \in SUBSET (1..MaxVersions) /\ Len(version) \in 0..MaxVersions
    BY CatalogConstants DEF Cat!Unarchived
  <2>2. edit' \in [Editors -> Cat!RequestType]
    BY <2>1, <2>6, VersionsListed
  <2>3. /\ edit'[r].op = "aliases" /\ edit'[r].read = Cat!Unarchived
        /\ edit'[r].upto = Len(version)
        /\ \A s \in Editors : s # r => edit'[s] = edit[s]
    BY <2>1 DEF Cat!RequestType
  <2>4. \A v \in 1..Len(version) : v \in Cat!Unarchived \/ version[v].archived
    BY DEF Cat!Unarchived
  <2>5. ListingIsRaced'
    BY <2>1, <2>3, <2>4 DEF ListingIsRaced, Cat!Unresolved
  <2> QED
    BY <2>1, <2>2, <2>3, <2>5 DEF AliasIsRaced, SetIsRaced, ArchiveIsRaced
<1>2. CASE Cat!ListAliases(r)
  <2>1. /\ UNCHANGED <<artifact, version, alias, raced>> /\ edit[r].op = "aliases"
        /\ edit' = [edit EXCEPT ![r].op = "listed", ![r].aliases = alias]
    BY <1>2 DEF Cat!ListAliases
  <2>2. edit' \in [Editors -> Cat!RequestType]
    BY <2>1, AliasesListed
  <2>3. /\ edit'[r].op = "listed" /\ edit'[r].aliases = alias
        /\ edit'[r].read = edit[r].read /\ edit'[r].upto = edit[r].upto
        /\ \A s \in Editors : s # r => edit'[s] = edit[s]
    BY <2>1 DEF Cat!RequestType
  <2>4. ASSUME NEW v \in Cat!Unresolved(edit'[r]) PROVE v \in raced \/ v > edit[r].upto
    <3>1. PICK n \in Names : v = alias[n]
      BY <2>3, <2>4 DEF Cat!Unresolved
    <3>2. v # 0 /\ v \notin edit[r].read /\ v \in 0..MaxVersions
      BY <2>3, <2>4, <3>1 DEF Cat!Unresolved, Cat!AliasType
    <3>3. edit[r].upto \in Nat /\ edit[r].upto <= Len(version)
      BY <2>1, CatalogConstants DEF Cat!RequestType, ListingIsRaced
    <3>4. CASE v <= edit[r].upto
      <4>1. v \in 1..edit[r].upto /\ v \in DOMAIN version
        BY <3>2, <3>3, <3>4, CatalogConstants
      <4>2. version[v].archived
        BY <2>1, <3>2, <4>1 DEF ListingIsRaced
      <4> QED
        BY <3>1, <4>1, <4>2 DEF AliasIsRaced
    <3> QED
      BY <3>2, <3>3, <3>4, CatalogConstants
  <2>5. ListingIsRaced'
    BY <2>1, <2>3, <2>4 DEF ListingIsRaced
  <2> QED
    BY <2>1, <2>2, <2>3, <2>5 DEF AliasIsRaced, SetIsRaced, ArchiveIsRaced
<1>3. CASE Cat!Answer(r)
  <2>1. UNCHANGED <<artifact, version, alias, raced>> /\ Cat!Finished(r)
    BY <1>3 DEF Cat!Answer
  <2>2. /\ ListingIsRaced' /\ edit' \in [Editors -> Cat!RequestType]
        /\ \A s \in Editors : s # r => edit'[s] = edit[s]
        /\ edit'[r].op = "none"
    BY <2>1, FinishKeepsListings
  <2> QED
    BY <2>1, <2>2 DEF AliasIsRaced, SetIsRaced, ArchiveIsRaced
<1> QED
  BY <1>1, <1>2, <1>3 DEF Cat!Read

LEMMA PublishKeeps == CatalogInv /\ Cat!Publish => CatalogInv'
<1> SUFFICES ASSUME CatalogInv, Cat!Publish PROVE CatalogInv'
  OBVIOUS
<1> USE DEF CatalogInv, CatalogTypes, Cat!TypeOK, Cat!Versions
<1>1. /\ UNCHANGED <<artifact, alias, edit, raced>>
      /\ version' = Append(version, [archived |-> FALSE])
      /\ Len(version) < MaxVersions
  BY DEF Cat!Publish
<1>2. [archived |-> FALSE] \in [archived : BOOLEAN] /\ ~[archived |-> FALSE].archived
  BY Zenon
<1>3. version' \in Seq([archived : BOOLEAN])
  BY <1>1, <1>2, AppendProperties
<1>4. /\ Len(version') = Len(version) + 1
      /\ \A v \in DOMAIN version : v \in DOMAIN version' /\ version'[v] = version[v]
      /\ \A v \in DOMAIN version' : v \in DOMAIN version \/ version'[v] = [archived |-> FALSE]
  BY <1>1, <1>2, AppendProperties
<1>5. CatalogTypes'
  <2>1. ASSUME NEW v \in DOMAIN version' PROVE version'[v].archived \in BOOLEAN
    <3>1. version'[v] \in [archived : BOOLEAN]
      BY <1>3, SeqElement
    <3> QED
      BY <3>1
  <2>2. \A v \in DOMAIN version' : v <= MaxVersions
    BY <1>1, <1>3, <1>4, CatalogConstants
  <2>3. Len(version') <= MaxVersions
    BY <1>1, <1>4, CatalogConstants
  <2> QED
    BY <1>1, <1>3, <1>4, <2>1, <2>2, <2>3
<1>6. AliasIsRaced' /\ SetIsRaced' /\ ArchiveIsRaced'
  BY <1>1, <1>2, <1>4 DEF AliasIsRaced, SetIsRaced, ArchiveIsRaced
<1>7. ListingIsRaced'
  <2>1. ASSUME NEW s \in Editors, edit[s].op = "aliases"
        PROVE  /\ edit[s].upto <= Len(version')
               /\ \A v \in 1..edit[s].upto : v \in edit[s].read \/ version'[v].archived
    <3>1. edit[s].upto \in Nat /\ edit[s].upto <= Len(version)
      BY <2>1, CatalogConstants DEF ListingIsRaced, Cat!RequestType
    <3>2. ASSUME NEW v \in 1..edit[s].upto PROVE v \in edit[s].read \/ version'[v].archived
      <4>1. v \in DOMAIN version
        BY <3>1
      <4> QED
        BY <1>4, <2>1, <4>1 DEF ListingIsRaced
    <3> QED
      BY <1>4, <3>1, <3>2
  <2> QED
    BY <1>1, <2>1 DEF ListingIsRaced
<1> QED
  BY <1>5, <1>6, <1>7

LEMMA CatalogKeeps == CatalogInv /\ [Cat!Next]_(Cat!vars) => CatalogInv'
<1> SUFFICES ASSUME CatalogInv, [Cat!Next]_(Cat!vars) PROVE CatalogInv'
  OBVIOUS
<1>1. ASSUME UNCHANGED Cat!vars PROVE CatalogInv'
  BY <1>1 DEF Cat!vars, CatalogInv, CatalogTypes, Cat!TypeOK, Cat!Versions, AliasIsRaced,
              SetIsRaced, ArchiveIsRaced, ListingIsRaced
<1> QED
  BY <1>1, BeginKeeps, CommitKeeps, ReadKeeps, PublishKeeps DEF Cat!Next

\* Whatever requests overlap, an alias points to an archived version, and a listing misses
\* the version of an alias, only as AliasesResolve allows.
THEOREM CatalogSafety == PartsSpec => []AliasesResolve
<1>1. PartsInit => CatalogInv
  BY CatalogInit DEF PartsInit
<1>2. PartsNext => [Cat!Next]_(Cat!vars)
  BY DEF PartsNext, SnapshotStep, ProgressStep, CatalogStep, SharingStep, MachineStep, StreamStep,
         catalog, Cat!vars
<1>3. UNCHANGED <<part, vars, catalog, sharing, machine, stream>> => UNCHANGED Cat!vars
  BY DEF catalog, Cat!vars
<1>4. CatalogInv => AliasesResolve
  BY DEF CatalogInv, CatalogTypes, AliasesResolve, Cat!AliasesResolve, Cat!Versions,
         Cat!Unarchived, AliasIsRaced, ListingIsRaced
<1> QED
  BY <1>1, <1>2, <1>3, <1>4, CatalogKeeps, PTL DEF PartsSpec

-----------------------------------------------------------------------------
(* Sharing                                                                 *)

\* Nothing is dated later than now.
NothingIsDatedAhead ==
    /\ \A g \in DOMAIN grant : grant[g].effective <= clock
    /\ \A u \in use : u.at <= clock
    /\ consumer.input => consumer.ended <= clock
    /\ \A r \in Sharers : request[r].op # "none" => request[r].at <= clock

Revoking == {r \in Sharers : request[r].op = "revoke"}

\* Every request knows of the revocations that are under way, and they change what is there.
RevocationIsSeen ==
    \A r \in Revoking :
        /\ request[r].grant \in DOMAIN grant
        /\ \A s \in Sharers \ {r} : request[s].op # "none" => request[s].late

\* What is not late is older than the revocations under way.
RevocationIsLater ==
    \A r \in Revoking :
        /\ \A u \in use : ~u.late /\ u.kind # "published" => u.at <= request[r].at
        /\ consumer.input /\ ~consumer.late => consumer.ended <= request[r].at

Recovered(at) == consumer.input /\ consumer.ended <= at
PublishedIsRecovered == \A u \in use : u.kind = "published" => Recovered(u.at)

\* What a request has checked is still so when it commits, unless it is late.
RequestIsCovered ==
    \A r \in Sharers : ~request[r].late =>
        /\ request[r].op \in {"reference", "derivation"} => Sha!Covered(request[r].at)
        /\ request[r].op = "keys" => Sha!Covered(request[r].at) \/ Recovered(request[r].at)
        /\ request[r].op = "finalize" /\ request[r].input => Sha!Covered(request[r].at)

\* Only one request ends the Run.
RunEndsOnce ==
    /\ consumer.input => consumer.state = "ended"
    /\ \A r \in Sharers : request[r].op = "finalize" =>
          /\ consumer.state = "running"
          /\ \A s \in Sharers : request[s].op = "finalize" => s = r

GrantsFit == Len(grant) + Cardinality(Sha!Pending({"grant"})) <= MaxGrants

SharingInv ==
    /\ Sha!UseIsCovered /\ GrantsFit
    /\ NothingIsDatedAhead /\ RevocationIsSeen /\ RevocationIsLater /\ PublishedIsRecovered
    /\ RequestIsCovered /\ RunEndsOnce

LEMMA IdleRequestIsTyped ==
    /\ Sha!Idle \in Sha!RequestType
    /\ Sha!Idle.op = "none" /\ Sha!Idle.late = FALSE /\ Sha!Idle.input = FALSE
<1>1. 0 \in Sha!Times /\ 0 \in 0..MaxGrants
  BY SharingConstants DEF Sha!Times, Sha!Never
<1> QED
  BY <1>1 DEF Sha!Idle, Sha!RequestType, Sha!None

LEMMA SharingInit == Sha!Init => SharingInv
<1> SUFFICES ASSUME Sha!Init PROVE SharingInv
  OBVIOUS
<1> USE SharingConstants, IdleRequestIsTyped DEF Sha!Init
<1>1. /\ 0 \in Sha!Times /\ Sha!Never \in Sha!Times
      /\ grant \in Seq(Sha!GrantType) /\ Len(grant) = 0 /\ DOMAIN grant = {}
  BY DEF Sha!Times, Sha!Never
<1>2. consumer \in Sha!RunType /\ consumer.input = FALSE
  BY <1>1 DEF Sha!RunType
<1>3. Sha!UseIsCovered
  BY <1>1, <1>2 DEF Sha!UseIsCovered, Sha!TypeOK
<1>4. GrantsFit
  <2>1. Sha!Pending({"grant"}) = {}
    BY DEF Sha!Pending
  <2>2. Cardinality(Sha!Pending({"grant"})) = 0
    BY <2>1, FS_EmptySet
  <2> QED
    BY <1>1, <2>2 DEF GrantsFit
<1>5. Revoking = {}
  BY DEF Revoking
<1> QED
  BY <1>1, <1>2, <1>3, <1>4, <1>5
  DEF SharingInv, NothingIsDatedAhead, RevocationIsSeen, RevocationIsLater, PublishedIsRecovered,
      RequestIsCovered, RunEndsOnce

\* What the request that starts is, and what it changes of the others.
LEMMA AdmitIsTyped ==
    ASSUME SharingInv, NEW r \in Sharers, NEW q \in Sha!RequestType, Sha!Admit(r, q)
    PROVE  /\ request' \in [Sharers -> Sha!RequestType]
           /\ request'[r].op = q.op /\ request'[r].at = clock
           /\ request'[r].grant = q.grant /\ request'[r].input = q.input
           /\ ~request'[r].late => Revoking = {}
           /\ \A s \in Sharers \ {r} :
                  /\ request'[s].op = request[s].op /\ request'[s].at = request[s].at
                  /\ request'[s].grant = request[s].grant /\ request'[s].input = request[s].input
                  /\ ~request'[s].late => ~request[s].late /\ (q.op = "revoke" => request[s].op = "none")
           /\ request[r].op = "none"
           /\ UNCHANGED <<grant, use, consumer, clock>>
<1> DEFINE new == [q EXCEPT !.at = clock, !.late = Sha!Pending({"revoke"}) # {}]
<1> DEFINE other(s) == [request[s] EXCEPT !.late = @ \/ (q.op = "revoke" /\ request[s].op # "none")]
<1> USE DEF SharingInv, Sha!UseIsCovered, Sha!TypeOK
<1>1. /\ UNCHANGED <<grant, use, consumer, clock>> /\ request[r] = Sha!Idle
      /\ request' = [s \in Sharers |-> IF s = r THEN new ELSE other(s)]
  BY DEF Sha!Admit, Sha!None
<1>2. clock \in Sha!Times /\ (Sha!Pending({"revoke"}) # {}) \in BOOLEAN
  OBVIOUS
<1>3. new \in Sha!RequestType
  BY <1>2 DEF Sha!RequestType
<1>4. /\ new.op = q.op /\ new.at = clock /\ new.grant = q.grant /\ new.input = q.input
      /\ new.late = (Sha!Pending({"revoke"}) # {})
  BY <1>2 DEF Sha!RequestType
<1>5. ASSUME NEW s \in Sharers
      PROVE  /\ other(s) \in Sha!RequestType
             /\ other(s).op = request[s].op /\ other(s).at = request[s].at
             /\ other(s).grant = request[s].grant /\ other(s).input = request[s].input
             /\ other(s).late = (request[s].late \/ (q.op = "revoke" /\ request[s].op # "none"))
  <2>1. request[s] \in Sha!RequestType
    OBVIOUS
  <2>2. request[s].late \in BOOLEAN
    BY <2>1 DEF Sha!RequestType
  <2> QED
    BY <2>1, <2>2 DEF Sha!RequestType
<1> HIDE DEF new, other
<1>6. request' \in [Sharers -> Sha!RequestType]
  BY <1>1, <1>3, <1>5
<1>7. request'[r] = new /\ \A s \in Sharers \ {r} : request'[s] = other(s)
  BY <1>1
<1>8. ~new.late => Revoking = {}
  BY <1>4 DEF Sha!Pending, Revoking
<1> QED
  BY <1>1, <1>4, <1>5, <1>6, <1>7, <1>8, IdleRequestIsTyped

\* A request whose checks passed keeps the invariant.
LEMMA BeginRequest ==
    ASSUME SharingInv, NEW r \in Sharers, NEW q \in Sha!RequestType, Sha!Admit(r, q),
           q.op = "revoke" => q.grant \in DOMAIN grant,
           q.op \in {"reference", "derivation"} => Sha!Covered(clock),
           q.op = "keys" => Sha!Covered(clock) \/ Recovered(clock),
           q.op = "finalize" => /\ consumer.state = "running" /\ Sha!Pending({"finalize"}) = {}
                                /\ q.input => Sha!Covered(clock),
           q.op = "grant" => Len(grant) + Cardinality(Sha!Pending({"grant"})) < MaxGrants
    PROVE  SharingInv'
<1>1. /\ request' \in [Sharers -> Sha!RequestType]
      /\ request'[r].op = q.op /\ request'[r].at = clock
      /\ request'[r].grant = q.grant /\ request'[r].input = q.input
      /\ ~request'[r].late => Revoking = {}
      /\ \A s \in Sharers \ {r} :
             /\ request'[s].op = request[s].op /\ request'[s].at = request[s].at
             /\ request'[s].grant = request[s].grant /\ request'[s].input = request[s].input
             /\ ~request'[s].late => ~request[s].late /\ (q.op = "revoke" => request[s].op = "none")
      /\ request[r].op = "none"
      /\ UNCHANGED <<grant, use, consumer, clock>>
  BY AdmitIsTyped
<1> USE DEF SharingInv
<1>2. Sha!UseIsCovered'
  BY <1>1 DEF Sha!UseIsCovered, Sha!TypeOK, Sha!Covered, Sha!Grants
<1>3. GrantsFit'
  <2>1. CASE q.op = "grant"
    <3>1. /\ Sha!Pending({"grant"})' = Sha!Pending({"grant"}) \cup {r}
          /\ r \notin Sha!Pending({"grant"})
      BY <1>1, <2>1 DEF Sha!Pending
    <3>2. IsFiniteSet(Sha!Pending({"grant"}))
      BY SharingConstants, FS_Subset DEF Sha!Pending
    <3>3. Cardinality(Sha!Pending({"grant"})') = Cardinality(Sha!Pending({"grant"})) + 1
      BY <3>1, <3>2, FS_AddElement
    <3>4. Cardinality(Sha!Pending({"grant"})) \in Nat /\ Len(grant) \in Nat
      BY <3>2, FS_CardinalityType DEF Sha!UseIsCovered, Sha!TypeOK
    <3> QED
      BY <1>1, <2>1, <3>3, <3>4, SharingConstants DEF GrantsFit
  <2>2. CASE q.op # "grant"
    <3>1. Sha!Pending({"grant"})' = Sha!Pending({"grant"})
      BY <1>1, <2>2 DEF Sha!Pending
    <3> QED
      BY <1>1, <3>1 DEF GrantsFit
  <2> QED
    BY <2>1, <2>2
<1>4. clock \in Nat /\ clock <= clock
  BY SharingConstants DEF Sha!UseIsCovered, Sha!TypeOK, Sha!Times, Sha!Never
<1>5. NothingIsDatedAhead'
  BY <1>1, <1>4 DEF NothingIsDatedAhead
<1>6. RevocationIsSeen'
  <2>1. ASSUME NEW v \in Revoking', NEW s \in Sharers \ {v}, request'[s].op # "none"
        PROVE  request'[s].late
    <3>1. CASE v = r
      BY <1>1, <2>1, <3>1 DEF Revoking
    <3>2. CASE s = r
      BY <1>1, <2>1, <3>2 DEF Revoking
    <3>3. CASE v # r /\ s # r
      BY <1>1, <2>1, <3>3 DEF Revoking, RevocationIsSeen
    <3> QED
      BY <3>1, <3>2, <3>3
  <2>2. ASSUME NEW v \in Revoking' PROVE request'[v].grant \in DOMAIN grant'
    BY <1>1, <2>2 DEF Revoking, RevocationIsSeen
  <2> QED
    BY <2>1, <2>2 DEF RevocationIsSeen
<1>7. RevocationIsLater'
  <2>1. ASSUME NEW v \in Revoking', NEW u \in use, ~u.late, u.kind # "published"
        PROVE  u.at <= request'[v].at
    <3>1. CASE v = r
      <4>1. u.at <= clock
        BY <2>1 DEF NothingIsDatedAhead
      <4> QED
        BY <1>1, <3>1, <4>1
    <3>2. CASE v # r
      BY <1>1, <2>1, <3>2 DEF Revoking, RevocationIsLater
    <3> QED
      BY <3>1, <3>2
  <2>2. ASSUME NEW v \in Revoking', consumer.input, ~consumer.late
        PROVE  consumer.ended <= request'[v].at
    BY <1>1, <2>2 DEF Revoking, RevocationIsLater, NothingIsDatedAhead
  <2> QED
    BY <1>1, <2>1, <2>2 DEF RevocationIsLater
<1>8. PublishedIsRecovered'
  BY <1>1 DEF PublishedIsRecovered, Recovered
<1>9. RequestIsCovered'
  <2>1. ASSUME NEW s \in Sharers, ~request'[s].late
        PROVE  /\ request'[s].op \in {"reference", "derivation"} => Sha!Covered(request'[s].at)
               /\ request'[s].op = "keys" => Sha!Covered(request'[s].at) \/ Recovered(request'[s].at)
               /\ request'[s].op = "finalize" /\ request'[s].input => Sha!Covered(request'[s].at)
    <3>1. CASE s = r
      BY <1>1, <3>1
    <3>2. CASE s # r
      BY <1>1, <2>1, <3>2 DEF RequestIsCovered
    <3> QED
      BY <3>1, <3>2
  <2> QED
    BY <1>1, <2>1 DEF RequestIsCovered, Sha!Covered, Sha!Grants, Recovered
<1>10. RunEndsOnce'
  BY <1>1 DEF RunEndsOnce, Sha!Pending
<1> QED
  BY <1>2, <1>3, <1>5, <1>6, <1>7, <1>8, <1>9, <1>10

\* Sharing counts with the Cardinality of its own instance of FiniteSets.
LEMMA SameCardinality == ASSUME NEW S PROVE Sha!Cardinality(S) = Cardinality(S)
BY Zenon DEF Sha!Cardinality, Cardinality

\* A grant that permits a use at some time, or that is active, covers it.
LEMMA PermittedIsCovered ==
    ASSUME SharingInv
    PROVE  /\ \A g \in DOMAIN grant : Sha!Permits(g, clock) \/ Sha!Active(g) => Sha!Covered(clock)
           /\ Sha!Recoverable => Recovered(clock)
           /\ Sha!Available(clock) => Sha!Covered(clock)
<1> USE SharingConstants
    DEF SharingInv, Sha!UseIsCovered, Sha!TypeOK, Sha!Times, Sha!Never, Sha!Grants
<1>1. ASSUME NEW g \in DOMAIN grant, Sha!Permits(g, clock) \/ Sha!Active(g)
      PROVE  Sha!Covered(clock)
  <2>1. grant[g].effective \in Nat /\ grant[g].revoked \in Nat /\ grant[g].effective <= clock
    <3>1. grant[g] \in Sha!GrantType
      BY SeqElement
    <3>2. grant[g].effective \in Nat /\ grant[g].revoked \in Nat
      BY <3>1 DEF Sha!GrantType
    <3> QED
      BY <3>2 DEF NothingIsDatedAhead
  <2>2. clock <= grant[g].revoked
    BY <1>1, <2>1 DEF Sha!Permits, Sha!Active
  <2> QED
    BY <2>1, <2>2 DEF Sha!Covered
<1>2. Sha!Available(clock) => Sha!Covered(clock)
  BY <1>1 DEF Sha!Available
<1>3. Sha!Recoverable => Recovered(clock)
  BY DEF Sha!Recoverable, Recovered, NothingIsDatedAhead
<1> QED
  BY <1>1, <1>2, <1>3

LEMMA BeginSharing == ASSUME SharingInv, NEW r \in Sharers, Sha!Begin(r) PROVE SharingInv'
<1> USE IdleRequestIsTyped, SharingConstants
<1>1. CASE Sha!Grant(r)
  <2> DEFINE q == [Sha!Idle EXCEPT !.op = "grant"]
  <2>1. q \in Sha!RequestType /\ q.op = "grant"
    BY DEF Sha!RequestType
  <2>2. Sha!Admit(r, q)
    BY <1>1 DEF Sha!Grant
  <2>3. Len(grant) + Cardinality(Sha!Pending({"grant"})) < MaxGrants
    BY <1>1, SameCardinality DEF Sha!Grant
  <2> HIDE DEF q
  <2> QED
    BY <2>1, <2>2, <2>3, BeginRequest
<1>2. ASSUME NEW g \in 1..MaxGrants, Sha!Revoke(r, g) PROVE SharingInv'
  <2> DEFINE q == [Sha!Idle EXCEPT !.op = "revoke", !.grant = g]
  <2>1. g \in 0..MaxGrants
    OBVIOUS
  <2>2. q \in Sha!RequestType
    BY <2>1 DEF Sha!RequestType
  <2>3. q.op = "revoke" /\ q.grant = g
    BY <2>1 DEF Sha!RequestType
  <2>4. Sha!Admit(r, q) /\ g \in DOMAIN grant
    BY <1>2 DEF Sha!Revoke, Sha!Grants
  <2> HIDE DEF q
  <2> QED
    BY <2>2, <2>3, <2>4, BeginRequest
<1>3. ASSUME NEW kind \in Sha!Uses, Sha!StartUse(r, kind),
             Sha!Covered(clock) \/ (kind = "keys" /\ Recovered(clock))
      PROVE  SharingInv'
  <2> DEFINE q == [Sha!Idle EXCEPT !.op = kind]
  <2>1. q \in Sha!RequestType /\ q.op = kind
    BY DEF Sha!RequestType, Sha!Uses
  <2>2. Sha!Admit(r, q)
    BY <1>3 DEF Sha!StartUse
  <2> HIDE DEF q
  <2> QED
    BY <1>3, <2>1, <2>2, BeginRequest DEF Sha!Uses
<1>4. CASE Sha!Reference(r)
  BY <1>3, <1>4, PermittedIsCovered DEF Sha!Reference, Sha!Newest, Sha!Grants, Sha!Uses
<1>5. CASE Sha!Derive(r)
  BY <1>3, <1>5, PermittedIsCovered DEF Sha!Derive, Sha!Accessible, Sha!Grants, Sha!Uses
<1>6. ASSUME NEW b \in BOOLEAN, Sha!IssueKeys(r, b) PROVE SharingInv'
  BY <1>3, <1>6, PermittedIsCovered DEF Sha!IssueKeys, Sha!SharedKeys, Sha!Grants, Sha!Uses
<1>7. ASSUME NEW b \in BOOLEAN, Sha!Finalize(r, b) PROVE SharingInv'
  <2> DEFINE q == [Sha!Idle EXCEPT !.op = "finalize", !.input = b]
  <2>1. q \in Sha!RequestType
    BY DEF Sha!RequestType
  <2>2. q.op = "finalize" /\ q.input = b
    BY DEF Sha!RequestType
  <2>3. /\ Sha!Admit(r, q) /\ consumer.state = "running" /\ Sha!Pending({"finalize"}) = {}
        /\ b => Sha!Available(clock)
    BY <1>7 DEF Sha!Finalize
  <2> HIDE DEF q
  <2> QED
    BY <2>1, <2>2, <2>3, BeginRequest, PermittedIsCovered
<1> QED
  BY <1>1, <1>2, <1>4, <1>5, <1>6, <1>7, Sha!Begin(r) DEF Sha!Begin

\* What the end of a request leaves of the others, and what it does when nothing else changes.
LEMMA FinishIsTyped ==
    ASSUME SharingInv, NEW r \in Sharers, Sha!Finished(r)
    PROVE  /\ request' \in [Sharers -> Sha!RequestType]
           /\ request'[r].op = "none" /\ ~request'[r].late
           /\ \A s \in Sharers \ {r} : request'[s] = request[s]
           /\ Revoking' = Revoking \ {r}
           /\ Sha!Pending({"grant"})' = Sha!Pending({"grant"}) \ {r}
           /\ IsFiniteSet(Sha!Pending({"grant"}))
           /\ Cardinality(Sha!Pending({"grant"})') =
                 IF request[r].op = "grant" THEN Cardinality(Sha!Pending({"grant"})) - 1
                 ELSE Cardinality(Sha!Pending({"grant"}))
<1> USE IdleRequestIsTyped
<1>1. /\ request' \in [Sharers -> Sha!RequestType]
      /\ request'[r].op = "none" /\ ~request'[r].late
      /\ \A s \in Sharers \ {r} : request'[s] = request[s]
  BY DEF Sha!Finished, SharingInv, Sha!UseIsCovered, Sha!TypeOK
<1>2. /\ Sha!Pending({"grant"})' = Sha!Pending({"grant"}) \ {r}
      /\ r \in Sha!Pending({"grant"}) <=> request[r].op = "grant"
  BY <1>1 DEF Sha!Pending
<1>3. IsFiniteSet(Sha!Pending({"grant"}))
  BY SharingConstants, FS_Subset DEF Sha!Pending
<1>4. Revoking' = Revoking \ {r}
  BY <1>1 DEF Revoking
<1> QED
  BY <1>1, <1>2, <1>3, <1>4, FS_RemoveElement

\* What the end of a request leaves true when it changes no grant, and the rest as said.
LEMMA FinishKeepsRequests ==
    ASSUME SharingInv, NEW r \in Sharers, Sha!Finished(r), UNCHANGED <<grant, clock>>,
           consumer.input => UNCHANGED consumer
    PROVE  GrantsFit' /\ RevocationIsSeen' /\ RequestIsCovered'
<1>1. /\ request' \in [Sharers -> Sha!RequestType]
      /\ request'[r].op = "none" /\ ~request'[r].late
      /\ \A s \in Sharers \ {r} : request'[s] = request[s]
      /\ Revoking' = Revoking \ {r}
      /\ IsFiniteSet(Sha!Pending({"grant"}))
      /\ Cardinality(Sha!Pending({"grant"})') =
            IF request[r].op = "grant" THEN Cardinality(Sha!Pending({"grant"})) - 1
            ELSE Cardinality(Sha!Pending({"grant"}))
  BY FinishIsTyped
<1> USE DEF SharingInv
<1>2. GrantsFit'
  <2>1. Cardinality(Sha!Pending({"grant"})) \in Nat /\ Len(grant) \in Nat
    BY <1>1, FS_CardinalityType DEF Sha!UseIsCovered, Sha!TypeOK
  <2> QED
    BY <1>1, <2>1, SharingConstants DEF GrantsFit
<1>3. RevocationIsSeen'
  BY <1>1 DEF RevocationIsSeen, Revoking
<1>4. ASSUME NEW s \in Sharers, ~request'[s].late
      PROVE  /\ request'[s].op \in {"reference", "derivation"} => Sha!Covered(request'[s].at)
             /\ request'[s].op = "keys" => Sha!Covered(request'[s].at) \/ Recovered(request'[s].at)
             /\ request'[s].op = "finalize" /\ request'[s].input => Sha!Covered(request'[s].at)
  <2>1. CASE s = r
    BY <1>1, <2>1
  <2>2. CASE s # r
    BY <1>1, <1>4, <2>2 DEF RequestIsCovered
  <2> QED
    BY <2>1, <2>2
<1> QED
  BY <1>1, <1>2, <1>3, <1>4 DEF RequestIsCovered, Sha!Covered, Sha!Grants, Recovered

\* A use that is late, or covered, or recovered, may be added.
LEMMA AddUse ==
    ASSUME SharingInv, NEW r \in Sharers, Sha!Finished(r), UNCHANGED <<grant, consumer, clock>>,
           request[r].op \in Sha!Uses, use' \in {use, Sha!Used(r)}
    PROVE  SharingInv'
<1> DEFINE new == [kind |-> request[r].op, at |-> request[r].at, late |-> request[r].late]
<1>1. /\ request' \in [Sharers -> Sha!RequestType]
      /\ request'[r].op = "none"
      /\ \A s \in Sharers \ {r} : request'[s] = request[s]
      /\ Revoking' = Revoking \ {r}
  BY FinishIsTyped
<1>2. GrantsFit' /\ RevocationIsSeen' /\ RequestIsCovered'
  BY FinishKeepsRequests
<1>3. use' \subseteq use \cup {new}
  BY DEF Sha!Used
<1> USE DEF SharingInv, Sha!UseIsCovered, Sha!TypeOK
<1>4. request[r] \in Sha!RequestType /\ new \in Sha!UseType
  BY DEF Sha!Uses, Sha!RequestType, Sha!UseType
<1>5. new.kind \in Sha!Uses /\ new.kind # "published" /\ new.at <= clock
  BY DEF Sha!Uses, NothingIsDatedAhead
<1>6. new.late \/ Sha!Covered(new.at) \/ (new.kind = "keys" /\ Recovered(new.at))
  BY DEF RequestIsCovered, Sha!Uses
<1>7. Revoking # {} => new.late
  BY DEF Revoking, RevocationIsSeen, Sha!Uses
<1> HIDE DEF new
<1>8. Sha!UseIsCovered'
  <2>1. Sha!TypeOK'
    BY <1>1, <1>3, <1>4
  <2>2. ASSUME NEW u \in use'
        PROVE  \/ u.late \/ Sha!Covered(u.at)
               \/ u.kind \in {"keys", "published"} /\ consumer.input /\ consumer.ended <= u.at
    BY <1>3, <1>6, <2>2 DEF Recovered
  <2> QED
    BY <2>1, <2>2 DEF Sha!Covered, Sha!Grants
<1>9. NothingIsDatedAhead'
  BY <1>1, <1>3, <1>5 DEF NothingIsDatedAhead
<1>10. RevocationIsLater'
  BY <1>1, <1>3, <1>7 DEF RevocationIsLater, Revoking
<1>11. PublishedIsRecovered'
  BY <1>3, <1>5 DEF PublishedIsRecovered, Recovered
<1>12. RunEndsOnce'
  BY <1>1 DEF RunEndsOnce
<1> QED
  BY <1>2, <1>8, <1>9, <1>10, <1>11, <1>12

LEMMA AddGrantKeeps == ASSUME SharingInv, NEW r \in Sharers, Sha!AddGrant(r) PROVE SharingInv'
<1> DEFINE new == [effective |-> request[r].at, revoked |-> MaxClock + 1]
<1>1. /\ request' \in [Sharers -> Sha!RequestType]
      /\ request'[r].op = "none" /\ ~request'[r].late
      /\ \A s \in Sharers \ {r} : request'[s] = request[s]
      /\ Revoking' = Revoking \ {r}
      /\ IsFiniteSet(Sha!Pending({"grant"}))
      /\ Cardinality(Sha!Pending({"grant"})') = Cardinality(Sha!Pending({"grant"})) - 1
  BY FinishIsTyped DEF Sha!AddGrant
<1>2. /\ request[r].op = "grant" /\ UNCHANGED <<use, consumer, clock>>
      /\ grant' = Append(grant, new)
  BY DEF Sha!AddGrant, Sha!Never
<1> USE SharingConstants DEF SharingInv, Sha!UseIsCovered, Sha!TypeOK
<1>3. new \in Sha!GrantType /\ new.effective <= clock
  <2>1. request[r].at \in Sha!Times /\ MaxClock + 1 \in Sha!Times
    BY DEF Sha!RequestType, Sha!Times, Sha!Never
  <2> QED
    BY <1>2, <2>1 DEF Sha!GrantType, NothingIsDatedAhead
<1> HIDE DEF new
<1>4. /\ grant' \in Seq(Sha!GrantType) /\ Len(grant') = Len(grant) + 1
      /\ \A g \in DOMAIN grant : g \in DOMAIN grant' /\ grant'[g] = grant[g]
      /\ \A g \in DOMAIN grant' : g \in DOMAIN grant \/ grant'[g] = new
  BY <1>2, <1>3, AppendProperties
<1>5. Cardinality(Sha!Pending({"grant"})) \in Nat /\ Len(grant) \in Nat
  BY <1>1, FS_CardinalityType
<1>6. GrantsFit' /\ Len(grant') <= MaxGrants
  <2>1. r \in Sha!Pending({"grant"})
    BY <1>2 DEF Sha!Pending
  <2>2. Cardinality(Sha!Pending({"grant"})) # 0
    BY <1>1, <2>1, FS_EmptySet
  <2> QED
    BY <1>1, <1>4, <1>5, <2>2 DEF GrantsFit
<1>7. ASSUME NEW at, Sha!Covered(at)
      PROVE  \E g \in DOMAIN grant' : grant'[g].effective <= at /\ at <= grant'[g].revoked
  BY <1>4, <1>7 DEF Sha!Covered, Sha!Grants
<1>8. Sha!UseIsCovered'
  <2>1. Sha!TypeOK'
    BY <1>1, <1>2, <1>4, <1>6
  <2> QED
    BY <1>2, <1>7, <2>1 DEF Sha!Covered, Sha!Grants
<1>9. NothingIsDatedAhead'
  BY <1>1, <1>2, <1>3, <1>4 DEF NothingIsDatedAhead
<1>10. RevocationIsSeen' /\ RevocationIsLater' /\ PublishedIsRecovered' /\ RunEndsOnce'
  <2>1. RevocationIsSeen'
    BY <1>1, <1>4 DEF RevocationIsSeen, Revoking
  <2>2. RevocationIsLater'
    BY <1>1, <1>2 DEF RevocationIsLater, Revoking
  <2>3. PublishedIsRecovered'
    <3>1. ASSUME NEW at, Recovered(at) PROVE Recovered(at)'
      BY <1>2, <1>4, <3>1 DEF Recovered
    <3> QED
      BY <1>2, <3>1 DEF PublishedIsRecovered
  <2>4. RunEndsOnce'
    BY <1>1, <1>2 DEF RunEndsOnce
  <2> QED
    BY <2>1, <2>2, <2>3, <2>4
<1>11. ASSUME NEW s \in Sharers, ~request'[s].late
       PROVE  /\ request'[s].op \in {"reference", "derivation"} => Sha!Covered(request'[s].at)
              /\ request'[s].op = "keys" => Sha!Covered(request'[s].at) \/ Recovered(request'[s].at)
              /\ request'[s].op = "finalize" /\ request'[s].input => Sha!Covered(request'[s].at)
  <2>1. CASE s = r
    BY <1>1, <2>1
  <2>2. CASE s # r
    BY <1>1, <1>11, <2>2 DEF RequestIsCovered
  <2> QED
    BY <2>1, <2>2
<1>12. RequestIsCovered'
  BY <1>2, <1>7, <1>11 DEF RequestIsCovered, Recovered, Sha!Covered, Sha!Grants
<1> QED
  BY <1>6, <1>8, <1>9, <1>10, <1>12

\* A revocation is not dated before anything that is not late.
LEMMA UpdateGrantKeeps == ASSUME SharingInv, NEW r \in Sharers, Sha!UpdateGrant(r) PROVE SharingInv'
<1> DEFINE h == request[r].grant
<1>1. /\ request' \in [Sharers -> Sha!RequestType]
      /\ request'[r].op = "none" /\ ~request'[r].late
      /\ \A s \in Sharers \ {r} : request'[s] = request[s]
      /\ Revoking' = Revoking \ {r}
      /\ IsFiniteSet(Sha!Pending({"grant"}))
      /\ Cardinality(Sha!Pending({"grant"})') = Cardinality(Sha!Pending({"grant"}))
  BY FinishIsTyped DEF Sha!UpdateGrant
<1>2. /\ r \in Revoking /\ UNCHANGED <<use, consumer, clock>>
      /\ grant' = [grant EXCEPT ![h].revoked = request[r].at]
  BY DEF Sha!UpdateGrant, Revoking
<1> USE SharingConstants DEF SharingInv, Sha!UseIsCovered, Sha!TypeOK
<1>3. h \in DOMAIN grant /\ request[r].at \in Sha!Times
  BY <1>2 DEF RevocationIsSeen, Sha!RequestType
<1> HIDE DEF h
<1>4. /\ grant' \in Seq(Sha!GrantType) /\ Len(grant') = Len(grant) /\ DOMAIN grant' = DOMAIN grant
      /\ grant'[h].effective = grant[h].effective /\ grant'[h].revoked = request[r].at
      /\ \A g \in DOMAIN grant : g # h => grant'[g] = grant[g]
  <2> DEFINE row == [grant[h] EXCEPT !.revoked = request[r].at]
  <2>1. grant[h] \in Sha!GrantType
    BY <1>3, SeqElement
  <2>2. row \in Sha!GrantType /\ row.effective = grant[h].effective /\ row.revoked = request[r].at
    BY <1>3, <2>1 DEF Sha!GrantType
  <2>3. grant' = [grant EXCEPT ![h] = row]
    BY <1>2
  <2> HIDE DEF row
  <2> QED
    BY <1>3, <2>2, <2>3
<1>5. ASSUME NEW at, Sha!Covered(at), at <= request[r].at
      PROVE  \E g \in DOMAIN grant' : grant'[g].effective <= at /\ at <= grant'[g].revoked
  BY <1>4, <1>5 DEF Sha!Covered, Sha!Grants
<1>6. Sha!UseIsCovered'
  <2>1. Sha!TypeOK'
    BY <1>1, <1>2, <1>4
  <2>2. ASSUME NEW u \in use'
        PROVE  \/ u.late \/ (Sha!Covered(u.at) /\ u.at <= request[r].at)
               \/ u.kind \in {"keys", "published"} /\ consumer.input /\ consumer.ended <= u.at
    BY <1>2, <2>2 DEF RevocationIsLater, PublishedIsRecovered, Recovered
  <2>3. consumer.input =>
          consumer.late \/ (Sha!Covered(consumer.ended) /\ consumer.ended <= request[r].at)
    BY <1>2 DEF RevocationIsLater
  <2> QED
    BY <1>2, <1>5, <2>1, <2>2, <2>3 DEF Sha!Covered, Sha!Grants
<1>7. GrantsFit'
  BY <1>1, <1>4 DEF GrantsFit
<1>8. NothingIsDatedAhead'
  BY <1>1, <1>2, <1>4 DEF NothingIsDatedAhead
<1>9. RevocationIsSeen' /\ RevocationIsLater' /\ PublishedIsRecovered' /\ RunEndsOnce'
  <2>1. RevocationIsSeen' /\ PublishedIsRecovered'
    BY <1>1, <1>2, <1>4 DEF RevocationIsSeen, Revoking, PublishedIsRecovered, Recovered
  <2>2. RevocationIsLater' /\ RunEndsOnce'
    BY <1>1, <1>2, <1>4 DEF RevocationIsLater, Revoking, RunEndsOnce
  <2> QED
    BY <2>1, <2>2
<1>10. \A s \in Sharers : request'[s].op = "none" \/ request'[s].late
  BY <1>1, <1>2 DEF RevocationIsSeen
<1>11. RequestIsCovered'
  BY <1>10 DEF RequestIsCovered
<1> QED
  BY <1>6, <1>7, <1>8, <1>9, <1>11

LEMMA AddRunInputKeeps == ASSUME SharingInv, NEW r \in Sharers, Sha!AddRunInput(r) PROVE SharingInv'
<1>1. /\ request' \in [Sharers -> Sha!RequestType]
      /\ request'[r].op = "none"
      /\ \A s \in Sharers \ {r} : request'[s] = request[s]
      /\ Revoking' = Revoking \ {r}
  BY FinishIsTyped DEF Sha!AddRunInput
<1>2. /\ request[r].op = "finalize" /\ UNCHANGED <<grant, use, clock>>
      /\ consumer' = [state |-> "ended", ended |-> request[r].at, input |-> request[r].input,
                      late |-> request[r].late]
  BY DEF Sha!AddRunInput
<1> USE SharingConstants DEF SharingInv, Sha!UseIsCovered, Sha!TypeOK
<1>3. consumer.state = "running" /\ ~consumer.input
  BY <1>2 DEF RunEndsOnce, Sha!RunType
<1>4. GrantsFit' /\ RevocationIsSeen' /\ RequestIsCovered'
  BY <1>2, <1>3, FinishKeepsRequests DEF Sha!AddRunInput
<1>5. request[r] \in Sha!RequestType /\ consumer' \in Sha!RunType
  BY <1>2 DEF Sha!RequestType, Sha!RunType
<1>6. /\ consumer'.input = request[r].input /\ consumer'.late = request[r].late
      /\ consumer'.ended = request[r].at /\ consumer'.state = "ended"
  BY <1>2
<1>7. Sha!UseIsCovered'
  <2>1. Sha!TypeOK'
    BY <1>1, <1>2, <1>5
  <2>2. request[r].input => request[r].late \/ Sha!Covered(request[r].at)
    BY <1>2 DEF RequestIsCovered
  <2>3. \A u \in use : u.late \/ Sha!Covered(u.at)
    BY <1>3
  <2> QED
    BY <1>2, <1>6, <2>1, <2>2, <2>3 DEF Sha!Covered, Sha!Grants
<1>8. NothingIsDatedAhead'
  BY <1>1, <1>2, <1>6 DEF NothingIsDatedAhead
<1>9. RevocationIsLater'
  <2>1. Revoking # {} => request[r].late
    BY <1>2 DEF Revoking, RevocationIsSeen
  <2> QED
    BY <1>1, <1>2, <1>6, <2>1 DEF RevocationIsLater, Revoking
<1>10. PublishedIsRecovered'
  BY <1>2, <1>3 DEF PublishedIsRecovered, Recovered
<1>11. RunEndsOnce'
  BY <1>1, <1>2, <1>6 DEF RunEndsOnce
<1> QED
  BY <1>4, <1>7, <1>8, <1>9, <1>10, <1>11

LEMMA SharedPublishKeeps == SharingInv /\ Sha!Publish => SharingInv'
<1> SUFFICES ASSUME SharingInv, Sha!Publish PROVE SharingInv'
  OBVIOUS
<1> DEFINE new == [kind |-> "published", at |-> clock, late |-> consumer.late]
<1>1. /\ UNCHANGED <<grant, consumer, request, clock>> /\ consumer.input
      /\ use' = use \cup {new}
  BY DEF Sha!Publish
<1> USE SharingConstants DEF SharingInv, Sha!UseIsCovered, Sha!TypeOK
<1>2. new \in Sha!UseType /\ clock <= clock
  BY DEF Sha!UseType, Sha!RunType, Sha!Times, Sha!Never
<1>3. new.kind = "published" /\ new.at = clock
  OBVIOUS
<1> HIDE DEF new
<1>4. Recovered(clock)
  BY <1>1 DEF Recovered, NothingIsDatedAhead
<1>5. Sha!UseIsCovered'
  BY <1>1, <1>2, <1>3, <1>4 DEF Sha!Covered, Sha!Grants, Recovered
<1>6. GrantsFit' /\ RequestIsCovered' /\ RunEndsOnce' /\ RevocationIsSeen'
  BY <1>1 DEF GrantsFit, Sha!Pending, RequestIsCovered, Recovered, Sha!Covered, Sha!Grants,
              RunEndsOnce, RevocationIsSeen, Revoking
<1>7. NothingIsDatedAhead' /\ RevocationIsLater' /\ PublishedIsRecovered'
  BY <1>1, <1>2, <1>3, <1>4
  DEF NothingIsDatedAhead, RevocationIsLater, Revoking, PublishedIsRecovered, Recovered
<1> QED
  BY <1>5, <1>6, <1>7

LEMMA SharingRests ==
    SharingInv /\ UNCHANGED <<grant, use, consumer, request>> /\ clock' \in {clock, clock + 1}
        /\ clock' \in Sha!Times
    => SharingInv'
<1> SUFFICES ASSUME SharingInv, UNCHANGED <<grant, use, consumer, request>>,
                    clock' \in {clock, clock + 1}, clock' \in Sha!Times
             PROVE  SharingInv'
  OBVIOUS
<1> USE SharingConstants DEF SharingInv, Sha!UseIsCovered, Sha!TypeOK
<1>1. Sha!UseIsCovered'
  BY DEF Sha!Covered, Sha!Grants
<1>2. NothingIsDatedAhead'
  <2>1. \A g \in DOMAIN grant : grant[g].effective \in Nat
    <3>1. ASSUME NEW g \in DOMAIN grant PROVE grant[g] \in Sha!GrantType
      BY SeqElement
    <3> QED
      BY <3>1 DEF Sha!GrantType, Sha!Times, Sha!Never
  <2>2. /\ \A u \in use : u.at \in Nat
        /\ consumer.ended \in Nat /\ clock \in Nat
        /\ \A r \in Sharers : request[r].at \in Nat
    BY DEF Sha!UseType, Sha!RunType, Sha!RequestType, Sha!Times, Sha!Never
  <2> QED
    BY <2>1, <2>2 DEF NothingIsDatedAhead
<1>3. GrantsFit' /\ RequestIsCovered' /\ RunEndsOnce' /\ RevocationIsSeen'
  BY DEF GrantsFit, Sha!Pending, RequestIsCovered, Recovered, Sha!Covered, Sha!Grants,
         RunEndsOnce, RevocationIsSeen, Revoking
<1>4. RevocationIsLater' /\ PublishedIsRecovered'
  BY DEF RevocationIsLater, Revoking, PublishedIsRecovered, Recovered
<1> QED
  BY <1>1, <1>2, <1>3, <1>4

LEMMA SharingKeeps == SharingInv /\ [Sha!Next]_(Sha!vars) => SharingInv'
<1> SUFFICES ASSUME SharingInv, [Sha!Next]_(Sha!vars) PROVE SharingInv'
  OBVIOUS
<1>1. clock \in Sha!Times
  BY DEF SharingInv, Sha!UseIsCovered, Sha!TypeOK
<1>2. CASE Sha!Tick
  BY <1>1, <1>2, SharingRests, SharingConstants DEF Sha!Tick, Sha!Times, Sha!Never
<1>3. CASE UNCHANGED Sha!vars
  BY <1>1, <1>3, SharingRests DEF Sha!vars
<1>4. ASSUME NEW r \in Sharers, Sha!Commit(r) PROVE SharingInv'
  <2>1. CASE Sha!AddReference(r) \/ Sha!AddDerivation(r) \/ Sha!AssumeRole(r)
    BY <2>1, AddUse DEF Sha!AddReference, Sha!AddDerivation, Sha!AssumeRole, Sha!Uses
  <2> QED
    BY <1>4, <2>1, AddGrantKeeps, UpdateGrantKeeps, AddRunInputKeeps DEF Sha!Commit
<1> QED
  BY <1>2, <1>3, <1>4, BeginSharing, SharedPublishKeeps DEF Sha!Next

\* Revocation is prospective, whatever requests overlap and however many grants there are.
THEOREM SharingSafety == PartsSpec => []UseIsCovered
<1>1. PartsInit => SharingInv
  BY SharingInit DEF PartsInit
<1>2. PartsNext => [Sha!Next]_(Sha!vars)
  BY DEF PartsNext, SnapshotStep, ProgressStep, CatalogStep, SharingStep, MachineStep, StreamStep,
         sharing, Sha!vars
<1>3. UNCHANGED <<part, vars, catalog, sharing, machine, stream>> => UNCHANGED Sha!vars
  BY DEF sharing, Sha!vars
<1>4. SharingInv => UseIsCovered
  BY DEF SharingInv, UseIsCovered
<1> QED
  BY <1>1, <1>2, <1>3, <1>4, SharingKeeps, PTL DEF PartsSpec

-----------------------------------------------------------------------------
(* Tracking                                                                *)

\* The moments of a Run have been.
MomentsPassed == \A r \in Runs : run[r].created <= now /\ run[r].ended <= now

\* A batch that was admitted has a Run, which had not ended when it was admitted.
BatchIsAdmitted ==
    \A b \in Batches : batch[b].pc \in {"commit", "acked"} =>
        /\ batch[b].run \in Runs /\ run[batch[b].run].state # "absent"
        /\ batch[b].at <= now
        /\ run[batch[b].run].state = "ended" => batch[b].at < run[batch[b].run].ended

\* The parameter that it saw is still there, and was no other than its own.
SeenStays ==
    \A b \in Batches : batch[b].pc = "commit" =>
        /\ batch[b].sawValue # None => param[batch[b].run].value = batch[b].sawValue
        /\ batch[b].value = None \/ batch[b].sawValue \in {None, batch[b].value}

\* Rows are from batches that were acknowledged, and of Runs that exist.
RowsAreAcked ==
    /\ \A r \in Runs : param[r].by # None => param[r].by \in Acked
    /\ \A i \in DOMAIN metrics : metrics[i].by \in Acked
    /\ \A r \in Runs : tag[r] # None => r \in Existing

ValuesStay ==
    \A b \in Acked :
        /\ batch[b].value # None => param[batch[b].run].value = batch[b].value
        /\ \E i \in DOMAIN metrics : metrics[i] = [run |-> batch[b].run, by |-> b]

\* A reader goes from table to table; what it has shown by then is acknowledged, and the
\* metrics that it shows include all that it has to.
ReaderIs(t) ==
    /\ t.pc = "runs" =>
          /\ t.bound = None /\ t.tables = 0
          /\ t.first \subseteq Existing
    /\ t.pc = "tables" => t.tables \in 0..2
    /\ t.pc \in {"answer", "done"} => t.tables = 3
    /\ t.pc \in {"runs", "tables", "answer", "done"} =>
          /\ \A b \in t.acked : b \in Acked /\ t.bound \in {None, batch[b].run}
          /\ t.tables = 0 => t.shown["parameters"] = {}
          /\ \A b \in t.shown["parameters"] : b \in Acked /\ t.bound \in {None, batch[b].run}
          /\ t.tables >= 2 => t.acked \cup t.shown["parameters"] \subseteq t.shown["metrics"]
    /\ t.pc \in {"tables", "answer", "done"} =>
          t.first \subseteq t.runs /\ t.runs \subseteq Existing
    /\ t.pc = "broken" => ~ Existing \subseteq t.first
ReaderGoesOn == \A q \in Readers : ReaderIs(reader[q])

\* What a viewer found has been logged; a new one looks for nothing yet.
FoundIsLogged ==
    /\ \A v \in Viewers : viewer[v].pc = "new" => viewer[v].kind = None
    /\ \A v \in Viewers : viewer[v].pc = "found" => Logged # {}
    /\ \A v \in Viewers :
          viewer[v].pc = "done" /\ viewer[v].kind = "points" /\ viewer[v].shown = None => archived
    /\ default => Logged # {}

TrackingInv ==
    /\ TypeOK /\ MomentsPassed /\ BatchIsAdmitted /\ SeenStays /\ RowsAreAcked /\ ValuesStay
    /\ ReaderGoesOn /\ FoundIsLogged

\* The rows of the tables that have a batch.
LEMMA RowsOfTables ==
    /\ Rows("parameters") = {param[r].by : r \in Runs} \ {None}
    /\ Rows("metrics") = {metrics[i].by : i \in DOMAIN metrics}
    /\ Rows("tags") = {}
BY DEF Rows

LEMMA NoBatchIsTyped ==
    /\ NoBatch \in BatchType /\ NoBatch.pc = "new"
    /\ NoReader \in ReaderType
    /\ NoReader.pc = "new" /\ NoReader.bound = None /\ NoReader.tables = 0
    /\ NoReader.shown["parameters"] = {}
    /\ NoViewer \in ViewerType /\ NoViewer.pc = "new" /\ NoViewer.kind = None
<1>1. NoBatch \in BatchType /\ NoBatch.pc = "new"
  BY DEF NoBatch, BatchType
<1>2. NoReader \in ReaderType
  BY DEF NoReader, ReaderType
<1>3. /\ NoReader.pc = "new" /\ NoReader.bound = None /\ NoReader.tables = 0
      /\ NoReader.shown["parameters"] = {}
  BY DEF NoReader
<1>4. NoViewer \in ViewerType /\ NoViewer.pc = "new" /\ NoViewer.kind = None
  BY DEF NoViewer, ViewerType
<1> QED
  BY <1>1, <1>2, <1>3, <1>4

LEMMA TrackingInit == Init => TrackingInv
<1> SUFFICES ASSUME Init PROVE TrackingInv
  OBVIOUS
<1> USE NoBatchIsTyped DEF Init
<1>1. run \in [Runs -> RunType] /\ now \in Nat
  BY DEF RunType
<1>2. param \in [Runs -> ParamType] /\ tag \in [Runs -> Tags \cup {None}]
  BY DEF ParamType, NoParam
<1>3. metrics \in Seq(MetricType) /\ DOMAIN metrics = {}
  OBVIOUS
<1>4. archived \in BOOLEAN /\ default \in BOOLEAN
  BY Zenon
<1>5. TypeOK
  BY <1>1, <1>2, <1>3, <1>4 DEF TypeOK
<1>6. MomentsPassed /\ BatchIsAdmitted /\ SeenStays /\ ReaderGoesOn
  BY DEF MomentsPassed, BatchIsAdmitted, SeenStays, ReaderGoesOn, ReaderIs
<1>7. RowsAreAcked /\ ValuesStay
  BY <1>3 DEF RowsAreAcked, ValuesStay, NoParam, Acked
<1>8. ~default
  BY Zenon
<1>9. FoundIsLogged
  BY <1>8 DEF FoundIsLogged
<1> QED
  BY <1>5, <1>6, <1>7, <1>9 DEF TrackingInv

\* Readers do not mind what is created, acknowledged or ended meanwhile.
LEMMA ReadersRest ==
    ASSUME ReaderGoesOn, UNCHANGED reader, Existing \subseteq Existing', Acked \subseteq Acked',
           \A b \in Acked : batch'[b].run = batch[b].run
    PROVE  ReaderGoesOn'
<1>1. ASSUME NEW q \in Readers
      PROVE  /\ reader[q].pc = "runs" => reader[q].first \subseteq Existing'
             /\ reader[q].pc \in {"runs", "tables", "answer", "done"} =>
                   /\ \A b \in reader[q].acked : b \in Acked' /\ reader[q].bound \in {None, batch'[b].run}
                   /\ \A b \in reader[q].shown["parameters"] :
                         b \in Acked' /\ reader[q].bound \in {None, batch'[b].run}
             /\ reader[q].pc \in {"tables", "answer", "done"} => reader[q].runs \subseteq Existing'
             /\ reader[q].pc = "broken" => ~ Existing' \subseteq reader[q].first
  BY DEF ReaderGoesOn, ReaderIs
<1> QED
  BY <1>1 DEF ReaderGoesOn, ReaderIs

\* Viewers mind only that what was logged stays, and that an archived Experiment does.
LEMMA ViewersRest ==
    ASSUME FoundIsLogged, UNCHANGED <<viewer, default>>, Logged \subseteq Logged',
           archived => archived'
    PROVE  FoundIsLogged'
BY DEF FoundIsLogged

\* A Run that is created or ends, with what its row says then.
BecomesRow(r, q) ==
    /\ q.state # "absent" /\ q.created <= now + 1 /\ q.ended <= now + 1
    /\ q.state = "ended" => q.ended = now + 1
    /\ run[r].state = "absent" \/ q.state = "ended"

LEMMA RunChanges ==
    ASSUME TrackingInv, NEW r \in Runs, NEW q \in RunType, BecomesRow(r, q),
           run' = [run EXCEPT ![r] = q], now' = now + 1,
           UNCHANGED <<logVars, archived, default, batch, reader, viewer>>
    PROVE  TrackingInv'
<1> USE DEF TrackingInv, TypeOK, logVars, BecomesRow
<1>1. TypeOK'
  OBVIOUS
<1>2. /\ run'[r] = q /\ \A s \in Runs \ {r} : run'[s] = run[s]
      /\ \A s \in Runs : run[s].created \in Nat /\ run[s].ended \in Nat
  BY DEF RunType
<1>3. MomentsPassed'
  BY <1>2 DEF MomentsPassed
<1>4. ASSUME NEW b \in Batches, batch[b].pc \in {"commit", "acked"}
      PROVE  /\ batch[b].run \in Runs /\ run'[batch[b].run].state # "absent"
             /\ batch[b].at <= now'
             /\ run'[batch[b].run].state = "ended" => batch[b].at < run'[batch[b].run].ended
  <2>1. batch[b].at \in Nat
    BY DEF BatchType
  <2>2. CASE batch[b].run = r
    BY <1>2, <1>4, <2>1, <2>2 DEF BatchIsAdmitted
  <2>3. CASE batch[b].run # r
    BY <1>2, <1>4, <2>1, <2>3 DEF BatchIsAdmitted
  <2> QED
    BY <2>2, <2>3
<1>5. BatchIsAdmitted'
  BY <1>4 DEF BatchIsAdmitted
<1>6. Existing \subseteq Existing' /\ Acked' = Acked /\ Logged' = Logged
  BY <1>2 DEF Existing, Acked, Logged
<1>7. SeenStays' /\ ValuesStay'
  BY <1>6 DEF SeenStays, ValuesStay
<1>8. RowsAreAcked'
  BY <1>6 DEF RowsAreAcked
<1>9. ReaderGoesOn' /\ FoundIsLogged'
  BY <1>6, ReadersRest, ViewersRest
<1> QED
  BY <1>1, <1>3, <1>5, <1>7, <1>8, <1>9

LEMMA EndedRow ==
    ASSUME NEW q \in RunType, NEW n \in Nat
    PROVE  [q EXCEPT !.state = "ended", !.ended = n + 1] \in RunType
<1>1. [q EXCEPT !.state = "ended"] \in RunType
  BY DEF RunType
<1>2. \A p \in RunType : [p EXCEPT !.ended = n + 1] \in RunType
  BY DEF RunType
<1> QED
  BY <1>1, <1>2

LEMMA CreateOrEnd == ASSUME TrackingInv, NEW r \in Runs, Create(r) \/ End(r) PROVE TrackingInv'
<1>1. now \in Nat /\ run[r] \in RunType /\ run[r].created <= now
  BY DEF TrackingInv, TypeOK, MomentsPassed
<1>2. CASE Create(r)
  <2> DEFINE q == [state |-> "running", created |-> now + 1, ended |-> 0]
  <2>1. /\ q \in RunType /\ q.state = "running" /\ q.created = now + 1 /\ q.ended = 0
    BY <1>1 DEF RunType
  <2>2. /\ run' = [run EXCEPT ![r] = q] /\ now' = now + 1 /\ run[r].state = "absent"
        /\ UNCHANGED <<logVars, archived, default, batch, reader, viewer>>
    BY <1>2 DEF Create
  <2>3. BecomesRow(r, q)
    BY <1>1, <2>1, <2>2 DEF BecomesRow
  <2> HIDE DEF q
  <2> QED
    BY <2>1, <2>2, <2>3, RunChanges
<1>3. CASE End(r)
  <2> DEFINE q == [run[r] EXCEPT !.state = "ended", !.ended = now + 1]
  <2>1. q \in RunType
    BY <1>1, EndedRow
  <2>2. q.state = "ended" /\ q.created = run[r].created /\ q.ended = now + 1
    BY <1>1 DEF RunType
  <2>3. run' = [run EXCEPT ![r] = q]
    BY <1>3 DEF End
  <2>4. now' = now + 1 /\ UNCHANGED <<logVars, archived, default, batch, reader, viewer>>
    BY <1>3 DEF End
  <2> HIDE DEF q
  <2>5. BecomesRow(r, q)
    BY <1>1, <2>2 DEF RunType, BecomesRow
  <2> QED
    BY <2>1, <2>3, <2>4, <2>5, RunChanges
<1> QED
  BY <1>2, <1>3

\* A batch that is admitted now.
AdmittedNow(q) ==
    /\ q.run \in Runs /\ run[q.run].state = "running" /\ q.at = now
    /\ q.sawValue # None => param[q.run].value = q.sawValue
    /\ q.value = None \/ q.sawValue \in {None, q.value}

\* A batch that is admitted, refused or broken leaves nothing behind.
LEMMA BatchChanges ==
    ASSUME TrackingInv, NEW b \in Batches, NEW q \in BatchType,
           batch' = [batch EXCEPT ![b] = q], batch[b].pc # "acked", q.pc # "acked",
           q.pc = "commit" => AdmittedNow(q),
           UNCHANGED <<runVars, logVars, default, reader, viewer>>
    PROVE  TrackingInv'
<1> USE DEF TrackingInv, TypeOK, logVars, runVars
<1>1. TypeOK'
  OBVIOUS
<1>2. batch'[b] = q /\ \A c \in Batches \ {b} : batch'[c] = batch[c]
  OBVIOUS
<1>3. Acked' = Acked /\ Existing' = Existing /\ Logged' = Logged
  BY <1>2 DEF Acked, Existing, Logged
<1>4. \A c \in Acked : c # b /\ batch'[c] = batch[c]
  BY <1>2 DEF Acked
<1>5. now <= now
  OBVIOUS
<1>6. BatchIsAdmitted'
  BY <1>2, <1>5 DEF BatchIsAdmitted, AdmittedNow
<1>7. SeenStays'
  BY <1>2 DEF SeenStays, AdmittedNow
<1>8. MomentsPassed' /\ RowsAreAcked' /\ ValuesStay'
  BY <1>3, <1>4 DEF MomentsPassed, RowsAreAcked, ValuesStay
<1>9. ReaderGoesOn' /\ FoundIsLogged'
  BY <1>3, <1>4, ReadersRest, ViewersRest
<1> QED
  BY <1>1, <1>6, <1>7, <1>8, <1>9

LEMMA LostIsTyped ==
    ASSUME NEW o \in {"refused", "broken"}
    PROVE  [NoBatch EXCEPT !.pc = o] \in BatchType /\ [NoBatch EXCEPT !.pc = o].pc = o
BY NoBatchIsTyped DEF BatchType

LEMMA LogBegins ==
    ASSUME TrackingInv, NEW b \in Batches, NEW r \in Runs, NEW v \in Values \cup {None},
           NEW t \in Tags \cup {None}, Begin(b, r, v, t)
    PROVE  TrackingInv'
<1> USE DEF TrackingInv, TypeOK
<1> DEFINE q == [pc |-> "commit", run |-> r, value |-> v, sawValue |-> param[r].value,
                 tag |-> t, sawTag |-> tag[r], at |-> now]
<1> DEFINE refused == [NoBatch EXCEPT !.pc = "refused"]
<1>1. /\ batch[b].pc = "new"
      /\ UNCHANGED <<runVars, logVars, default, reader, viewer>>
  BY DEF Begin
<1>2. CASE Admits(r) /\ (v = None \/ param[r].value \in {None, v})
  <2>1. batch' = [batch EXCEPT ![b] = q]
    BY <1>2 DEF Begin
  <2>2. param[r].value \in Values \cup {None} /\ tag[r] \in Tags \cup {None}
    BY DEF ParamType
  <2>3. q \in BatchType
    BY <2>2 DEF BatchType
  <2>4. AdmittedNow(q)
    BY <1>2 DEF AdmittedNow, Admits
  <2>5. q.pc = "commit"
    OBVIOUS
  <2> HIDE DEF q
  <2> QED
    BY <1>1, <2>1, <2>3, <2>4, <2>5, BatchChanges
<1>3. CASE ~(Admits(r) /\ (v = None \/ param[r].value \in {None, v}))
  <2>1. batch' = [batch EXCEPT ![b] = refused]
    BY <1>3 DEF Begin
  <2>2. refused \in BatchType /\ refused.pc = "refused"
    BY LostIsTyped
  <2> HIDE DEF refused
  <2> QED
    BY <1>1, <2>1, <2>2, BatchChanges
<1> QED
  BY <1>2, <1>3

LEMMA LogBreaks == ASSUME TrackingInv, NEW b \in Batches, Break(b) PROVE TrackingInv'
<1> DEFINE broken == [NoBatch EXCEPT !.pc = "broken"]
<1>1. broken \in BatchType /\ broken.pc = "broken"
  BY LostIsTyped
<1>2. /\ batch[b].pc = "commit" /\ batch' = [batch EXCEPT ![b] = broken]
      /\ UNCHANGED <<runVars, logVars, default, reader, viewer>>
  BY DEF Break
<1> HIDE DEF broken
<1> QED
  BY <1>1, <1>2, BatchChanges

LEMMA AckedIsTyped ==
    ASSUME NEW t \in BatchType, t.run # None
    PROVE  LET q == [NoBatch EXCEPT !.pc = "acked", !.run = t.run, !.value = t.value, !.at = t.at]
           IN  q \in BatchType /\ q.pc = "acked" /\ q.run = t.run /\ q.value = t.value /\ q.at = t.at
<1>1. \A p \in BatchType : [p EXCEPT !.pc = "acked"] \in BatchType
  BY DEF BatchType
<1>2. \A p \in BatchType : [p EXCEPT !.run = t.run] \in BatchType
  BY DEF BatchType
<1>3. \A p \in BatchType : [p EXCEPT !.value = t.value] \in BatchType
  BY DEF BatchType
<1>4. \A p \in BatchType : [p EXCEPT !.at = t.at] \in BatchType
  BY DEF BatchType
<1> DEFINE q == [NoBatch EXCEPT !.pc = "acked", !.run = t.run, !.value = t.value, !.at = t.at]
<1>5. q \in BatchType
  BY <1>1, <1>2, <1>3, <1>4, NoBatchIsTyped
<1>6. q.pc = "acked" /\ q.run = t.run /\ q.value = t.value /\ q.at = t.at
  BY NoBatchIsTyped DEF BatchType
<1> QED
  BY <1>5, <1>6

LEMMA LogCommits == ASSUME TrackingInv, NEW b \in Batches, Commit(b) PROVE TrackingInv'
<1> USE DEF TrackingInv, TypeOK
<1> DEFINE r == batch[b].run
<1> DEFINE t == batch[b]
<1>1. PICK q \in BatchType :
          /\ q.pc = "acked" /\ q.run = t.run /\ q.value = t.value /\ q.at = t.at
          /\ batch' = [batch EXCEPT ![b] = q]
  <2>1. t \in BatchType /\ t.run # None
    BY RunsType DEF Commit, BatchIsAdmitted
  <2> QED
    BY <2>1, AckedIsTyped DEF Commit
<1>2. /\ t.pc = "commit" /\ ~Conflicts(t) /\ UNCHANGED <<run, now, archived, default, reader, viewer>>
      /\ param' = IF t.value # None /\ t.sawValue = None
                  THEN [param EXCEPT ![r] = [value |-> t.value, by |-> b]] ELSE param
      /\ metrics' = Append(metrics, [run |-> r, by |-> b])
      /\ tag' = IF t.tag # None /\ t.tag # t.sawTag THEN [tag EXCEPT ![r] = t.tag] ELSE tag
  BY DEF Commit, runVars
<1>3. /\ r \in Runs /\ run[r].state # "absent" /\ t.at <= now
      /\ run[r].state = "ended" => t.at < run[r].ended
      /\ t.sawValue # None => param[r].value = t.sawValue
      /\ t.value = None \/ t.sawValue \in {None, t.value}
  BY <1>2 DEF BatchIsAdmitted, SeenStays
<1>4. /\ t.value \in Values \cup {None} /\ t.tag \in Tags \cup {None} /\ t.pc # "acked"
  BY <1>2 DEF BatchType
<1>5. t.value # None /\ t.sawValue = None => param[r].value = None
  BY <1>2 DEF Conflicts
<1> HIDE DEF r, t
<1>6. [run |-> r, by |-> b] \in MetricType /\ [value |-> t.value, by |-> b] \in ParamType
  BY <1>3, <1>4 DEF MetricType, ParamType
<1>7. /\ metrics' \in Seq(MetricType)
      /\ \A i \in DOMAIN metrics : i \in DOMAIN metrics' /\ metrics'[i] = metrics[i]
      /\ \A i \in DOMAIN metrics' : i \in DOMAIN metrics \/ metrics'[i] = [run |-> r, by |-> b]
      /\ \E i \in DOMAIN metrics' : metrics'[i] = [run |-> r, by |-> b]
  BY <1>2, <1>6, AppendProperties
<1>8. param' \in [Runs -> ParamType] /\ tag' \in [Runs -> Tags \cup {None}]
  BY <1>2, <1>3, <1>4, <1>6
<1>9. TypeOK'
  BY <1>1, <1>2, <1>7, <1>8
<1>10. batch'[b] = q /\ \A c \in Batches \ {b} : batch'[c] = batch[c]
  BY <1>1
<1>11. Acked' = Acked \cup {b} /\ b \notin Acked
  BY <1>1, <1>4, <1>10 DEF Acked, t
<1>12. \A s \in Runs : /\ param[s].value # None => param'[s] = param[s]
                       /\ param'[s].by \in {param[s].by, b}
                       /\ tag'[s] # None => tag[s] # None \/ s = r
  BY <1>2, <1>3, <1>5
<1>13. t.value # None => param'[r].value = t.value
  BY <1>2, <1>3, <1>5
<1>14. Existing' = Existing /\ r \in Existing
  BY <1>2, <1>3 DEF Existing
<1>15. MomentsPassed'
  BY <1>2 DEF MomentsPassed
<1>16. BatchIsAdmitted'
  BY <1>1, <1>2, <1>3, <1>10 DEF BatchIsAdmitted, r, t
<1>17. SeenStays'
  <2>1. ASSUME NEW c \in Batches, batch'[c].pc = "commit"
        PROVE  /\ batch'[c].sawValue # None => param'[batch'[c].run].value = batch'[c].sawValue
               /\ batch'[c].value = None \/ batch'[c].sawValue \in {None, batch'[c].value}
    <3>1. c # b /\ batch'[c] = batch[c]
      BY <1>1, <1>10, <2>1
    <3>2. batch[c].run \in Runs
      BY <2>1, <3>1 DEF BatchIsAdmitted
    <3> QED
      BY <1>12, <2>1, <3>1, <3>2 DEF SeenStays
  <2> QED
    BY <2>1 DEF SeenStays
<1>18. RowsAreAcked'
  <2>1. ASSUME NEW s \in Runs, param'[s].by # None PROVE param'[s].by \in Acked'
    BY <1>11, <1>12, <2>1 DEF RowsAreAcked
  <2>2. ASSUME NEW i \in DOMAIN metrics' PROVE metrics'[i].by \in Acked'
    BY <1>7, <1>11 DEF RowsAreAcked
  <2>3. ASSUME NEW s \in Runs, tag'[s] # None PROVE s \in Existing'
    BY <1>12, <1>14, <2>3 DEF RowsAreAcked
  <2> QED
    BY <2>1, <2>2, <2>3 DEF RowsAreAcked
<1>19. ValuesStay'
  <2>1. ASSUME NEW c \in Acked'
        PROVE  /\ batch'[c].value # None => param'[batch'[c].run].value = batch'[c].value
               /\ \E i \in DOMAIN metrics' : metrics'[i] = [run |-> batch'[c].run, by |-> c]
    <3>1. CASE c = b
      BY <1>1, <1>7, <1>10, <1>13, <3>1 DEF r, t
    <3>2. CASE c # b
      <4>1. c \in Acked /\ batch'[c] = batch[c] /\ batch[c].run \in Runs
        BY <1>10, <1>11, <3>2 DEF Acked, BatchIsAdmitted
      <4>2. PICK i \in DOMAIN metrics : metrics[i] = [run |-> batch[c].run, by |-> c]
        BY <4>1 DEF ValuesStay
      <4>3. batch[c].value # None => param[batch[c].run].value = batch[c].value
        BY <4>1 DEF ValuesStay
      <4> QED
        BY <1>7, <1>12, <4>1, <4>2, <4>3
    <3> QED
      BY <3>1, <3>2
  <2> QED
    BY <2>1 DEF ValuesStay
<1>20. Logged \subseteq Logged'
  BY <1>7 DEF Logged
<1>21. ReaderGoesOn' /\ FoundIsLogged'
  <2>1. \A c \in Acked : batch'[c].run = batch[c].run
    BY <1>10, <1>11 DEF Acked
  <2>2. ReaderGoesOn'
    BY <1>2, <1>11, <1>14, <2>1, ReadersRest
  <2>3. FoundIsLogged'
    BY <1>2, <1>20, ViewersRest
  <2> QED
    BY <2>2, <2>3
<1> QED
  BY <1>9, <1>15, <1>16, <1>17, <1>18, <1>19, <1>21

\* A reader's step changes the reader alone.
LEMMA ReaderChanges ==
    ASSUME TrackingInv, NEW q \in Readers, NEW t \in ReaderType, ReaderIs(t),
           reader' = [reader EXCEPT ![q] = t],
           UNCHANGED <<runVars, logVars, default, batch, viewer>>
    PROVE  TrackingInv'
<1> USE DEF TrackingInv, TypeOK, logVars, runVars
<1>1. reader' \in [Readers -> ReaderType] /\ reader'[q] = t
  OBVIOUS
<1>2. \A p \in Readers \ {q} : reader'[p] = reader[p]
  OBVIOUS
<1>3. Acked' = Acked /\ Existing' = Existing /\ Logged' = Logged
  BY DEF Acked, Existing, Logged
<1>4. TypeOK' /\ MomentsPassed' /\ BatchIsAdmitted' /\ SeenStays' /\ RowsAreAcked' /\ ValuesStay'
  BY <1>1, <1>3 DEF MomentsPassed, BatchIsAdmitted, SeenStays, RowsAreAcked, ValuesStay
<1>5. FoundIsLogged'
  BY <1>3, ViewersRest
<1>6. ASSUME NEW p \in Readers PROVE ReaderIs(reader'[p])
  <2>1. CASE p = q
    BY <1>1, <2>1
  <2>2. CASE p # q
    BY <1>2, <2>2 DEF ReaderGoesOn
  <2> QED
    BY <2>1, <2>2
<1>7. ReaderGoesOn'
  BY <1>3, <1>6 DEF ReaderGoesOn, ReaderIs
<1> QED
  BY <1>4, <1>5, <1>7

LEMMA ReaderFields ==
    ASSUME NEW t \in ReaderType
    PROVE  /\ \A x \in {"new", "runs", "tables", "answer", "done", "broken"} :
                 [t EXCEPT !.pc = x] \in ReaderType
           /\ \A x \in Runs : [t EXCEPT !.bound = x] \in ReaderType
           /\ \A x \in SUBSET Runs : [t EXCEPT !.first = x] \in ReaderType
           /\ \A x \in SUBSET Runs : [t EXCEPT !.runs = x] \in ReaderType
           /\ \A x \in 0..3 : [t EXCEPT !.tables = x] \in ReaderType
           /\ \A x \in SUBSET Batches : [t EXCEPT !.acked = x] \in ReaderType
BY DEF ReaderType

LEMMA ReadsProject == ASSUME TrackingInv, NEW q \in Readers, ReadProject(q) PROVE TrackingInv'
<1> DEFINE t == [NoReader EXCEPT !.pc = "runs", !.first = Existing, !.acked = Acked]
<1>1. Existing \in SUBSET Runs /\ Acked \in SUBSET Batches
  BY DEF Existing, Acked
<1>2. t \in ReaderType
  BY <1>1, NoBatchIsTyped, ReaderFields
<1>3. /\ t.pc = "runs" /\ t.first = Existing /\ t.acked = Acked /\ t.bound = None /\ t.tables = 0
      /\ t.shown["parameters"] = {}
  BY NoBatchIsTyped DEF ReaderType
<1>4. ReaderIs(t)
  <2> HIDE DEF t
  <2> QED
    BY <1>3 DEF ReaderIs
<1>5. reader' = [reader EXCEPT ![q] = t] /\ UNCHANGED <<runVars, logVars, default, batch, viewer>>
  BY DEF ReadProject
<1> HIDE DEF t
<1> QED
  BY <1>2, <1>4, <1>5, ReaderChanges

LEMMA ReadsRun ==
    ASSUME TrackingInv, NEW q \in Readers, NEW r \in Runs, ReadRun(q, r) PROVE TrackingInv'
<1> DEFINE bs == {b \in Acked : batch[b].run = r}
<1> DEFINE t == [NoReader EXCEPT !.pc = "tables", !.bound = r, !.first = {r}, !.runs = {r},
                                 !.acked = bs]
<1>1. {r} \in SUBSET Runs /\ bs \in SUBSET Batches
  BY DEF Acked
<1>2. t \in ReaderType
  BY <1>1, NoBatchIsTyped, ReaderFields
<1>3. /\ t.pc = "tables" /\ t.bound = r /\ t.first = {r} /\ t.runs = {r} /\ t.acked = bs
      /\ t.tables = 0 /\ t.shown["parameters"] = {}
  BY NoBatchIsTyped DEF ReaderType
<1>4. r \in Existing /\ \A b \in bs : b \in Acked /\ batch[b].run = r
  BY DEF ReadRun
<1>5. ReaderIs(t)
  <2> HIDE DEF t, bs
  <2> QED
    BY <1>3, <1>4 DEF ReaderIs
<1>6. reader' = [reader EXCEPT ![q] = t] /\ UNCHANGED <<runVars, logVars, default, batch, viewer>>
  BY DEF ReadRun
<1> HIDE DEF t
<1> QED
  BY <1>2, <1>5, <1>6, ReaderChanges

LEMMA ReadsRuns == ASSUME TrackingInv, NEW q \in Readers, ReadRuns(q) PROVE TrackingInv'
<1> DEFINE t == [reader[q] EXCEPT !.pc = "tables", !.runs = Existing]
<1>1. Existing \in SUBSET Runs /\ reader[q] \in ReaderType
  BY DEF Existing, TrackingInv, TypeOK
<1>2. t \in ReaderType
  BY <1>1, ReaderFields
<1>3. /\ t.pc = "tables" /\ t.runs = Existing /\ t.bound = reader[q].bound
      /\ t.first = reader[q].first /\ t.tables = reader[q].tables /\ t.acked = reader[q].acked
      /\ t.shown = reader[q].shown
  BY <1>1 DEF ReaderType
<1>4. ReaderIs(reader[q]) /\ reader[q].pc = "runs"
  BY DEF ReadRuns, TrackingInv, ReaderGoesOn
<1>5. ReaderIs(t)
  <2> HIDE DEF t
  <2> QED
    BY <1>3, <1>4 DEF ReaderIs
<1>6. reader' = [reader EXCEPT ![q] = t]
  BY DEF ReadRuns, RunsForProject
<1>7. UNCHANGED <<runVars, logVars, default, batch, viewer>>
  BY DEF ReadRuns
<1> HIDE DEF t
<1> QED
  BY <1>2, <1>5, <1>6, <1>7, ReaderChanges

LEMMA ReaderAnswers == ASSUME TrackingInv, NEW q \in Readers, Answer(q) PROVE TrackingInv'
<1>1. PICK x \in {"done", "broken"} :
          /\ x = IF reader[q].runs \subseteq reader[q].first THEN "done" ELSE "broken"
          /\ reader' = [reader EXCEPT ![q].pc = x]
  BY DEF Answer
<1> DEFINE t == [reader[q] EXCEPT !.pc = x]
<1>2. reader[q] \in ReaderType
  BY DEF TrackingInv, TypeOK
<1>3. t \in ReaderType
  BY <1>2, ReaderFields
<1>4. /\ t.pc = x /\ t.runs = reader[q].runs /\ t.bound = reader[q].bound
      /\ t.first = reader[q].first /\ t.tables = reader[q].tables /\ t.acked = reader[q].acked
      /\ t.shown = reader[q].shown
  BY <1>2 DEF ReaderType
<1>5. ReaderIs(reader[q]) /\ reader[q].pc = "answer"
  BY DEF Answer, TrackingInv, ReaderGoesOn
<1>6. ReaderIs(t)
  <2> HIDE DEF t
  <2> QED
    BY <1>1, <1>4, <1>5 DEF ReaderIs
<1>7. reader' = [reader EXCEPT ![q] = t]
  BY <1>1
<1>8. UNCHANGED <<runVars, logVars, default, batch, viewer>>
  BY DEF Answer
<1> HIDE DEF t
<1> QED
  BY <1>3, <1>6, <1>7, <1>8, ReaderChanges

\* The rows of a table are from acknowledged batches, all of which have metrics.
LEMMA RowsAreKnown ==
    ASSUME TrackingInv
    PROVE  /\ \A table \in {"parameters", "metrics", "tags"} :
                 Rows(table) \subseteq Acked /\ RunsOf(table) \subseteq Existing
           /\ Rows("metrics") = Acked
<1>1. Rows("parameters") \subseteq Acked
  BY RowsOfTables DEF TrackingInv, RowsAreAcked
<1>2. Rows("metrics") \subseteq Acked
  BY RowsOfTables DEF TrackingInv, RowsAreAcked
<1>3. ASSUME NEW b \in Acked PROVE b \in Rows("metrics")
  <2>1. PICK i \in DOMAIN metrics : metrics[i] = [run |-> batch[b].run, by |-> b]
    BY DEF TrackingInv, ValuesStay
  <2> QED
    BY <2>1, RowsOfTables
<1>4. ASSUME NEW b \in Acked PROVE batch[b].run \in Existing
  BY DEF Acked, TrackingInv, BatchIsAdmitted, Existing
<1>5. {r \in Runs : tag[r] # None} \subseteq Existing
  BY DEF TrackingInv, RowsAreAcked
<1> QED
  BY <1>1, <1>2, <1>3, <1>4, <1>5, RowsOfTables DEF RunsOf

\* What a reader is when it has read the rows of a table.
HasRead(t, table, rows, n, x) == [t EXCEPT !.tables = n, !.shown[table] = rows, !.pc = x]

LEMMA TableIsTyped ==
    ASSUME NEW t \in ReaderType, NEW table \in {"parameters", "metrics", "tags"},
           NEW rows \in SUBSET Batches, NEW n \in 0..3, NEW x \in {"answer", "tables"},
           NEW u, u = HasRead(t, table, rows, n, x)
    PROVE  /\ u \in ReaderType
           /\ u.tables = n /\ u.pc = x /\ u.bound = t.bound /\ u.acked = t.acked
           /\ u.first = t.first /\ u.runs = t.runs
           /\ \A y \in {"parameters", "metrics", "tags"} :
                 u.shown[y] = IF y = table THEN rows ELSE t.shown[y]
<1> DEFINE f == [t.shown EXCEPT ![table] = rows]
<1>1. t.shown \in [{"parameters", "metrics", "tags"} -> SUBSET Batches]
  BY DEF ReaderType
<1>2. f \in [{"parameters", "metrics", "tags"} -> SUBSET Batches]
  BY <1>1
<1>3. \A p \in ReaderType : [p EXCEPT !.shown = f] \in ReaderType
  BY <1>2 DEF ReaderType
<1> DEFINE w == [t EXCEPT !.tables = n]
<1>4. w \in ReaderType /\ w.shown = t.shown
  BY DEF ReaderType
<1>5. [w EXCEPT !.shown[table] = rows] = [w EXCEPT !.shown = f]
  BY <1>4
<1>6. u = [[w EXCEPT !.shown = f] EXCEPT !.pc = x]
  BY <1>5 DEF HasRead
<1> DEFINE z == [w EXCEPT !.shown = f]
<1>7. z \in ReaderType
  BY <1>3, <1>4
<1>8. /\ z.tables = n /\ z.bound = t.bound /\ z.acked = t.acked
      /\ z.first = t.first /\ z.runs = t.runs /\ z.shown = f
  BY <1>4 DEF ReaderType
<1> HIDE DEF f, w, z
<1>9. [z EXCEPT !.pc = x] \in ReaderType
  BY <1>7, ReaderFields
<1>10. [z EXCEPT !.pc = x].pc = x /\ [z EXCEPT !.pc = x].tables = z.tables
       /\ [z EXCEPT !.pc = x].bound = z.bound /\ [z EXCEPT !.pc = x].acked = z.acked
       /\ [z EXCEPT !.pc = x].first = z.first /\ [z EXCEPT !.pc = x].runs = z.runs
       /\ [z EXCEPT !.pc = x].shown = z.shown
  BY <1>7 DEF ReaderType
<1>11. u = [z EXCEPT !.pc = x]
  BY <1>6 DEF z, HasRead
<1> QED
  BY <1>1, <1>8, <1>9, <1>10, <1>11 DEF f

LEMMA ReadsTable == ASSUME TrackingInv, NEW q \in Readers, ReadTable(q) PROVE TrackingInv'
<1> DEFINE t == reader[q]
<1> DEFINE table == Tables[t.tables + 1]
<1> DEFINE rows == {b \in Rows(table) : t.bound \in {None, batch[b].run}}
<1>1. /\ t \in ReaderType /\ ReaderIs(t) /\ t.pc = "tables"
      /\ UNCHANGED <<runVars, logVars, default, batch, viewer>>
  BY DEF ReadTable, TrackingInv, TypeOK, ReaderGoesOn
<1>2. t.tables \in 0..2
  BY <1>1 DEF ReaderIs
<1>3. /\ t.tables = 0 => table = "parameters"
      /\ t.tables = 1 => table = "metrics"
      /\ t.tables = 2 => table = "tags"
      /\ table \in {"parameters", "metrics", "tags"}
      /\ Len(Tables) = 3
  BY <1>2 DEF Tables
<1>4. Rows(table) \subseteq Acked /\ RunsOf(table) \subseteq Existing
  BY <1>3, RowsAreKnown
<1>5. /\ rows \in SUBSET Batches
      /\ \A b \in rows : b \in Acked /\ t.bound \in {None, batch[b].run}
  BY <1>4 DEF Acked
<1>6. t.tables = 1 => \A b \in Acked : t.bound \in {None, batch[b].run} => b \in rows
  BY <1>3, RowsAreKnown
<1>7. CASE t.bound = None /\ ~ RunsOf(table) \subseteq t.runs
  <2> DEFINE u == [NoReader EXCEPT !.pc = "broken", !.first = t.first]
  <2>1. t.first \in SUBSET Runs
    BY <1>1 DEF ReaderType
  <2>2. u \in ReaderType
    BY <2>1, NoBatchIsTyped, ReaderFields
  <2>3. u.pc = "broken" /\ u.first = t.first
    BY NoBatchIsTyped DEF ReaderType
  <2>4. ~ Existing \subseteq t.first
    BY <1>1, <1>4, <1>7 DEF ReaderIs
  <2>5. reader' = [reader EXCEPT ![q] = u]
    BY <1>7 DEF ReadTable
  <2> HIDE DEF u
  <2>6. ReaderIs(u)
    BY <2>3, <2>4 DEF ReaderIs
  <2> QED
    BY <1>1, <2>2, <2>5, <2>6, ReaderChanges
<1>8. CASE ~(t.bound = None /\ ~ RunsOf(table) \subseteq t.runs)
  <2>1. PICK x \in {"answer", "tables"} :
            /\ x = IF t.tables + 1 = 3 THEN "answer" ELSE "tables"
            /\ reader' = [reader EXCEPT ![q] =
                   [t EXCEPT !.tables = t.tables + 1, !.shown[table] = rows, !.pc = x]]
    <3>1. reader' = [reader EXCEPT ![q] =
              [t EXCEPT !.tables = t.tables + 1, !.shown[table] = rows,
                        !.pc = IF t.tables + 1 = Len(Tables) THEN "answer" ELSE "tables"]]
      BY <1>8 DEF ReadTable
    <3> HIDE DEF t, table, rows
    <3>2. CASE t.tables + 1 = 3
      BY <1>3, <3>1, <3>2
    <3>3. CASE t.tables + 1 # 3
      BY <1>3, <3>1, <3>3
    <3> QED
      BY <3>2, <3>3
  <2>2. t.tables + 1 \in 0..3
    BY <1>2
  <2> DEFINE u == [t EXCEPT !.tables = t.tables + 1, !.shown[table] = rows, !.pc = x]
  <2>3. /\ u \in ReaderType
        /\ u.tables = t.tables + 1 /\ u.pc = x /\ u.bound = t.bound /\ u.acked = t.acked
        /\ u.first = t.first /\ u.runs = t.runs
        /\ \A y \in {"parameters", "metrics", "tags"} :
              u.shown[y] = IF y = table THEN rows ELSE t.shown[y]
    <3>1. u = HasRead(t, table, rows, t.tables + 1, x)
      BY DEF HasRead
    <3>2. x \in {"answer", "tables"}
      BY <2>1
    <3> HIDE DEF t, table, rows, u
    <3> QED
      BY <1>1, <1>3, <1>5, <2>2, <3>1, <3>2, TableIsTyped
  <2> HIDE DEF t, table, rows, u
  <2>4. ReaderIs(u)
    <3>1. CASE t.tables = 0
      <4>1. table = "parameters" /\ x = "tables" /\ u.tables = 1 /\ u.shown["parameters"] = rows
        BY <1>3, <2>1, <2>3, <3>1
      <4> QED
        BY <1>1, <1>5, <2>3, <4>1 DEF ReaderIs
    <3>2. CASE t.tables = 1
      <4>1. /\ table = "metrics" /\ x = "tables" /\ u.tables = 2
            /\ u.shown["parameters"] = t.shown["parameters"] /\ u.shown["metrics"] = rows
        BY <1>3, <2>1, <2>3, <3>2
      <4>2. t.acked \cup t.shown["parameters"] \subseteq rows
        BY <1>1, <1>6, <3>2 DEF ReaderIs
      <4> QED
        BY <1>1, <2>3, <4>1, <4>2 DEF ReaderIs
    <3>3. CASE t.tables = 2
      <4>1. /\ table = "tags" /\ x = "answer" /\ u.tables = 3
            /\ u.shown["parameters"] = t.shown["parameters"]
            /\ u.shown["metrics"] = t.shown["metrics"]
        BY <1>3, <2>1, <2>3, <3>3
      <4> QED
        BY <1>1, <2>3, <3>3, <4>1 DEF ReaderIs
    <3> QED
      BY <1>2, <3>1, <3>2, <3>3
  <2>5. reader' = [reader EXCEPT ![q] = u]
    BY <2>1 DEF u
  <2> QED
    BY <1>1, <2>3, <2>4, <2>5, ReaderChanges
<1> QED
  BY <1>7, <1>8

-----------------------------------------------------------------------------
(* The metric of the progress view                                         *)

\* Among finitely many moments, one is the last: the moments are at most "now".
LEMMA LastExists ==
    ASSUME NEW S, S # {}, NEW f \in [S -> Nat], NEW n \in Nat, \A s \in S : f[s] <= n
    PROVE  \E s \in S : \A u \in S : f[u] <= f[s]
<1> DEFINE T == {n - f[s] : s \in S}
<1>1. T \subseteq Nat /\ T # {}
  OBVIOUS
<1>2. PICK m \in T : \A k \in T : <<k, m>> \notin OpToRel(<, Nat)
  BY <1>1, NatLessThanWellFounded, WFMin
<1>3. PICK s \in S : m = n - f[s]
  BY <1>2
<1>4. ASSUME NEW u \in S PROVE f[u] <= f[s]
  <2>1. n - f[u] \in T /\ n - f[u] \in Nat /\ m \in Nat
    BY <1>1
  <2>2. <<n - f[u], m>> \notin OpToRel(<, Nat)
    BY <1>2, <2>1
  <2>3. ~(n - f[u] < m)
    BY <2>1, <2>2 DEF OpToRel
  <2> QED
    BY <1>3, <2>1, <2>3
<1> QED
  BY <1>4

\* When something was logged and the Experiment is not archived, there is a point.
LEMMA PointExists ==
    ASSUME TrackingInv
    PROVE  /\ ~archived /\ Logged # {} => Point \in Logged /\ Point # None
           /\ archived \/ Logged = {} => Point = None
<1>1. archived \/ Logged = {} => Point = None
  BY DEF Point
<1>2. ASSUME ~archived, Logged # {} PROVE Point \in Logged /\ Point # None
  <2>1. Logged \subseteq Runs
    <3>1. ASSUME NEW i \in DOMAIN metrics PROVE metrics[i] \in MetricType
      BY SeqElement DEF TrackingInv, TypeOK
    <3>2. ASSUME NEW i \in DOMAIN metrics PROVE metrics[i].run \in Runs
      BY <3>1 DEF MetricType
    <3> QED
      BY <3>2 DEF Logged
  <2>2. \A r \in Runs : run[r] \in RunType /\ run[r].created <= now /\ run[r].ended <= now
    BY DEF TrackingInv, TypeOK, MomentsPassed
  <2>3. now \in Nat /\ \A r \in Runs : /\ run[r].created \in Nat /\ RunAt(r) \in Nat
                                       /\ run[r].created <= now /\ RunAt(r) <= now
    BY <2>2 DEF TrackingInv, TypeOK, RunType, RunAt
  <2> DEFINE f == [r \in Logged |-> RunAt(r)]
  <2>4. f \in [Logged -> Nat] /\ \A r \in Logged : f[r] <= now
    BY <2>1, <2>3
  <2>5. PICK m \in Logged : \A s \in Logged : f[s] <= f[m]
    <3> HIDE DEF f
    <3> QED
      BY <1>2, <2>3, <2>4, LastExists
  <2> DEFINE L == {r \in Logged : RunAt(r) = RunAt(m)}
  <2> DEFINE g == [r \in L |-> run[r].created]
  <2>6. g \in [L -> Nat] /\ L # {} /\ \A r \in L : g[r] <= now
    BY <2>1, <2>3
  <2>7. PICK r \in L : \A s \in L : g[s] <= g[r]
    <3> HIDE DEF g, L
    <3> QED
      BY <2>3, <2>6, LastExists
  <2>8. r \in Logged /\ \A s \in Logged :
            \/ RunAt(s) < RunAt(r)
            \/ RunAt(s) = RunAt(r) /\ run[s].created <= run[r].created
    <3>1. r \in Logged /\ RunAt(r) = RunAt(m)
      OBVIOUS
    <3>2. ASSUME NEW s \in Logged, ~(RunAt(s) < RunAt(r)) PROVE RunAt(s) = RunAt(r)
      BY <2>1, <2>3, <2>5, <3>1, <3>2
    <3>3. ASSUME NEW s \in Logged, RunAt(s) = RunAt(r) PROVE run[s].created <= run[r].created
      BY <2>7, <3>1, <3>3
    <3> QED
      BY <3>1, <3>2, <3>3
  <2>9. Point = CHOOSE p \in Logged : \A s \in Logged :
                    \/ RunAt(s) < RunAt(p)
                    \/ RunAt(s) = RunAt(p) /\ run[s].created <= run[p].created
    BY <1>2 DEF Point
  <2>10. Point \in Logged
    BY <2>8, <2>9, Zenon
  <2> QED
    BY <2>1, <2>10, RunsType
<1> QED
  BY <1>1, <1>2

\* A viewer's step changes the viewer and the default alone.
LEMMA ViewerChanges ==
    ASSUME TrackingInv, NEW v \in Viewers, NEW t \in ViewerType,
           viewer' = [viewer EXCEPT ![v] = t],
           t.pc # "new", t.pc = "found" => Logged # {},
           t.pc = "done" /\ t.kind = "points" /\ t.shown = None => archived,
           default' \in BOOLEAN, default' => Logged # {},
           UNCHANGED <<runVars, logVars, batch, reader>>
    PROVE  TrackingInv'
<1> USE DEF TrackingInv, TypeOK, logVars, runVars
<1>1. viewer' \in [Viewers -> ViewerType] /\ viewer'[v] = t
      /\ \A w \in Viewers \ {v} : viewer'[w] = viewer[w]
  OBVIOUS
<1>2. Acked' = Acked /\ Existing' = Existing /\ Logged' = Logged
  BY DEF Acked, Existing, Logged
<1>3. default' \in BOOLEAN /\ archived' = archived
  BY Zenon
<1>4. TypeOK' /\ MomentsPassed' /\ BatchIsAdmitted' /\ SeenStays' /\ RowsAreAcked' /\ ValuesStay'
  BY <1>1, <1>2, <1>3 DEF MomentsPassed, BatchIsAdmitted, SeenStays, RowsAreAcked, ValuesStay
<1>5. ReaderGoesOn'
  BY <1>2, ReadersRest
<1>6. ASSUME NEW w \in Viewers
      PROVE  /\ viewer'[w].pc = "found" => Logged # {}
             /\ viewer'[w].pc = "new" => viewer'[w].kind = None
             /\ viewer'[w].pc = "done" /\ viewer'[w].kind = "points" /\ viewer'[w].shown = None
                   => archived
  <2>1. CASE w = v
    BY <1>1, <2>1
  <2>2. CASE w # v
    BY <1>1, <2>2 DEF FoundIsLogged
  <2> QED
    BY <2>1, <2>2
<1>7. FoundIsLogged'
  <2>1. default' => Logged' # {}
    BY <1>2, Zenon
  <2> QED
    BY <1>2, <1>3, <1>6, <2>1 DEF FoundIsLogged
<1> QED
  BY <1>4, <1>5, <1>7

LEMMA ViewerFields ==
    ASSUME NEW t \in ViewerType
    PROVE  /\ \A x \in {"new", "found", "done", "refused"} : [t EXCEPT !.pc = x] \in ViewerType
           /\ \A x \in {None, "points", "default"} : [t EXCEPT !.kind = x] \in ViewerType
           /\ \A x \in Runs \cup {None} : [t EXCEPT !.shown = x] \in ViewerType
BY DEF ViewerType

LEMMA DefaultStays ==
    ASSUME TrackingInv, UNCHANGED default PROVE default' \in BOOLEAN /\ (default' => Logged # {})
<1>1. default \in BOOLEAN /\ (default => Logged # {})
  BY DEF TrackingInv, TypeOK, FoundIsLogged
<1> QED
  BY <1>1, Zenon

LEMMA ViewerLooks ==
    ASSUME TrackingInv, NEW v \in Viewers, NEW kind \in {"points", "default"}, Look(v, kind)
    PROVE  TrackingInv'
<1>1. PICK x \in {"found", "refused"} :
          /\ x = IF Available THEN "found" ELSE "refused"
          /\ viewer' = [viewer EXCEPT ![v] = [NoViewer EXCEPT !.pc = x, !.kind = kind]]
  BY DEF Look
<1> DEFINE t == [NoViewer EXCEPT !.pc = x, !.kind = kind]
<1>2. t \in ViewerType
  BY ViewerFields, NoBatchIsTyped
<1>3. t.pc = x
  BY NoBatchIsTyped DEF ViewerType
<1>4. x = "found" => Logged # {}
  BY <1>1, PointExists DEF Available
<1>5. viewer' = [viewer EXCEPT ![v] = t]
  BY <1>1
<1>6. UNCHANGED <<runVars, logVars, default, batch, reader>>
  BY DEF Look
<1> HIDE DEF t
<1> QED
  BY <1>2, <1>3, <1>4, <1>5, <1>6, DefaultStays, ViewerChanges

LEMMA ViewerReads == ASSUME TrackingInv, NEW v \in Viewers, ReadPoints(v) PROVE TrackingInv'
<1> DEFINE t == [viewer[v] EXCEPT !.pc = "done", !.shown = Point]
<1>1. viewer[v] \in ViewerType /\ Logged # {}
  BY DEF ReadPoints, TrackingInv, TypeOK, FoundIsLogged
<1>2. Point \in Runs \cup {None}
  <2>1. ASSUME NEW i \in DOMAIN metrics PROVE metrics[i] \in MetricType
    BY SeqElement DEF TrackingInv, TypeOK
  <2>2. ASSUME NEW i \in DOMAIN metrics PROVE metrics[i].run \in Runs
    BY <2>1 DEF MetricType
  <2>3. Logged \subseteq Runs
    BY <2>2 DEF Logged
  <2> QED
    BY <2>3, PointExists
<1>3. t \in ViewerType
  BY <1>1, <1>2, ViewerFields
<1>4. t.pc = "done" /\ t.shown = Point
  BY <1>1 DEF ViewerType
<1>5. t.shown = None => archived
  BY <1>1, <1>4, PointExists
<1>6. viewer' = [viewer EXCEPT ![v] = t]
  BY DEF ReadPoints
<1>7. UNCHANGED <<runVars, logVars, default, batch, reader>>
  BY DEF ReadPoints
<1> HIDE DEF t
<1> QED
  BY <1>3, <1>4, <1>5, <1>6, <1>7, DefaultStays, ViewerChanges

LEMMA ViewerSets ==
    ASSUME TrackingInv, NEW v \in Viewers, SetDefault(v) \/ ClearDefault(v) PROVE TrackingInv'
<1> DEFINE t == [viewer[v] EXCEPT !.pc = "done"]
<1>1. viewer[v] \in ViewerType
  BY DEF TrackingInv, TypeOK
<1>2. t \in ViewerType
  BY <1>1, ViewerFields
<1>3. t.pc = "done" /\ t.kind = viewer[v].kind
  BY <1>1 DEF ViewerType
<1>4. viewer' = [viewer EXCEPT ![v] = t] /\ UNCHANGED <<runVars, logVars, batch, reader>>
  BY DEF SetDefault, ClearDefault
<1>5. t.kind # "points"
  BY <1>3 DEF SetDefault, ClearDefault, TrackingInv, FoundIsLogged, None
<1>6. default' \in BOOLEAN /\ (default' => SetDefault(v))
  BY Zenon DEF SetDefault, ClearDefault
<1>7. SetDefault(v) => Logged # {}
  BY DEF SetDefault, TrackingInv, FoundIsLogged
<1>8. default' => Logged # {}
  BY <1>6, <1>7, Zenon
<1>9. default' \in BOOLEAN
  BY <1>6, Zenon
<1> HIDE DEF t
<1> QED
  BY <1>2, <1>3, <1>4, <1>5, <1>8, <1>9, ViewerChanges

LEMMA ArchivesExperiment == ASSUME TrackingInv, ArchiveExperiment PROVE TrackingInv'
<1> USE DEF TrackingInv, TypeOK, logVars
<1>1. archived' = TRUE /\ UNCHANGED <<run, now, logVars, default, batch, reader, viewer>>
  BY Zenon DEF ArchiveExperiment
<1>2. Acked' = Acked /\ Existing' = Existing /\ Logged' = Logged
  BY <1>1 DEF Acked, Existing, Logged
<1>3. archived' /\ archived' \in BOOLEAN
  BY <1>1, Zenon
<1>4. TypeOK' /\ MomentsPassed' /\ BatchIsAdmitted' /\ SeenStays' /\ RowsAreAcked' /\ ValuesStay'
  BY <1>1, <1>2, <1>3 DEF MomentsPassed, BatchIsAdmitted, SeenStays, RowsAreAcked, ValuesStay
<1>5. ReaderGoesOn' /\ FoundIsLogged'
  BY <1>1, <1>2, <1>3, ReadersRest, ViewersRest
<1> QED
  BY <1>4, <1>5

LEMMA TrackingKeeps == TrackingInv /\ [Next]_vars => TrackingInv'
<1> SUFFICES ASSUME TrackingInv, [Next]_vars PROVE TrackingInv'
  OBVIOUS
<1>1. ASSUME NEW r \in Runs, Create(r) \/ End(r) PROVE TrackingInv'
  BY <1>1, CreateOrEnd
<1>2. ASSUME NEW b \in Batches, Log(b) PROVE TrackingInv'
  BY <1>2, LogBegins, LogCommits, LogBreaks DEF Log
<1>3. ASSUME NEW q \in Readers, Read(q) PROVE TrackingInv'
  BY <1>3, ReadsProject, ReadsRun, ReadsRuns, ReadsTable, ReaderAnswers DEF Read
<1>4. ASSUME NEW v \in Viewers, View(v) PROVE TrackingInv'
  BY <1>4, ViewerLooks, ViewerReads, ViewerSets DEF View
<1>5. CASE ArchiveExperiment
  BY <1>5, ArchivesExperiment
<1>6. CASE UNCHANGED vars
  <2> USE DEF vars, runVars, logVars
  <2>1. Acked' = Acked /\ Existing' = Existing /\ Logged' = Logged
    BY <1>6 DEF Acked, Existing, Logged
  <2>2. TypeOK' /\ MomentsPassed' /\ BatchIsAdmitted' /\ SeenStays'
    BY <1>6 DEF TrackingInv, TypeOK, MomentsPassed, BatchIsAdmitted, SeenStays
  <2>3. RowsAreAcked' /\ ValuesStay'
    BY <1>6, <2>1 DEF TrackingInv, RowsAreAcked, ValuesStay
  <2>4. ReaderGoesOn' /\ FoundIsLogged'
    BY <1>6, <2>1, ReadersRest, ViewersRest DEF TrackingInv
  <2> QED
    BY <2>2, <2>3, <2>4 DEF TrackingInv
<1> QED
  BY <1>1, <1>2, <1>3, <1>4, <1>5, <1>6 DEF Next

\* What the properties say of a state in which the invariant holds.
LEMMA TrackingImplies ==
    TrackingInv => AckedBatchStays /\ LateContentWasAdmitted /\ SnapshotIsSound /\ ProgressIsBacked
<1> SUFFICES ASSUME TrackingInv
             PROVE AckedBatchStays /\ LateContentWasAdmitted /\ SnapshotIsSound /\ ProgressIsBacked
  OBVIOUS
<1> USE DEF TrackingInv
<1>1. ASSUME NEW b \in Batches, batch[b].pc = "acked"
      PROVE  /\ batch[b].value # None => param[batch[b].run].value = batch[b].value
             /\ [run |-> batch[b].run, by |-> b] \in ToSet(metrics)
  <2>1. b \in Acked
    BY <1>1 DEF Acked
  <2> QED
    BY <2>1 DEF ValuesStay, ToSet
<1>2. Rows("parameters") \subseteq Acked /\ Rows("metrics") = Acked
  BY RowsAreKnown
<1>3. AckedBatchStays
  BY <1>1, <1>2 DEF AckedBatchStays, Acked
<1>4. LateContentWasAdmitted
  BY <1>2 DEF LateContentWasAdmitted, Acked, BatchIsAdmitted
<1>5. SnapshotIsSound
  BY DEF SnapshotIsSound, ReaderGoesOn, ReaderIs
<1>6. ProgressIsBacked
  BY DEF ProgressIsBacked, FoundIsLogged
<1> QED
  BY <1>3, <1>4, <1>5, <1>6

\* A batch that was acknowledged stays in its Run, whatever else is logged meanwhile, and
\* one that was not leaves nothing behind: for every number of Runs, batches and values.
THEOREM AckedStaysSafety == Spec => []AckedBatchStays
BY TrackingInit, TrackingKeeps, TrackingImplies, PTL DEF Spec

\* What an ended Run is given had been admitted before it ended.
THEOREM LateContentSafety == Spec => []LateContentWasAdmitted
BY TrackingInit, TrackingKeeps, TrackingImplies, PTL DEF Spec

\* A snapshot read in several statements shows all that was acknowledged before it began,
\* and breaks only if a Run was created meanwhile.
THEOREM SnapshotSafety == Spec => []SnapshotIsSound
BY TrackingInit, TrackingKeeps, TrackingImplies, PTL DEF Spec

\* A metric that was found can be shown, and the default one was logged.
THEOREM ProgressSafety == Spec => []ProgressIsBacked
BY TrackingInit, TrackingKeeps, TrackingImplies, PTL DEF Spec

-----------------------------------------------------------------------------
(* The publication stream                                                  *)

\* Numbers in use are bounded by the highest one ever used, so that the history has a
\* highest number too.
StreamTypes ==
    /\ Str!TypeOK
    /\ \A e \in events : e.seq <= top

\* What ends an operation is told by an event of that end only.
EndIsTrue(E) ==
    \A e \in E : Str!Announces(e.name) \in Str!Terminal => operation = Str!Announces(e.name)

\* What a watcher has been told, given what its connection holds.
Tells(un, se, fi, co, to) ==
    /\ fi => operation \in Str!Terminal
    /\ co = "ended" => fi
    /\ co # "closed" => to = "watching"
    /\ to \in {"watching", "exit0"} => \A e \in se : e.name # "operation.failed"
    /\ to \in {"published", "failed"} => operation = to
    /\ to = "exit0" => operation \in Str!Terminal
    /\ EndIsTrue(un)

WatchersAreTold ==
    \A c \in Watchers : Tells(unsent[c], seen[c], final[c], conn[c], told[c])

OutcomeInv == StreamTypes /\ EndIsTrue(events) /\ WatchersAreTold

\* A set of numbers has a lowest one.
LEMMA NatMin ==
    ASSUME NEW T \in SUBSET Nat, T # {}
    PROVE  \E n \in T : \A m \in T : n <= m
<1>1. PICK n \in T : \A m \in T : <<m, n>> \notin OpToRel(<, Nat)
  BY NatLessThanWellFounded, WFMin
<1>2. \A m \in T : ~(m < n)
  BY <1>1 DEF OpToRel
<1> QED
  BY <1>2

\* A bounded set of numbers has a highest one.
LEMMA HighestOf ==
    ASSUME NEW N \in SUBSET Nat, NEW b \in Nat, \A n \in N : n <= b
    PROVE  /\ Str!Highest(N) \in N \cup {0} /\ Str!Highest(N) \in Nat
           /\ \A m \in N : m <= Str!Highest(N)
<1> DEFINE T == {m \in Nat : \A n \in N : n <= m}
<1>1. PICK h \in T : \A m \in T : h <= m
  <2>1. b \in T
    OBVIOUS
  <2> HIDE DEF T
  <2>2. T \in SUBSET Nat /\ T # {}
    BY <2>1 DEF T
  <2> QED
    BY <2>2, NatMin
<1>2. h \in N \cup {0}
  <2> SUFFICES ASSUME h \notin N, h # 0 PROVE FALSE
    OBVIOUS
  <2>1. h - 1 \in Nat
    OBVIOUS
  <2>2. \A n \in N : n <= h - 1
    OBVIOUS
  <2>3. h - 1 \in T
    BY <2>1, <2>2
  <2>4. ~(h <= h - 1)
    OBVIOUS
  <2> HIDE DEF T
  <2> QED
    BY <1>1, <2>3, <2>4
<1>3. \E n \in N \cup {0} : \A m \in N : m <= n
  BY <1>2
<1>4. PICK g : /\ g = Str!Highest(N)
               /\ g \in N \cup {0} /\ \A m \in N : m <= g
  BY <1>3 DEF Str!Highest
<1> HIDE DEF T
<1>5. g \in Nat
  <2>1. CASE g \in N
    BY <2>1, Zenon
  <2>2. CASE g = 0
    BY <2>2
  <2> QED
    BY <1>4, <2>1, <2>2
<1> QED
  BY <1>4, <1>5

\* A set of events has one that comes first.
LEMMA FirstOf ==
    ASSUME NEW E \in SUBSET Str!EventType, E # {}
    PROVE  Str!First(E) \in E /\ \A f \in E : Str!First(E).seq <= f.seq
<1>1. \A e \in E : e.seq \in Nat
  BY DEF Str!EventType
<1>2. PICK n \in Str!SeqsOf(E) : \A m \in Str!SeqsOf(E) : n <= m
  <2>1. Str!SeqsOf(E) \in SUBSET Nat /\ Str!SeqsOf(E) # {}
    BY <1>1 DEF Str!SeqsOf
  <2> QED
    BY <2>1, NatMin
<1>3. \E e \in E : \A f \in E : e.seq <= f.seq
  BY <1>2 DEF Str!SeqsOf
<1> QED
  BY <1>3 DEF Str!First

\* Highest of two numbers.
LEMMA HighestOfTwo ==
    ASSUME NEW a \in Nat, NEW b \in Nat
    PROVE  Str!Highest({a, b}) = IF a <= b THEN b ELSE a
<1>1. PICK u \in Nat : u = a + b
  OBVIOUS
<1>2. {a, b} \in SUBSET Nat /\ \A n \in {a, b} : n <= u
  BY <1>1
<1>3. PICK h : h = Str!Highest({a, b})
  OBVIOUS
<1>4. h \in {a, b} \cup {0} /\ \A m \in {a, b} : m <= h
  BY <1>2, <1>3, HighestOf
<1> QED
  BY <1>3, <1>4

\* The events of the history have a highest number.
LEMMA HistoryHasTop ==
    ASSUME StreamTypes, NEW E \in SUBSET events
    PROVE  /\ Str!SeqsOf(E) \in SUBSET Nat
           /\ Str!Highest(Str!SeqsOf(E)) \in Str!SeqsOf(E) \cup {0}
           /\ Str!Highest(Str!SeqsOf(E)) \in Nat
           /\ Str!Highest(Str!SeqsOf(E)) <= top
           /\ \A e \in E : e.seq <= Str!Highest(Str!SeqsOf(E))
<1>1. /\ Str!SeqsOf(E) \in SUBSET Nat /\ top \in Nat
      /\ \A n \in Str!SeqsOf(E) : n <= top
  BY DEF StreamTypes, Str!TypeOK, Str!EventType, Str!SeqsOf
<1>2. PICK S : S = Str!SeqsOf(E)
  OBVIOUS
<1>3. Str!Highest(S) \in S \cup {0} /\ Str!Highest(S) \in Nat /\ \A m \in S : m <= Str!Highest(S)
  BY <1>1, <1>2, HighestOf
<1>4. \A e \in E : e.seq \in S
  BY <1>2 DEF Str!SeqsOf
<1> QED
  BY <1>1, <1>2, <1>3, <1>4

\* The event that is appended.
Appended(name) == [seq |-> Str!NextSequence, name |-> name, at |-> date]

LEMMA AppendStep ==
    ASSUME StreamTypes, NEW name \in Str!EventNames, Str!Append(name)
    PROVE  /\ Str!NextSequence \in Nat \ {0}
           /\ Appended(name) \in Str!EventType
           /\ Appended(name).seq = Str!NextSequence
           /\ Appended(name).name = name /\ Appended(name).at = date
           /\ events' = events \cup {Appended(name)}
           /\ \A e \in events : e.seq < Str!NextSequence
           /\ top' = (IF top <= Str!NextSequence THEN Str!NextSequence ELSE top)
           /\ operation \notin Str!Terminal
           /\ operation' = Str!Announces(name) /\ operation' \in Str!States
           /\ restarted' = (restarted \/ events = {})
           /\ UNCHANGED <<expired, pruned, prune, client, conn, cursor, unsent, final, seen, told,
                          date>>
<1>1. /\ Str!Highest(Str!SeqsOf(events)) \in Nat
      /\ \A e \in events : e.seq <= Str!Highest(Str!SeqsOf(events))
  BY HistoryHasTop
<1>2. Str!NextSequence \in Nat \ {0} /\ \A e \in events : e.seq < Str!NextSequence
  BY <1>1 DEF Str!NextSequence, StreamTypes, Str!TypeOK, Str!EventType
<1>3. top \in Nat /\ date \in Nat /\ operation \in Str!States
  BY DEF StreamTypes, Str!TypeOK
<1>4. PICK n : n = Str!NextSequence
  OBVIOUS
<1>5. top' = IF top <= n THEN n ELSE top
  BY <1>2, <1>3, <1>4, HighestOfTwo DEF Str!Append
<1>6. operation \notin Str!Terminal
  BY DEF Str!Append, Str!Successors, Str!InFlight, Str!Terminal
<1>7. operation' = Str!Announces(name) /\ operation' \in Str!States
  BY DEF Str!Append, Str!Announces, Str!States, Str!InFlight, Str!Terminal, Str!EventNames
<1>8. events' = events \cup {Appended(name)}
  BY DEF Str!Append, Appended
<1>9. /\ restarted' = (restarted \/ events = {})
      /\ UNCHANGED <<expired, pruned, prune, client, conn, cursor, unsent, final, seen, told, date>>
  BY DEF Str!Append, Str!watchVars
<1>10. /\ Appended(name) \in Str!EventType /\ Appended(name).seq = Str!NextSequence
       /\ Appended(name).name = name /\ Appended(name).at = date
  BY <1>2, <1>3 DEF Appended, Str!EventType
<1> QED
  BY <1>2, <1>4, <1>5, <1>6, <1>7, <1>8, <1>9, <1>10

\* What a pruner has read.
LEMMA PruneReadStep ==
    ASSUME StreamTypes, NEW p \in Pruners, Str!PruneRead(p)
    PROVE  \E to \in Nat :
              /\ prune' = [prune EXCEPT ![p] = [pc |-> "write", before |-> date - Retention,
                                               read |-> expired, to |-> to]]
              /\ UNCHANGED <<events, operation, expired, top, pruned, restarted, client, conn,
                             cursor, unsent, final, seen, told, date>>
<1> DEFINE O == Str!Old(date - Retention)
<1>1. O \in SUBSET events
  BY DEF Str!Old
<1>2. PICK h \in Nat : h = Str!Highest(Str!SeqsOf(O))
  <2> HIDE DEF O
  <2> QED
    BY <1>1, HistoryHasTop
<1>3. expired \in Nat
  BY DEF StreamTypes, Str!TypeOK
<1>4. PICK to \in Nat : to = Str!Highest({expired, h})
  <2>1. Str!Highest({expired, h}) = IF expired <= h THEN h ELSE expired
    BY <1>3, HighestOfTwo
  <2> QED
    BY <1>3, <2>1
<1>5. /\ prune' = [prune EXCEPT ![p] = [pc |-> "write", before |-> date - Retention,
                                       read |-> expired, to |-> to]]
      /\ UNCHANGED <<events, operation, expired, top, pruned, restarted, client, conn, cursor,
                     unsent, final, seen, told, date>>
  BY <1>2, <1>4 DEF Str!PruneRead, Str!tableVars, Str!watchVars
<1> QED
  BY <1>4, <1>5

\* The queue, the retention task and the clock: watchers stay as they are.
LEMMA TableTypes ==
    ASSUME StreamTypes,
           \/ \E name \in Str!EventNames : Str!Append(name)
           \/ \E p \in Pruners : Str!PruneRead(p) \/ Str!PruneWrite(p)
           \/ Str!Tick
    PROVE  /\ StreamTypes'
           /\ UNCHANGED <<client, conn, cursor, unsent, final, seen, told>>
           /\ operation \in Str!Terminal => operation' = operation
           /\ top <= top'
<1>1. ASSUME NEW name \in Str!EventNames, Str!Append(name)
      PROVE  /\ StreamTypes'
             /\ UNCHANGED <<client, conn, cursor, unsent, final, seen, told>>
             /\ operation \in Str!Terminal => operation' = operation
             /\ top <= top'
  <2>0. PICK n \in Nat, e \in Str!EventType :
            /\ n = Str!NextSequence /\ e = Appended(name) /\ e.seq = n
            /\ events' = events \cup {e}
            /\ top' = (IF top <= n THEN n ELSE top)
            /\ operation \notin Str!Terminal /\ operation' \in Str!States
            /\ restarted' = (restarted \/ events = {})
            /\ UNCHANGED <<expired, pruned, prune, client, conn, cursor, unsent, final, seen, told,
                           date>>
    BY <1>1, AppendStep
  <2>1. top \in Nat /\ events \subseteq Str!EventType
    BY DEF StreamTypes, Str!TypeOK
  <2>2. top' \in Nat /\ top <= top' /\ n <= top'
    BY <2>0, <2>1
  <2>3. events' \subseteq Str!EventType
    BY <2>0, <2>1
  <2>4. \A f \in events' : f.seq <= top'
    BY <2>0, <2>1, <2>2 DEF StreamTypes, Str!EventType
  <2>5. Str!TypeOK'
    BY <2>0, <2>2, <2>3 DEF StreamTypes, Str!TypeOK
  <2> QED
    BY <2>0, <2>2, <2>4, <2>5 DEF StreamTypes
<1>2. ASSUME NEW p \in Pruners, Str!PruneRead(p)
      PROVE  /\ StreamTypes'
             /\ UNCHANGED <<client, conn, cursor, unsent, final, seen, told>>
             /\ operation' = operation /\ top' = top
  <2>1. PICK to \in Nat :
            /\ prune' = [prune EXCEPT ![p] = [pc |-> "write", before |-> date - Retention,
                                             read |-> expired, to |-> to]]
            /\ UNCHANGED <<events, operation, expired, top, pruned, restarted, client, conn,
                           cursor, unsent, final, seen, told, date>>
    BY <1>2, PruneReadStep
  <2>2. prune' \in [Pruners -> [pc : {"idle", "write"}, before : Int, read : Nat, to : Nat]]
    BY <2>1, StreamConstants DEF StreamTypes, Str!TypeOK
  <2> QED
    BY <2>1, <2>2 DEF StreamTypes, Str!TypeOK
<1>3. ASSUME NEW p \in Pruners, Str!PruneWrite(p)
      PROVE  /\ StreamTypes'
             /\ UNCHANGED <<client, conn, cursor, unsent, final, seen, told>>
             /\ operation' = operation /\ top' = top
  <2>1. /\ expired' \in {expired, prune[p].to} /\ events' \subseteq events
        /\ pruned' = pruned \cup Str!SeqsOf(Str!Old(prune[p].before))
        /\ prune' = [prune EXCEPT ![p] = Str!Idle]
        /\ UNCHANGED <<operation, top, restarted, client, conn, cursor, unsent, final, seen, told,
                       date>>
    BY <1>3 DEF Str!PruneWrite, Str!ExpiredThrough, Str!watchVars
  <2>5. pruned' \subseteq Nat
    BY <2>1 DEF StreamTypes, Str!TypeOK, Str!EventType, Str!SeqsOf, Str!Old
  <2>2. Str!Idle \in [pc : {"idle", "write"}, before : Int, read : Nat, to : Nat]
    BY DEF Str!Idle
  <2>3. prune' \in [Pruners -> [pc : {"idle", "write"}, before : Int, read : Nat, to : Nat]]
    BY <2>1, <2>2 DEF StreamTypes, Str!TypeOK
  <2>4. expired' \in Nat
    BY <2>1 DEF StreamTypes, Str!TypeOK
  <2> QED
    BY <2>1, <2>3, <2>4, <2>5 DEF StreamTypes, Str!TypeOK
<1>4. ASSUME Str!Tick
      PROVE  /\ StreamTypes'
             /\ UNCHANGED <<client, conn, cursor, unsent, final, seen, told>>
             /\ operation' = operation /\ top' = top
  BY <1>4 DEF Str!Tick, Str!tableVars, Str!watchVars, StreamTypes, Str!TypeOK
<1>5. top \in Nat
  BY DEF StreamTypes, Str!TypeOK
<1> QED
  BY <1>1, <1>2, <1>3, <1>4, <1>5

\* One watcher goes on; the tables and the other watchers stay as they are.
WatcherGoes(c, co, cu, un, se, fi, to) ==
    /\ conn' = [conn EXCEPT ![c] = co] /\ cursor' = [cursor EXCEPT ![c] = cu]
    /\ unsent' = [unsent EXCEPT ![c] = un] /\ seen' = [seen EXCEPT ![c] = se]
    /\ final' = [final EXCEPT ![c] = fi] /\ told' = [told EXCEPT ![c] = to]
    /\ UNCHANGED <<events, operation, expired, top, pruned, restarted, prune, client, date>>

\* What it may do: look at the tables, send one event, or close.
Looks(c, co, un, fi) ==
    \/ conn[c] = "closed" /\ co = "check" /\ un = unsent[c] /\ fi = final[c]
    \/ conn[c] = "check" /\ co \in {"read", "broken"} /\ un = unsent[c] /\ fi = final[c]
    \/ conn[c] = "read" /\ co = "state" /\ un = Str!After(cursor[c]) /\ fi = final[c]
    \/ conn[c] = "state" /\ co = "send" /\ un = unsent[c]
       /\ (fi <=> operation \in Str!Terminal)
    \/ /\ conn[c] = "send" /\ unsent[c] = {} /\ un = unsent[c] /\ fi = final[c]
       /\ co = IF final[c] THEN "ended" ELSE "check"

Leaves(c, un, to) ==
    \/ conn[c] = "closed" /\ to = "gone" /\ un = unsent[c]
    \/ conn[c] = "ended" /\ to \in {"watching", "exit0"} /\ un = unsent[c]
    \/ conn[c] \notin {"closed", "ended"} /\ to = "lost" /\ un = {}

Sends(c, e, co, un, to) ==
    /\ conn[c] = "send" /\ unsent[c] # {} /\ e = Str!First(unsent[c])
    /\ to = Str!Reaction(c, e.name)
    /\ IF to = "watching" THEN un = unsent[c] \ {e} /\ co = "send" ELSE un = {} /\ co = "closed"

WatcherSteps(c) ==
    \/ \E co \in Str!ConnPCs, un \in SUBSET Str!EventType, fi \in BOOLEAN :
          /\ Looks(c, co, un, fi)
          /\ conn[c] = "closed" => told[c] = "watching"
          /\ WatcherGoes(c, co, cursor[c], un, seen[c], fi, told[c])
    \/ \E un \in SUBSET Str!EventType, to \in Str!Outcomes :
          /\ Leaves(c, un, to)
          /\ WatcherGoes(c, "closed", cursor[c], un, seen[c], final[c], to)
    \/ \E e \in Str!EventType, co \in Str!ConnPCs, un \in SUBSET Str!EventType, to \in Str!Outcomes :
          /\ Sends(c, e, co, un, to)
          /\ WatcherGoes(c, co, e.seq, un, seen[c] \cup {e}, final[c], to)

LEMMA WatcherStep ==
    ASSUME StreamTypes, NEW c \in Watchers, Str!Serve(c) \/ Str!Watch(c) \/ Str!ResponseBreaks(c)
    PROVE  WatcherSteps(c)
<1> USE DEF WatcherGoes, Str!tableVars
<1>0. /\ conn \in [Watchers -> Str!ConnPCs] /\ cursor \in [Watchers -> Nat]
      /\ unsent \in [Watchers -> SUBSET Str!EventType] /\ final \in [Watchers -> BOOLEAN]
      /\ seen \in [Watchers -> SUBSET Str!EventType] /\ told \in [Watchers -> Str!Outcomes]
      /\ events \subseteq Str!EventType
  BY DEF StreamTypes, Str!TypeOK
<1>1. /\ conn = [conn EXCEPT ![c] = conn[c]] /\ cursor = [cursor EXCEPT ![c] = cursor[c]]
      /\ unsent = [unsent EXCEPT ![c] = unsent[c]] /\ seen = [seen EXCEPT ![c] = seen[c]]
      /\ final = [final EXCEPT ![c] = final[c]] /\ told = [told EXCEPT ![c] = told[c]]
  BY <1>0
<1>2. /\ conn[c] \in Str!ConnPCs /\ unsent[c] \in SUBSET Str!EventType /\ final[c] \in BOOLEAN
      /\ told[c] \in Str!Outcomes
  BY <1>0
<1>3. ASSUME NEW co \in Str!ConnPCs, NEW un \in SUBSET Str!EventType, NEW fi \in BOOLEAN,
             Looks(c, co, un, fi), conn[c] = "closed" => told[c] = "watching",
             WatcherGoes(c, co, cursor[c], un, seen[c], fi, told[c])
      PROVE  WatcherSteps(c)
  BY <1>3 DEF WatcherSteps
<1>4. ASSUME NEW un \in SUBSET Str!EventType, NEW to \in Str!Outcomes, Leaves(c, un, to),
             WatcherGoes(c, "closed", cursor[c], un, seen[c], final[c], to)
      PROVE  WatcherSteps(c)
  BY <1>4 DEF WatcherSteps
<1>5. CASE Str!Connect(c)
  <2>1. CASE Str!HistoryKept(c)
    <3>1. Looks(c, "check", unsent[c], final[c]) /\ told[c] = "watching"
      BY <1>5 DEF Str!Connect, Looks
    <3>2. WatcherGoes(c, "check", cursor[c], unsent[c], seen[c], final[c], told[c])
      BY <1>1, <1>5, <2>1 DEF Str!Connect
    <3> QED
      BY <1>2, <1>3, <3>1, <3>2 DEF Str!ConnPCs
  <2>2. CASE ~Str!HistoryKept(c)
    <3>1. Leaves(c, unsent[c], "gone") /\ conn[c] = "closed"
      BY <1>5 DEF Str!Connect, Leaves
    <3>2. WatcherGoes(c, "closed", cursor[c], unsent[c], seen[c], final[c], "gone")
      BY <1>1, <1>5, <2>2, <3>1 DEF Str!Connect
    <3> QED
      BY <1>2, <1>4, <3>1, <3>2 DEF Str!Outcomes
  <2> QED
    BY <2>1, <2>2
<1>6. CASE Str!CheckHistory(c)
  <2>1. PICK co \in {"read", "broken"} : conn' = [conn EXCEPT ![c] = co]
    BY <1>6 DEF Str!CheckHistory
  <2>2. Looks(c, co, unsent[c], final[c]) /\ conn[c] # "closed" /\ co \in Str!ConnPCs
    BY <1>6, <2>1 DEF Str!CheckHistory, Looks, Str!ConnPCs
  <2>3. WatcherGoes(c, co, cursor[c], unsent[c], seen[c], final[c], told[c])
    BY <1>1, <1>6, <2>1 DEF Str!CheckHistory
  <2> QED
    BY <1>2, <1>3, <2>2, <2>3
<1>7. CASE Str!ReadEvents(c)
  <2>1. PICK un : un = Str!After(cursor[c])
    OBVIOUS
  <2>2. un \in SUBSET Str!EventType
    BY <1>0, <2>1 DEF Str!After
  <2>3. Looks(c, "state", un, final[c]) /\ conn[c] # "closed"
    BY <1>7, <2>1 DEF Str!ReadEvents, Looks
  <2>4. WatcherGoes(c, "state", cursor[c], un, seen[c], final[c], told[c])
    BY <1>1, <1>7, <2>1 DEF Str!ReadEvents
  <2> QED
    BY <1>2, <1>3, <2>2, <2>3, <2>4 DEF Str!ConnPCs
<1>8. CASE Str!ReadState(c)
  <2>1. PICK fi \in BOOLEAN : /\ fi <=> operation \in Str!Terminal
                              /\ final' = [final EXCEPT ![c] = fi]
    <3>1. final' = [final EXCEPT ![c] = operation \in Str!Terminal]
      BY <1>8 DEF Str!ReadState
    <3>2. CASE operation \in Str!Terminal
      <4>1. (operation \in Str!Terminal) = TRUE
        BY <3>2
      <4>2. final' = [final EXCEPT ![c] = TRUE]
        BY <3>1, <4>1, Zenon
      <4> QED
        BY <3>2, <4>2
    <3>3. CASE operation \notin Str!Terminal
      <4>1. (operation \in Str!Terminal) = FALSE
        BY <3>3
      <4>2. final' = [final EXCEPT ![c] = FALSE]
        BY <3>1, <4>1, Zenon
      <4> QED
        BY <3>3, <4>2
    <3> QED
      BY <3>2, <3>3
  <2>2. Looks(c, "send", unsent[c], fi) /\ conn[c] # "closed"
    BY <1>8, <2>1 DEF Str!ReadState, Looks
  <2>3. WatcherGoes(c, "send", cursor[c], unsent[c], seen[c], fi, told[c])
    BY <1>1, <1>8, <2>1 DEF Str!ReadState
  <2> QED
    BY <1>2, <1>3, <2>2, <2>3 DEF Str!ConnPCs
<1>9. CASE Str!EndOfBatch(c)
  <2>1. PICK co \in {"ended", "check"} : co = IF final[c] THEN "ended" ELSE "check"
    OBVIOUS
  <2>2. Looks(c, co, unsent[c], final[c]) /\ conn[c] # "closed" /\ co \in Str!ConnPCs
    BY <1>9, <2>1 DEF Str!EndOfBatch, Looks, Str!ConnPCs
  <2>3. WatcherGoes(c, co, cursor[c], unsent[c], seen[c], final[c], told[c])
    BY <1>1, <1>9, <2>1 DEF Str!EndOfBatch, Str!Turn
  <2> QED
    BY <1>2, <1>3, <2>2, <2>3
<1>10. CASE Str!ResponseEnds(c)
  <2>1. PICK to \in {"watching", "exit0"} : told' = [told EXCEPT ![c] = to]
    BY <1>10 DEF Str!ResponseEnds
  <2>2. Leaves(c, unsent[c], to)
    BY <1>10 DEF Str!ResponseEnds, Leaves
  <2>3. WatcherGoes(c, "closed", cursor[c], unsent[c], seen[c], final[c], to)
    BY <1>1, <1>10, <2>1 DEF Str!ResponseEnds
  <2> QED
    BY <1>2, <1>4, <2>1, <2>2, <2>3 DEF Str!Outcomes
<1>11. CASE Str!ResponseBreaks(c)
  <2>1. Leaves(c, {}, "lost")
    BY <1>11 DEF Str!ResponseBreaks, Leaves
  <2>2. WatcherGoes(c, "closed", cursor[c], {}, seen[c], final[c], "lost")
    BY <1>1, <1>11 DEF Str!ResponseBreaks
  <2> QED
    BY <1>4, <2>1, <2>2 DEF Str!Outcomes
<1>12. CASE Str!Send(c)
  <2>1. PICK e \in Str!EventType : e = Str!First(unsent[c]) /\ e \in unsent[c]
    BY <1>2, <1>12, FirstOf DEF Str!Send
  <2>2. PICK to \in Str!Outcomes : to = Str!Reaction(c, e.name)
    BY DEF Str!Reaction, Str!Outcomes
  <2>3. /\ conn[c] = "send" /\ unsent[c] # {}
        /\ cursor' = [cursor EXCEPT ![c] = e.seq]
        /\ seen' = [seen EXCEPT ![c] = seen[c] \cup {e}]
        /\ told' = [told EXCEPT ![c] = to]
        /\ IF to = "watching"
           THEN unsent' = [unsent EXCEPT ![c] = unsent[c] \ {e}] /\ conn' = conn
           ELSE unsent' = [unsent EXCEPT ![c] = {}] /\ conn' = [conn EXCEPT ![c] = "closed"]
        /\ UNCHANGED <<events, operation, expired, top, pruned, restarted, prune, client, final,
                       date>>
    BY <1>12, <2>1, <2>2 DEF Str!Send
  <2>4. PICK un \in SUBSET Str!EventType, co \in Str!ConnPCs :
            IF to = "watching" THEN un = unsent[c] \ {e} /\ co = "send" ELSE un = {} /\ co = "closed"
    BY <1>2 DEF Str!ConnPCs
  <2>5. Sends(c, e, co, un, to)
    BY <2>1, <2>2, <2>3, <2>4 DEF Sends
  <2>6. WatcherGoes(c, co, e.seq, un, seen[c] \cup {e}, final[c], to)
    BY <1>1, <2>3, <2>4
  <2> QED
    BY <2>5, <2>6 DEF WatcherSteps
<1> QED
  BY <1>5, <1>6, <1>7, <1>8, <1>9, <1>10, <1>11, <1>12 DEF Str!Serve, Str!Watch

\* A watcher that goes on keeps the types, and the others their part in an invariant.
LEMMA WatcherTypes ==
    ASSUME StreamTypes, NEW c \in Watchers, NEW co \in Str!ConnPCs, NEW cu \in Nat,
           NEW un \in SUBSET Str!EventType, NEW se \in SUBSET Str!EventType,
           NEW fi \in BOOLEAN, NEW to \in Str!Outcomes, WatcherGoes(c, co, cu, un, se, fi, to)
    PROVE  /\ StreamTypes'
           /\ conn'[c] = co /\ cursor'[c] = cu /\ unsent'[c] = un /\ seen'[c] = se
           /\ final'[c] = fi /\ told'[c] = to
           /\ \A z \in Watchers \ {c} :
                 /\ conn'[z] = conn[z] /\ cursor'[z] = cursor[z] /\ unsent'[z] = unsent[z]
                 /\ seen'[z] = seen[z] /\ final'[z] = final[z] /\ told'[z] = told[z]
<1>1. Str!TypeOK'
  BY DEF WatcherGoes, StreamTypes, Str!TypeOK
<1>2. StreamTypes'
  BY <1>1 DEF WatcherGoes, StreamTypes
<1> QED
  BY <1>2 DEF WatcherGoes, StreamTypes, Str!TypeOK

\* An operation that goes on has told no end, and one that is over stays so.
LEMMA TableTells ==
    ASSUME OutcomeInv,
           \/ \E name \in Str!EventNames : Str!Append(name)
           \/ \E p \in Pruners : Str!PruneRead(p) \/ Str!PruneWrite(p)
           \/ Str!Tick
    PROVE  OutcomeInv'
<1>1. /\ StreamTypes'
      /\ UNCHANGED <<client, conn, cursor, unsent, final, seen, told>>
      /\ operation \in Str!Terminal => operation' = operation
  BY TableTypes DEF OutcomeInv
<1>2. WatchersAreTold'
  <2> SUFFICES ASSUME NEW c \in Watchers PROVE Tells(unsent[c], seen[c], final[c], conn[c], told[c])'
    BY DEF WatchersAreTold
  <2>1. Tells(unsent[c], seen[c], final[c], conn[c], told[c])
    BY DEF OutcomeInv, WatchersAreTold
  <2>2. {"published", "failed"} = Str!Terminal
    BY DEF Str!Terminal
  <2>3. EndIsTrue(unsent[c])'
    BY <1>1, <2>1 DEF Tells, EndIsTrue
  <2> QED
    BY <1>1, <2>1, <2>2, <2>3 DEF Tells
<1>3. EndIsTrue(events)'
  <2>1. ASSUME NEW name \in Str!EventNames, Str!Append(name) PROVE EndIsTrue(events)'
    <3>1. /\ events' = events \cup {Appended(name)} /\ Appended(name).name = name
          /\ operation \notin Str!Terminal /\ operation' = Str!Announces(name)
      BY <2>1, AppendStep DEF OutcomeInv
    <3>2. PICK e : e = Appended(name)
      OBVIOUS
    <3> QED
      BY <3>1, <3>2 DEF OutcomeInv, EndIsTrue
  <2>2. ASSUME NEW p \in Pruners, Str!PruneRead(p) \/ Str!PruneWrite(p) PROVE EndIsTrue(events)'
    <3>1. events' \subseteq events /\ operation' = operation
      BY <2>2 DEF Str!PruneRead, Str!PruneWrite, Str!tableVars
    <3> QED
      BY <3>1 DEF OutcomeInv, EndIsTrue
  <2>3. CASE Str!Tick
    BY <2>3 DEF Str!Tick, Str!tableVars, OutcomeInv, EndIsTrue
  <2> QED
    BY <2>1, <2>2, <2>3
<1> QED
  BY <1>1, <1>2, <1>3 DEF OutcomeInv

LEMMA WatcherTells ==
    ASSUME OutcomeInv, NEW c \in Watchers, Str!Serve(c) \/ Str!Watch(c) \/ Str!ResponseBreaks(c)
    PROVE  OutcomeInv'
<1>0. StreamTypes /\ WatcherSteps(c) /\ Tells(unsent[c], seen[c], final[c], conn[c], told[c])
  BY WatcherStep DEF OutcomeInv, WatchersAreTold
<1>1. /\ cursor[c] \in Nat /\ seen[c] \in SUBSET Str!EventType /\ final[c] \in BOOLEAN
      /\ told[c] \in Str!Outcomes
  BY <1>0 DEF StreamTypes, Str!TypeOK
<1>2. ASSUME NEW co \in Str!ConnPCs, NEW cu \in Nat, NEW un \in SUBSET Str!EventType,
             NEW se \in SUBSET Str!EventType, NEW fi \in BOOLEAN, NEW to \in Str!Outcomes,
             WatcherGoes(c, co, cu, un, se, fi, to), Tells(un, se, fi, co, to)
      PROVE  OutcomeInv'
  <2>1. /\ StreamTypes'
        /\ conn'[c] = co /\ unsent'[c] = un /\ seen'[c] = se /\ final'[c] = fi /\ told'[c] = to
        /\ \A z \in Watchers \ {c} :
              /\ conn'[z] = conn[z] /\ unsent'[z] = unsent[z]
              /\ seen'[z] = seen[z] /\ final'[z] = final[z] /\ told'[z] = told[z]
    BY <1>0, <1>2, WatcherTypes
  <2>2. events' = events /\ operation' = operation
    BY <1>2 DEF WatcherGoes
  <2>3. \A z \in Watchers : Tells(unsent'[z], seen'[z], final'[z], conn'[z], told'[z])
    BY <1>2, <2>1 DEF OutcomeInv, WatchersAreTold
  <2>4. WatchersAreTold'
    BY <2>2, <2>3 DEF WatchersAreTold, Tells, EndIsTrue
  <2> QED
    BY <2>1, <2>2, <2>4 DEF OutcomeInv, EndIsTrue
<1>3. ASSUME NEW co \in Str!ConnPCs, NEW un \in SUBSET Str!EventType, NEW fi \in BOOLEAN,
             Looks(c, co, un, fi), conn[c] = "closed" => told[c] = "watching",
             WatcherGoes(c, co, cursor[c], un, seen[c], fi, told[c])
      PROVE  OutcomeInv'
  <2>1. EndIsTrue(un)
    BY <1>0, <1>3 DEF Looks, Tells, EndIsTrue, Str!After, OutcomeInv
  <2>2. told[c] = "watching" /\ \A e \in seen[c] : e.name # "operation.failed"
    BY <1>0, <1>3 DEF Tells
  <2>3. (fi => operation \in Str!Terminal) /\ (co = "ended" => fi)
    BY <1>0, <1>3 DEF Tells, Looks
  <2>4. Tells(un, seen[c], fi, co, told[c])
    BY <2>1, <2>2, <2>3 DEF Tells
  <2> QED
    BY <1>1, <1>2, <1>3, <2>4
<1>4. ASSUME NEW un \in SUBSET Str!EventType, NEW to \in Str!Outcomes, Leaves(c, un, to),
             WatcherGoes(c, "closed", cursor[c], un, seen[c], final[c], to)
      PROVE  OutcomeInv'
  <2>1. EndIsTrue(un)
    BY <1>0, <1>4 DEF Leaves, Tells, EndIsTrue
  <2>2. Tells(un, seen[c], final[c], "closed", to)
    BY <1>0, <1>4, <2>1 DEF Leaves, Tells
  <2>3. "closed" \in Str!ConnPCs
    BY DEF Str!ConnPCs
  <2> QED
    BY <1>1, <1>2, <1>4, <2>2, <2>3
<1>5. ASSUME NEW e \in Str!EventType, NEW co \in Str!ConnPCs, NEW un \in SUBSET Str!EventType,
             NEW to \in Str!Outcomes, Sends(c, e, co, un, to),
             WatcherGoes(c, co, e.seq, un, seen[c] \cup {e}, final[c], to)
      PROVE  OutcomeInv'
  <2>1. conn[c] = "send" /\ e \in unsent[c] /\ un \subseteq unsent[c]
    <3>1. unsent[c] \in SUBSET Str!EventType /\ unsent[c] # {}
      BY <1>0, <1>5 DEF Sends, StreamTypes, Str!TypeOK
    <3>2. Str!First(unsent[c]) \in unsent[c]
      BY <3>1, FirstOf
    <3> QED
      BY <1>5, <3>2 DEF Sends
  <2>2. EndIsTrue(un) /\ (final[c] => operation \in Str!Terminal)
        /\ \A f \in seen[c] : f.name # "operation.failed"
    BY <1>0, <2>1 DEF Tells, EndIsTrue
  <2>3. Str!Announces(e.name) \in Str!Terminal => operation = Str!Announces(e.name)
    BY <1>0, <2>1 DEF Tells, EndIsTrue
  <2>4. to = Str!Reaction(c, e.name)
    BY <1>5 DEF Sends
  <2>5. /\ to = "watching" => e.name # "operation.failed"
        /\ to \in {"published", "failed"} => operation = to
        /\ to \in {"watching", "published", "failed"}
    BY <2>3, <2>4 DEF Str!Reaction, Str!Announces, Str!Terminal
  <2>6. co # "ended" /\ (co # "closed" => to = "watching")
    BY <1>5 DEF Sends
  <2>7. Tells(un, seen[c] \cup {e}, final[c], co, to)
    BY <2>2, <2>5, <2>6 DEF Tells
  <2>8. e.seq \in Nat /\ seen[c] \cup {e} \in SUBSET Str!EventType
    BY <1>1 DEF Str!EventType
  <2> QED
    BY <1>1, <1>2, <1>5, <2>7, <2>8
<1> QED
  BY <1>0, <1>3, <1>4, <1>5 DEF WatcherSteps

LEMMA StreamInit == Str!Init => OutcomeInv
<1> SUFFICES ASSUME Str!Init PROVE OutcomeInv
  OBVIOUS
<1>1. StreamTypes
  <2>1. /\ events \subseteq Str!EventType /\ operation \in Str!States
        /\ expired \in Nat /\ top \in Nat /\ date \in Nat
        /\ pruned \subseteq Nat /\ restarted \in BOOLEAN
    <3>1. \A e \in events : e \in Str!EventType
      BY DEF Str!Init, Str!EventType, Str!EventNames
    <3>2. operation \in Str!States /\ pruned \subseteq Nat
      BY DEF Str!Init, Str!States
    <3>3. expired \in Nat /\ top \in Nat /\ date \in Nat /\ restarted \in BOOLEAN
      BY DEF Str!Init
    <3> QED
      BY <3>1, <3>2, <3>3
  <2>2. prune \in [Pruners -> [pc : {"idle", "write"}, before : Int, read : Nat, to : Nat]]
    <3>1. Str!Idle \in [pc : {"idle", "write"}, before : Int, read : Nat, to : Nat]
      BY DEF Str!Idle
    <3> QED
      BY <3>1 DEF Str!Init
  <2> QED
    BY <2>1, <2>2, StreamConstants DEF Str!Init, StreamTypes, Str!TypeOK, Str!ConnPCs, Str!Outcomes
<1>2. EndIsTrue(events)
  BY DEF Str!Init, EndIsTrue, Str!Announces, Str!Terminal
<1>3. WatchersAreTold
  BY DEF Str!Init, WatchersAreTold, Tells, EndIsTrue
<1> QED
  BY <1>1, <1>2, <1>3 DEF OutcomeInv

LEMMA OutcomeKeeps == OutcomeInv /\ [Str!Next]_(Str!vars) => OutcomeInv'
<1> SUFFICES ASSUME OutcomeInv, [Str!Next]_(Str!vars) PROVE OutcomeInv'
  OBVIOUS
<1>1. CASE UNCHANGED Str!vars
  BY <1>1 DEF Str!vars, Str!tableVars, Str!watchVars, OutcomeInv, StreamTypes, Str!TypeOK, EndIsTrue, WatchersAreTold, Tells
<1> QED
  BY <1>1, TableTells, WatcherTells DEF Str!Next

LEMMA StreamMoves ==
    /\ PartsNext => [Str!Next]_(Str!vars)
    /\ UNCHANGED <<part, vars, catalog, sharing, machine, stream>> => UNCHANGED Str!vars
<1>1. PartsNext => [Str!Next]_(Str!vars)
  BY DEF PartsNext, SnapshotStep, ProgressStep, CatalogStep, SharingStep, MachineStep, StreamStep,
         stream, Str!vars, Str!tableVars, Str!watchVars
<1>2. UNCHANGED <<part, vars, catalog, sharing, machine, stream>> => UNCHANGED Str!vars
  BY DEF stream, Str!vars, Str!tableVars, Str!watchVars
<1> QED
  BY <1>1, <1>2

\* Whoever watches a publication is told no outcome but its own, however the statements of
\* the stream fall among the events, their pruning and the breaks of the connection.
THEOREM OutcomeSafety == PartsSpec => []OutcomeIsTrue
<1>1. PartsInit => OutcomeInv
  BY StreamInit DEF PartsInit
<1>2. OutcomeInv => OutcomeIsTrue
  BY DEF OutcomeInv, WatchersAreTold, Tells, OutcomeIsTrue, Str!OutcomeIsTrue
<1> QED
  BY <1>1, <1>2, StreamMoves, OutcomeKeeps, PTL DEF PartsSpec

\* Events are numbered in the order of their age, each number is that of one event, what is
\* missing was pruned, and the newest is pruned last.
HistoryIsInOrder ==
    /\ top >= 1
    /\ \A e \in events : e.at <= date
    /\ \A e, f \in events : /\ e.seq = f.seq => e = f
                            /\ e.seq < f.seq => e.at <= f.at
    /\ \A n \in 1..top : n \in Str!SeqsOf(events) \/ n \in pruned
    /\ ~restarted /\ events # {} => \E e \in events : e.seq = top

\* What a watcher has and is about to get leaves out pruned events only.
Gets(un, se, co, cu) ==
    /\ cu <= top
    /\ \A e \in se : e.seq <= cu
    /\ \A n \in 1..cu : n \in Str!SeqsOf(se) \/ n \in pruned
    /\ co \notin {"state", "send"} => un = {}
    /\ \A e \in un : cu < e.seq /\ e.seq <= top
    /\ \A e, f \in un : e.seq = f.seq => e = f
    /\ \A e \in un : \A n \in 1..e.seq : n \in Str!SeqsOf(un) \/ n <= cu \/ n \in pruned

\* While the numbers have not begun again, it has all that is kept and lies behind it, and
\* is about to get all that lies before its next event.
GetsAll(un, se, cu) ==
    /\ \A e \in events : e.seq <= cu => e \in se
    /\ \A e \in events, f \in un : cu < e.seq /\ e.seq <= f.seq => e \in un

WatchersGet ==
    \A c \in Watchers : /\ Gets(unsent[c], seen[c], conn[c], cursor[c])
                        /\ ~restarted => GetsAll(unsent[c], seen[c], cursor[c])

DeliveryInv == StreamTypes /\ HistoryIsInOrder /\ WatchersGet

LEMMA HistoryTypes ==
    ASSUME StreamTypes
    PROVE  /\ top \in Nat /\ date \in Nat /\ pruned \subseteq Nat /\ restarted \in BOOLEAN
           /\ \A e \in events : e.seq \in Nat /\ e.at \in Nat /\ e.seq <= top
           /\ \A p \in Pruners : prune[p].before \in Int
BY DEF StreamTypes, Str!TypeOK, Str!EventType

LEMMA WatcherHas ==
    ASSUME StreamTypes, NEW c \in Watchers
    PROVE  /\ cursor[c] \in Nat /\ final[c] \in BOOLEAN /\ told[c] \in Str!Outcomes
           /\ unsent[c] \in SUBSET Str!EventType /\ seen[c] \in SUBSET Str!EventType
           /\ \A e \in unsent[c] \cup seen[c] : e.seq \in Nat
BY DEF StreamTypes, Str!TypeOK, Str!EventType

\* Pruning and new events leave a watcher what it has: a new event lies before it.
LEMMA GetsStays ==
    ASSUME StreamTypes, StreamTypes', WatchersGet, top <= top', pruned \subseteq pruned',
           UNCHANGED <<conn, cursor, unsent, seen>>,
           ~restarted' => ~restarted /\ \A e \in events' \ events : e.seq > top
    PROVE  WatchersGet'
<1> SUFFICES ASSUME NEW c \in Watchers
             PROVE  /\ Gets(unsent[c], seen[c], conn[c], cursor[c])'
                    /\ (~restarted => GetsAll(unsent[c], seen[c], cursor[c]))'
  BY DEF WatchersGet
<1>1. /\ Gets(unsent[c], seen[c], conn[c], cursor[c])
      /\ ~restarted => GetsAll(unsent[c], seen[c], cursor[c])
  BY DEF WatchersGet
<1>2. top \in Nat /\ top' \in Nat /\ \A e \in events' : e.seq \in Nat
  BY DEF StreamTypes, Str!TypeOK, Str!EventType
<1>3. cursor[c] \in Nat /\ \A e \in unsent[c] : e.seq \in Nat
  BY WatcherHas
<1>4. /\ cursor[c] <= top'
      /\ \A n \in 1..cursor[c] : n \in Str!SeqsOf(seen[c]) \/ n \in pruned'
      /\ \A e \in unsent[c] : cursor[c] < e.seq /\ e.seq <= top'
      /\ \A e \in unsent[c] : \A n \in 1..e.seq :
            n \in Str!SeqsOf(unsent[c]) \/ n <= cursor[c] \/ n \in pruned'
  BY <1>1, <1>2, <1>3 DEF Gets
<1>5. /\ Str!SeqsOf(unsent[c])' = Str!SeqsOf(unsent[c])
      /\ Str!SeqsOf(seen[c])' = Str!SeqsOf(seen[c])
  BY DEF Str!SeqsOf
<1>6. Gets(unsent[c], seen[c], conn[c], cursor[c])'
  BY <1>1, <1>4, <1>5 DEF Gets
<1>7. ASSUME ~restarted' PROVE GetsAll(unsent[c], seen[c], cursor[c])'
  <2>1. /\ GetsAll(unsent[c], seen[c], cursor[c])
        /\ cursor[c] <= top /\ \A f \in unsent[c] : f.seq <= top
        /\ \A e \in events' \ events : e.seq > top
    BY <1>1, <1>7 DEF Gets
  <2>2. \A e \in events' : e \in events \/ (~(e.seq <= cursor[c]) /\ \A f \in unsent[c] : ~(e.seq <= f.seq))
    BY <1>2, <1>3, <2>1
  <2> QED
    BY <2>1, <2>2 DEF GetsAll
<1> QED
  BY <1>6, <1>7

LEMMA AppendKeeps ==
    ASSUME DeliveryInv, NEW name \in Str!EventNames, Str!Append(name)
    PROVE  DeliveryInv'
<1> USE DEF DeliveryInv
<1>0. StreamTypes' /\ top <= top' /\ UNCHANGED <<conn, cursor, unsent, seen>>
  BY TableTypes
<1>1. PICK e \in Str!EventType, n \in Nat :
          /\ n = Str!NextSequence /\ e = Appended(name) /\ e.seq = n /\ e.at = date
          /\ events' = events \cup {e}
          /\ \A f \in events : f.seq < n
          /\ top' = (IF top <= n THEN n ELSE top)
          /\ restarted' = (restarted \/ events = {})
          /\ UNCHANGED <<pruned, date>>
  BY AppendStep
<1>2. /\ top \in Nat /\ date \in Nat
      /\ \A f \in events : f.seq \in Nat /\ f.at \in Nat /\ f.seq <= top
  BY HistoryTypes
<1>3. n <= top + 1 /\ (~restarted' => n = top + 1)
  <2>1. PICK h \in Nat : /\ h = Str!Highest(Str!SeqsOf(events)) /\ h <= top /\ n = h + 1
                         /\ \A f \in events : f.seq <= h
    BY <1>1, HistoryHasTop DEF Str!NextSequence
  <2>2. ASSUME ~restarted' PROVE h = top
    <3>1. PICK f \in events : f.seq = top
      BY <1>1, <2>2 DEF HistoryIsInOrder
    <3> QED
      BY <1>2, <2>1, <3>1
  <2> QED
    BY <1>2, <2>1, <2>2
<1>4. HistoryIsInOrder'
  <2>1. Str!SeqsOf(events)' = Str!SeqsOf(events) \cup {n}
    BY <1>1 DEF Str!SeqsOf
  <2>2. top' >= 1 /\ \A f \in events' : f.at <= date'
    BY <1>0, <1>1, <1>2 DEF HistoryIsInOrder
  <2>3. \A f, g \in events' : /\ f.seq = g.seq => f = g
                              /\ f.seq < g.seq => f.at <= g.at
    BY <1>1, <1>2 DEF HistoryIsInOrder
  <2>4. \A m \in 1..top' : m \in Str!SeqsOf(events)' \/ m \in pruned'
    <3> SUFFICES ASSUME NEW m \in 1..top' PROVE m \in Str!SeqsOf(events)' \/ m \in pruned'
      OBVIOUS
    <3>1. m = n \/ m \in 1..top
      BY <1>1, <1>2, <1>3
    <3> QED
      BY <1>1, <2>1, <3>1 DEF HistoryIsInOrder
  <2>5. ~restarted' => e \in events' /\ e.seq = top'
    BY <1>1, <1>2, <1>3
  <2> QED
    BY <2>2, <2>3, <2>4, <2>5 DEF HistoryIsInOrder
<1>5. WatchersGet'
  <2>1. ASSUME ~restarted' PROVE ~restarted /\ \A f \in events' \ events : f.seq > top
    <3>1. ~restarted
      BY <1>1, <2>1
    <3>2. n > top
      BY <1>2, <1>3, <2>1
    <3>3. \A f \in events' \ events : f.seq = n
      BY <1>1
    <3> QED
      BY <3>1, <3>2, <3>3
  <2> QED
    BY <1>0, <1>1, <2>1, GetsStays
<1> QED
  BY <1>0, <1>4, <1>5

LEMMA PruneReadKeeps ==
    ASSUME DeliveryInv, NEW p \in Pruners, Str!PruneRead(p)
    PROVE  DeliveryInv'
<1> USE DEF DeliveryInv
<1>0. StreamTypes' /\ top <= top' /\ UNCHANGED <<conn, cursor, unsent, seen>>
  BY TableTypes
<1>1. UNCHANGED <<events, top, pruned, restarted, date>>
  BY PruneReadStep
<1>2. HistoryIsInOrder'
  BY <1>1 DEF HistoryIsInOrder, Str!SeqsOf
<1>3. WatchersGet'
  BY <1>0, <1>1, GetsStays
<1> QED
  BY <1>0, <1>2, <1>3

\* Whichever worker prunes, and whatever it had read, it deletes the oldest events, and
\* so the newest one only with all the others.
LEMMA PruneWriteKeeps ==
    ASSUME DeliveryInv, NEW p \in Pruners, Str!PruneWrite(p)
    PROVE  DeliveryInv'
<1> USE DEF DeliveryInv
<1>0. StreamTypes' /\ top <= top' /\ UNCHANGED <<conn, cursor, unsent, seen>>
  BY TableTypes
<1>1. PICK before \in Int :
          /\ events' = {e \in events : ~(e.at < before)}
          /\ pruned' = pruned \cup Str!SeqsOf({e \in events : e.at < before})
          /\ UNCHANGED <<top, restarted, date>>
  BY HistoryTypes DEF Str!PruneWrite, Str!Old
<1>2. /\ top \in Nat /\ date \in Nat
      /\ \A f \in events : f.seq \in Nat /\ f.at \in Nat /\ f.seq <= top
  BY HistoryTypes
<1>3. HistoryIsInOrder'
  <2>1. \A n \in 1..top : n \in Str!SeqsOf(events)' \/ n \in pruned'
    <3> SUFFICES ASSUME NEW n \in 1..top PROVE n \in Str!SeqsOf(events)' \/ n \in pruned'
      OBVIOUS
    <3>1. CASE n \in pruned
      BY <1>1, <3>1
    <3>2. CASE n \in Str!SeqsOf(events)
      BY <1>1, <3>2 DEF Str!SeqsOf
    <3> QED
      BY <3>1, <3>2 DEF HistoryIsInOrder
  <2>2. ~restarted' /\ events' # {} => \E e \in events' : e.seq = top
    <3> SUFFICES ASSUME ~restarted, NEW f \in events' PROVE \E e \in events' : e.seq = top
      BY <1>1
    <3>1. PICK e \in events : e.seq = top
      BY <1>1 DEF HistoryIsInOrder
    <3>2. f \in events /\ f.at <= e.at
      BY <1>1, <1>2, <3>1 DEF HistoryIsInOrder
    <3> QED
      BY <1>1, <1>2, <3>1, <3>2
  <2>3. events' \subseteq events /\ top' = top /\ date' = date
    BY <1>1
  <2> QED
    BY <2>1, <2>2, <2>3 DEF HistoryIsInOrder
<1>4. WatchersGet'
  BY <1>0, <1>1, GetsStays
<1> QED
  BY <1>0, <1>3, <1>4

LEMMA TickKeeps ==
    ASSUME DeliveryInv, Str!Tick
    PROVE  DeliveryInv'
<1> USE DEF DeliveryInv
<1>0. StreamTypes' /\ top <= top' /\ UNCHANGED <<conn, cursor, unsent, seen>>
  BY TableTypes
<1>1. date' = date + 1 /\ UNCHANGED <<events, top, pruned, restarted>>
  BY DEF Str!Tick, Str!tableVars
<1>2. HistoryIsInOrder'
  <2>1. \A e \in events : e.at <= date'
    BY <1>1, HistoryTypes DEF HistoryIsInOrder
  <2> QED
    BY <1>1, <2>1 DEF HistoryIsInOrder, Str!SeqsOf
<1>3. WatchersGet'
  BY <1>0, <1>1, GetsStays
<1> QED
  BY <1>0, <1>2, <1>3

LEMMA WatcherGets ==
    ASSUME DeliveryInv, NEW c \in Watchers, Str!Serve(c) \/ Str!Watch(c) \/ Str!ResponseBreaks(c)
    PROVE  DeliveryInv'
<1>0. /\ StreamTypes /\ WatcherSteps(c) /\ HistoryIsInOrder
      /\ Gets(unsent[c], seen[c], conn[c], cursor[c])
      /\ ~restarted => GetsAll(unsent[c], seen[c], cursor[c])
  BY WatcherStep DEF DeliveryInv, WatchersGet
<1>1. /\ cursor[c] \in Nat /\ final[c] \in BOOLEAN /\ told[c] \in Str!Outcomes
      /\ unsent[c] \in SUBSET Str!EventType /\ seen[c] \in SUBSET Str!EventType
      /\ \A e \in unsent[c] : e.seq \in Nat
      /\ top \in Nat /\ \A e \in events : e.seq \in Nat /\ e.seq <= top
  BY <1>0, WatcherHas, HistoryTypes
<1>2. ASSUME NEW co \in Str!ConnPCs, NEW cu \in Nat, NEW un \in SUBSET Str!EventType,
             NEW se \in SUBSET Str!EventType, NEW fi \in BOOLEAN, NEW to \in Str!Outcomes,
             WatcherGoes(c, co, cu, un, se, fi, to), Gets(un, se, co, cu),
             ~restarted => GetsAll(un, se, cu)
      PROVE  DeliveryInv'
  <2>1. /\ StreamTypes'
        /\ conn'[c] = co /\ unsent'[c] = un /\ seen'[c] = se /\ cursor'[c] = cu
        /\ \A z \in Watchers \ {c} :
              /\ conn'[z] = conn[z] /\ unsent'[z] = unsent[z]
              /\ seen'[z] = seen[z] /\ cursor'[z] = cursor[z]
    BY <1>0, <1>2, WatcherTypes
  <2>2. UNCHANGED <<events, top, pruned, restarted, date>>
    BY <1>2 DEF WatcherGoes
  <2>3. \A z \in Watchers : /\ Gets(unsent'[z], seen'[z], conn'[z], cursor'[z])
                            /\ ~restarted => GetsAll(unsent'[z], seen'[z], cursor'[z])
    BY <1>2, <2>1 DEF DeliveryInv, WatchersGet
  <2>4. WatchersGet'
    BY <2>2, <2>3 DEF WatchersGet, Gets, GetsAll, Str!SeqsOf
  <2>5. HistoryIsInOrder'
    BY <2>2 DEF DeliveryInv, HistoryIsInOrder, Str!SeqsOf
  <2> QED
    BY <2>1, <2>4, <2>5 DEF DeliveryInv
<1>3. ASSUME NEW co \in Str!ConnPCs, NEW un \in SUBSET Str!EventType, NEW fi \in BOOLEAN,
             Looks(c, co, un, fi),
             WatcherGoes(c, co, cursor[c], un, seen[c], fi, told[c])
      PROVE  DeliveryInv'
  <2>1. CASE un = unsent[c] /\ (co \notin {"state", "send"} => un = {})
    <3>1. Gets(un, seen[c], co, cursor[c])
      BY <1>0, <2>1 DEF Gets
    <3>2. ~restarted => GetsAll(un, seen[c], cursor[c])
      BY <1>0, <2>1 DEF GetsAll
    <3> QED
      BY <1>1, <1>2, <1>3, <3>1, <3>2
  <2>2. CASE un = Str!After(cursor[c]) /\ co = "state"
    <3>1. un = {e \in events : e.seq > cursor[c]}
      BY <2>2 DEF Str!After
    <3>2. \A e \in un : cursor[c] < e.seq /\ e.seq <= top
      BY <1>1, <3>1
    <3>3. \A e, f \in un : e.seq = f.seq => e = f
      BY <1>0, <3>1 DEF HistoryIsInOrder
    <3>4. ASSUME NEW e \in un, NEW n \in 1..e.seq
          PROVE  n \in Str!SeqsOf(un) \/ n <= cursor[c] \/ n \in pruned
      <4>1. n \in 1..top
        BY <1>1, <3>1, <3>2
      <4>2. CASE n \in Str!SeqsOf(events) /\ ~(n <= cursor[c])
        <5>1. PICK f \in events : f.seq = n
          BY <4>2 DEF Str!SeqsOf
        <5>2. f \in un
          BY <1>1, <3>1, <4>1, <4>2, <5>1
        <5> QED
          BY <5>1, <5>2 DEF Str!SeqsOf
      <4> QED
        BY <1>0, <4>1, <4>2 DEF HistoryIsInOrder
    <3>5. Gets(un, seen[c], co, cursor[c])
      BY <1>0, <2>2, <3>2, <3>3, <3>4 DEF Gets
    <3>6. ~restarted => GetsAll(un, seen[c], cursor[c])
      BY <1>0, <1>1, <3>1 DEF GetsAll
    <3> QED
      BY <1>1, <1>2, <1>3, <3>5, <3>6
  <2> QED
    BY <1>0, <1>3, <2>1, <2>2 DEF Looks, Gets
<1>4. ASSUME NEW un \in SUBSET Str!EventType, NEW to \in Str!Outcomes, Leaves(c, un, to),
             WatcherGoes(c, "closed", cursor[c], un, seen[c], final[c], to)
      PROVE  DeliveryInv'
  <2>1. un = {}
    BY <1>0, <1>4 DEF Leaves, Gets
  <2>2. Gets(un, seen[c], "closed", cursor[c])
    BY <1>0, <2>1 DEF Gets
  <2>3. "closed" \in Str!ConnPCs
    BY DEF Str!ConnPCs
  <2>4. ~restarted => GetsAll(un, seen[c], cursor[c])
    BY <1>0, <2>1 DEF GetsAll
  <2> QED
    BY <1>1, <1>2, <1>4, <2>2, <2>3, <2>4
<1>5. ASSUME NEW e \in Str!EventType, NEW co \in Str!ConnPCs, NEW un \in SUBSET Str!EventType,
             NEW to \in Str!Outcomes, Sends(c, e, co, un, to),
             WatcherGoes(c, co, e.seq, un, seen[c] \cup {e}, final[c], to)
      PROVE  DeliveryInv'
  <2>1. e \in unsent[c] /\ \A f \in unsent[c] : e.seq <= f.seq
    <3>1. unsent[c] # {} /\ e = Str!First(unsent[c])
      BY <1>5 DEF Sends
    <3> QED
      BY <1>1, <3>1, FirstOf
  <2>2. (un = unsent[c] \ {e} /\ co = "send") \/ un = {}
    BY <1>5 DEF Sends
  <2>3. cursor[c] < e.seq /\ e.seq <= top /\ e.seq \in Nat
    BY <1>0, <1>1, <2>1 DEF Gets
  <2>4. \A f \in seen[c] \cup {e} : f.seq <= e.seq
    <3>1. \A f \in seen[c] : f.seq \in Nat /\ f.seq <= cursor[c]
      BY <1>0, <1>1 DEF Gets, Str!EventType
    <3> QED
      BY <1>1, <2>3, <3>1
  <2>5. ASSUME NEW n \in 1..e.seq PROVE n \in Str!SeqsOf(seen[c] \cup {e}) \/ n \in pruned
    <3>1. CASE n <= cursor[c]
      <4>1. n \in 1..cursor[c]
        BY <1>1, <3>1
      <4>2. n \in Str!SeqsOf(seen[c]) \/ n \in pruned
        BY <1>0, <4>1 DEF Gets
      <4> QED
        BY <4>2 DEF Str!SeqsOf
    <3>2. CASE n \in Str!SeqsOf(unsent[c])
      <4>1. PICK f \in unsent[c] : f.seq = n
        BY <3>2 DEF Str!SeqsOf
      <4>2. n = e.seq
        BY <1>1, <2>1, <4>1
      <4> QED
        BY <4>2 DEF Str!SeqsOf
    <3> QED
      BY <1>0, <2>1, <3>1, <3>2 DEF Gets
  <2>6. \A f \in un : e.seq < f.seq /\ f.seq <= top
    <3> SUFFICES ASSUME NEW f \in un PROVE e.seq < f.seq /\ f.seq <= top
      OBVIOUS
    <3>1. f \in unsent[c] /\ f # e
      BY <2>2
    <3>2. f.seq # e.seq /\ e.seq <= f.seq /\ f.seq <= top
      BY <1>0, <2>1, <3>1 DEF Gets
    <3> QED
      BY <1>1, <2>1, <3>1, <3>2
  <2>7. ASSUME NEW f \in un, NEW n \in 1..f.seq
        PROVE  n \in Str!SeqsOf(un) \/ n <= e.seq \/ n \in pruned
    <3>1. f \in unsent[c] /\ un = unsent[c] \ {e}
      BY <2>2
    <3>2. CASE n \in Str!SeqsOf(unsent[c])
      <4>1. PICK g \in unsent[c] : g.seq = n
        BY <3>2 DEF Str!SeqsOf
      <4>2. g \in un \/ n <= e.seq
        BY <1>1, <2>1, <3>1, <4>1
      <4> QED
        BY <4>1, <4>2 DEF Str!SeqsOf
    <3>3. CASE n <= cursor[c]
      BY <1>1, <2>3, <3>3
    <3> QED
      BY <1>0, <3>1, <3>2, <3>3 DEF Gets
  <2>8. /\ co \notin {"state", "send"} => un = {}
        /\ \A f, g \in un : f.seq = g.seq => f = g
    <3>1. \A f \in un : f \in unsent[c]
      BY <2>2
    <3> QED
      BY <1>0, <2>2, <3>1 DEF Gets
  <2>9. Gets(un, seen[c] \cup {e}, co, e.seq)
    BY <2>3, <2>4, <2>5, <2>6, <2>7, <2>8 DEF Gets
  <2>10. e.seq \in Nat /\ seen[c] \cup {e} \in SUBSET Str!EventType
    BY <1>1, <2>3
  <2>11. ASSUME ~restarted PROVE GetsAll(un, seen[c] \cup {e}, e.seq)
    <3>1. GetsAll(unsent[c], seen[c], cursor[c])
      BY <1>0, <2>11
    <3>2. ASSUME NEW g \in events, g.seq <= e.seq PROVE g \in seen[c] \cup {e}
      <4>1. CASE g.seq <= cursor[c]
        BY <3>1, <4>1 DEF GetsAll
      <4>2. CASE cursor[c] < g.seq
        <5>1. g \in unsent[c]
          BY <2>1, <3>1, <3>2, <4>2 DEF GetsAll
        <5>2. g.seq = e.seq
          BY <1>1, <2>1, <3>2, <5>1
        <5> QED
          BY <1>0, <2>1, <5>1, <5>2 DEF Gets
      <4> QED
        BY <1>1, <4>1, <4>2
    <3>3. ASSUME NEW g \in events, NEW f \in un, e.seq < g.seq, g.seq <= f.seq PROVE g \in un
      <4>1. f \in unsent[c] /\ un = unsent[c] \ {e}
        BY <2>2
      <4>2. g \in unsent[c]
        BY <1>1, <2>3, <3>1, <3>3, <4>1 DEF GetsAll
      <4> QED
        BY <2>3, <3>3, <4>1, <4>2
    <3> QED
      BY <3>2, <3>3 DEF GetsAll
  <2> QED
    BY <1>1, <1>2, <1>5, <2>9, <2>10, <2>11
<1> QED
  BY <1>0, <1>3, <1>4, <1>5 DEF WatcherSteps

LEMMA DeliveryInit == Str!Init => DeliveryInv
<1> SUFFICES ASSUME Str!Init PROVE DeliveryInv
  OBVIOUS
<1>1. StreamTypes
  BY StreamInit DEF OutcomeInv
<1>2. /\ events = {[seq |-> 1, name |-> "operation.queued", at |-> 0]}
      /\ top = 1 /\ date = 0
  BY DEF Str!Init
<1>3. HistoryIsInOrder
  <2>1. \A n \in 1..1 : n \in Str!SeqsOf(events)
    BY <1>2 DEF Str!SeqsOf
  <2> QED
    BY <1>2, <2>1 DEF HistoryIsInOrder
<1>4. WatchersGet
  BY <1>2 DEF Str!Init, WatchersGet, Gets, GetsAll
<1> QED
  BY <1>1, <1>3, <1>4 DEF DeliveryInv

LEMMA DeliveryKeeps == DeliveryInv /\ [Str!Next]_(Str!vars) => DeliveryInv'
<1> SUFFICES ASSUME DeliveryInv, [Str!Next]_(Str!vars) PROVE DeliveryInv'
  OBVIOUS
<1>1. ASSUME NEW p \in Pruners, Str!PruneRead(p) \/ Str!PruneWrite(p) PROVE DeliveryInv'
  BY <1>1, PruneReadKeeps, PruneWriteKeeps
<1>2. CASE UNCHANGED Str!vars
  <2> USE DEF Str!vars, Str!tableVars, Str!watchVars, DeliveryInv
  <2>1. StreamTypes'
    BY <1>2 DEF StreamTypes, Str!TypeOK
  <2>2. HistoryIsInOrder'
    BY <1>2 DEF HistoryIsInOrder, Str!SeqsOf
  <2>3. WatchersGet'
    BY <1>2 DEF WatchersGet, Gets, GetsAll, Str!SeqsOf
  <2> QED
    BY <2>1, <2>2, <2>3
<1> QED
  BY <1>1, <1>2, AppendKeeps, TickKeeps, WatcherGets DEF Str!Next

\* Every watcher gets the events in order, misses only what was pruned, and has all that
\* is kept behind its place unless the numbers began again: for any number of watchers, of
\* workers that prune at once, of events and of days.
THEOREM DeliverySafety == PartsSpec => []DeliveredInOrder
<1>1. PartsInit => DeliveryInv
  BY DeliveryInit DEF PartsInit
<1>2. DeliveryInv => DeliveredInOrder
  <2> SUFFICES ASSUME DeliveryInv PROVE DeliveredInOrder
    OBVIOUS
  <2>1. /\ Str!TypeOK
        /\ \A c \in Watchers : /\ Gets(unsent[c], seen[c], conn[c], cursor[c])
                               /\ ~restarted => GetsAll(unsent[c], seen[c], cursor[c])
    BY DEF DeliveryInv, StreamTypes, WatchersGet
  <2>2. \A c \in Watchers : cursor[c] \in Nat /\ \A e \in unsent[c] : e.seq \in Nat
    BY WatcherHas DEF DeliveryInv
  <2> QED
    BY <2>1, <2>2 DEF DeliveredInOrder, Str!DeliveredInOrder, Gets, GetsAll
<1>3. DeliveryInv /\ [Str!Next]_(Str!vars) => DeliveryInv'
  BY DeliveryKeeps
<1> QED
  BY <1>1, <1>2, <1>3, StreamMoves, PTL DEF PartsSpec
=============================================================================
