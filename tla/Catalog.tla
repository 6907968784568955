------------------------------ MODULE Catalog ------------------------------
(***************************************************************************)
(* One Artifact of the catalog: its versions, the aliases that point to    *)
(* them and the archiving of both, with the requests of Maintainers and    *)
(* the MLflow model registry as a reader.  Every request checks first and  *)
(* writes when it commits, without a lock in between, and several run at   *)
(* once; a listing takes a statement for the Artifact, one for its         *)
(* versions and one for its aliases.                                       *)
(***************************************************************************)
EXTENDS Naturals, Sequences

CONSTANTS Requests,    \* as many as run at once
          Names,       \* of aliases
          MaxVersions  \* bound: versions published

None == "none"

VARIABLES artifact,  \* its row, of kind None when there is none
          version,   \* rows of artifact_versions, by sequence: archived or not
          alias,     \* the version each name points to, 0 without a row
          request,
          raced      \* for the property: the versions whose archiving and aliasing overlapped

vars == <<artifact, version, alias, request, raced>>

Versions == DOMAIN version

ArtifactType == [kind : {None, "model", "generic"}, archived : BOOLEAN]
AliasType == [Names -> 0..MaxVersions]
RequestType == [op : {None, "create", "update", "set", "delete", "archive", "archiveArtifact",
                      "versions", "aliases", "listed"},
                kind : {None, "model", "generic"},
                version : 0..MaxVersions, name : Names \cup {None},
                found : BOOLEAN,                 \* the request saw a row of the alias
                read : SUBSET (1..MaxVersions),  \* the listing's versions,
                upto : 0..MaxVersions,           \* how many there were then,
                aliases : AliasType]             \* and its aliases

NoAliases == [n \in Names |-> 0]
Idle == [op |-> None, kind |-> None, version |-> 0, name |-> None, found |-> FALSE,
         read |-> {}, upto |-> 0, aliases |-> NoAliases]

Init ==
    /\ artifact = [kind |-> None, archived |-> FALSE]
    /\ version = <<>>
    /\ alias = NoAliases
    /\ request = [r \in Requests |-> Idle]
    /\ raced = {}

Exists == artifact.kind # None

\* What a request that passed its checks goes on with.
Admit(r, value) ==
    /\ request[r] = Idle
    /\ request' = [request EXCEPT ![r] = value]
    /\ UNCHANGED <<artifact, version, alias, raced>>

Finished(r) == request' = [request EXCEPT ![r] = Idle]

-----------------------------------------------------------------------------
(* The Artifact and its versions                                           *)

Create(r, k) ==
    /\ ~Exists
    /\ Admit(r, [Idle EXCEPT !.op = "create", !.kind = k])

\* The name is unique in its project: a second insert fails.
CommitCreate(r) ==
    /\ request[r].op = "create"
    /\ artifact' = IF Exists THEN artifact
                   ELSE [kind |-> request[r].kind, archived |-> FALSE]
    /\ Finished(r)
    /\ UNCHANGED <<version, alias, raced>>

Update(r, k) ==
    /\ Exists
    /\ Admit(r, [Idle EXCEPT !.op = "update", !.kind = k])

CommitUpdate(r) ==
    /\ request[r].op = "update"
    /\ artifact' = [artifact EXCEPT !.kind = request[r].kind]
    /\ Finished(r)
    /\ UNCHANGED <<version, alias, raced>>

\* A publication ends (see Publications): archived Artifacts get versions like any other.
Publish ==
    /\ Exists
    /\ Len(version) < MaxVersions
    /\ version' = Append(version, [archived |-> FALSE])
    /\ UNCHANGED <<artifact, alias, request, raced>>

-----------------------------------------------------------------------------
(* Aliases. X_Something is X with a plausible bug: no action uses it, it   *)
(* shows that the property notices the bug.                                *)

Pending(op, v) == \E r \in Requests : request[r].op = op /\ request[r].version = v

\* Every version that exists was verified and its bytes stay available. Nobody asks
\* whether the Artifact is archived.
Targetable(v) == v \in Versions /\ ~version[v].archived

SetAlias(r, n, v) ==
    /\ Targetable(v)
    /\ Admit(r, [Idle EXCEPT !.op = "set", !.name = n, !.version = v, !.found = alias[n] # 0])

\* An insert fails when the row exists by now, an update when it is gone.
Written(q) == IF q.found = (alias[q.name] # 0) THEN [alias EXCEPT ![q.name] = q.version]
              ELSE alias

CommitAlias(r) ==
    /\ request[r].op = "set"
    /\ alias' = Written(request[r])
    /\ raced' = IF Pending("archive", request[r].version)
                THEN raced \cup {request[r].version} ELSE raced
    /\ Finished(r)
    /\ UNCHANGED <<artifact, version>>

DeleteAlias(r, n) ==
    /\ alias[n] # 0
    /\ Admit(r, [Idle EXCEPT !.op = "delete", !.name = n])

CommitDelete(r) ==
    /\ request[r].op = "delete"
    /\ alias' = [alias EXCEPT ![request[r].name] = 0]
    /\ Finished(r)
    /\ UNCHANGED <<artifact, version, raced>>

-----------------------------------------------------------------------------
(* Archiving                                                               *)

Unaliased_Latest(v) == v < Len(version)
Unaliased(v) == \A n \in Names : alias[n] # v

ArchiveVersion(r, v) ==
    /\ v \in Versions
    /\ Unaliased(v)
    /\ Admit(r, [Idle EXCEPT !.op = "archive", !.version = v])

CommitArchiveVersion(r) ==
    /\ request[r].op = "archive"
    /\ version' = [version EXCEPT ![request[r].version].archived = TRUE]
    /\ raced' = IF Pending("set", request[r].version)
                THEN raced \cup {request[r].version} ELSE raced
    /\ Finished(r)
    /\ UNCHANGED <<artifact, alias>>

ArchiveArtifact(r) ==
    /\ Exists
    /\ alias = NoAliases
    /\ Admit(r, [Idle EXCEPT !.op = "archiveArtifact"])

CommitArchiveArtifact(r) ==
    /\ request[r].op = "archiveArtifact"
    /\ artifact' = [artifact EXCEPT !.archived = TRUE]
    /\ Finished(r)
    /\ UNCHANGED <<version, alias, raced>>

-----------------------------------------------------------------------------
(* A listing of the registry                                               *)

ListArtifacts(r) ==
    /\ Exists /\ ~artifact.archived
    /\ Admit(r, [Idle EXCEPT !.op = "versions", !.kind = artifact.kind])

Unarchived == {v \in Versions : ~version[v].archived}

ListVersions(r) ==
    /\ request[r].op = "versions"
    /\ request' = [request EXCEPT ![r].op = "aliases", ![r].read = Unarchived,
                                  ![r].upto = Len(version)]
    /\ UNCHANGED <<artifact, version, alias, raced>>

ListAliases(r) ==
    /\ request[r].op = "aliases"
    /\ request' = [request EXCEPT ![r].op = "listed", ![r].aliases = alias]
    /\ UNCHANGED <<artifact, version, alias, raced>>

\* The plugin looks for the version of every alias of a model: the whole listing fails
\* when one is not there.
Unresolved(q) == IF q.kind # "model" THEN {}
                 ELSE {q.aliases[n] : n \in Names} \ ({0} \cup q.read)

Answer(r) ==
    /\ request[r].op = "listed"
    /\ Finished(r)
    /\ UNCHANGED <<artifact, version, alias, raced>>

-----------------------------------------------------------------------------
Begin(r) ==
    \/ \E k \in {"model", "generic"} : Create(r, k) \/ Update(r, k)
    \/ \E n \in Names, v \in 1..MaxVersions : SetAlias(r, n, v)
    \/ \E n \in Names : DeleteAlias(r, n)
    \/ \E v \in 1..MaxVersions : ArchiveVersion(r, v)
    \/ ArchiveArtifact(r)
    \/ ListArtifacts(r)

Commit(r) ==
    \/ CommitCreate(r) \/ CommitUpdate(r)
    \/ CommitAlias(r) \/ CommitDelete(r)
    \/ CommitArchiveVersion(r) \/ CommitArchiveArtifact(r)

Read(r) == ListVersions(r) \/ ListAliases(r) \/ Answer(r)

Next == Publish \/ \E r \in Requests : Begin(r) \/ Commit(r) \/ Read(r)

Spec == Init /\ [][Next]_vars

-----------------------------------------------------------------------------
TypeOK ==
    /\ artifact \in ArtifactType
    /\ \A v \in Versions : v <= MaxVersions /\ version[v].archived \in BOOLEAN
    /\ alias \in AliasType
    /\ request \in [Requests -> RequestType]
    /\ raced \subseteq Versions

\* An alias never points to an archived version, and a listing finds the version of every
\* alias it read, unless that version was archived and aliased by requests that
\* overlapped, or published after the listing had read the versions (archive_version and
\* set_alias each refuse what the other wrote, but neither locks what it checked).
AliasesResolve ==
    /\ TypeOK
    /\ \A n \in Names : alias[n] \in Versions => alias[n] \in Unarchived \cup raced
    /\ \A r \in Requests : request[r].op = "listed" =>
           \A v \in Unresolved(request[r]) : v \in raced \/ v > request[r].upto
=============================================================================
