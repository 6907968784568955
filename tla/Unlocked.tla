------------------------------ MODULE Unlocked ------------------------------
(***************************************************************************)
(* The modules whose requests check first and commit later, or read in     *)
(* several statements, without a lock, composed: Tracking, Catalog,        *)
(* Sharing, Credentials and PublicationStream share no variable, so a      *)
(* state of their composition is one state of each, and each may be        *)
(* explored while the others rest. "part" says which one moves. Tracking   *)
(* counts twice, with its readers and with its viewers: neither of them    *)
(* writes what the other reads.                                            *)
(***************************************************************************)
EXTENDS Tracking, FiniteSets

CONSTANTS Editors, Names, MaxVersions,                \* Catalog
          Sharers, MaxGrants, MaxUses, MaxClock,      \* Sharing
          AccessLife, KeyLife, LoggingLife, LastClock, \* Credentials
          Watchers, Pruners, Retention, Idles, MaxEvents, LastDate \* PublicationStream

ASSUME CatalogConstants == MaxVersions \in Nat
ASSUME SharingConstants ==
    IsFiniteSet(Sharers) /\ MaxGrants \in Nat /\ MaxUses \in Nat /\ MaxClock \in Nat
ASSUME CredentialConstants ==
    /\ AccessLife \in Nat \ {0} /\ KeyLife \in Nat /\ LoggingLife \in Nat
    /\ LastClock \in Nat
ASSUME StreamConstants ==
    /\ Retention \in Nat \ {0} /\ Idles \in BOOLEAN
    /\ MaxEvents \in Nat /\ LastDate \in Nat

VARIABLES part,
          artifact, version, alias, edit, raced,
          grant, use, consumer, request, clock,
          credential, member, started, token, scoped, logging, keys, issue, time,
          removed, disabled, ended,
          events, operation, expired, top, pruned, restarted, prune,
          client, conn, cursor, unsent, final, seen, told, date

Cat == INSTANCE Catalog WITH Requests <- Editors, request <- edit
Sha == INSTANCE Sharing WITH Requests <- Sharers, run <- consumer
Cre == INSTANCE Credentials WITH run <- started, request <- issue, clock <- time,
                                 MaxClock <- LastClock
Str == INSTANCE PublicationStream WITH state <- operation, batch <- unsent, clock <- date,
                                       MaxClock <- LastDate

catalog == <<artifact, version, alias, edit, raced>>
sharing == <<grant, use, consumer, request, clock>>
machine == <<credential, member, started, token, scoped, logging, keys, issue, time,
             removed, disabled, ended>>
stream == <<events, operation, expired, top, pruned, restarted, prune, client, conn, cursor,
            unsent, final, seen, told, date>>

PartsInit ==
    /\ part \in {"snapshot", "progress", "catalog", "sharing", "machine", "stream"}
    /\ Init /\ Cat!Init /\ Sha!Init /\ Cre!Init /\ Str!Init
    /\ part = "stream" \/ client \in [Watchers -> {"page"}]  \* the same to the others

SnapshotStep ==
    part = "snapshot" /\ Next /\ UNCHANGED <<viewer, part, catalog, sharing, machine, stream>>
ProgressStep ==
    part = "progress" /\ Next /\ UNCHANGED <<reader, part, catalog, sharing, machine, stream>>
CatalogStep ==
    part = "catalog" /\ Cat!Next /\ UNCHANGED <<part, vars, sharing, machine, stream>>
SharingStep ==
    part = "sharing" /\ Sha!Next /\ UNCHANGED <<part, vars, catalog, machine, stream>>
MachineStep ==
    part = "machine" /\ Cre!Next /\ UNCHANGED <<part, vars, catalog, sharing, stream>>
StreamStep ==
    part = "stream" /\ Str!Next /\ UNCHANGED <<part, vars, catalog, sharing, machine>>

PartsNext ==
    SnapshotStep \/ ProgressStep \/ CatalogStep \/ SharingStep \/ MachineStep \/ StreamStep

PartsSpec == PartsInit /\ [][PartsNext]_<<part, vars, catalog, sharing, machine, stream>>

\* Stated and explained in their modules.
AliasesResolve == Cat!AliasesResolve
UseIsCovered == Sha!UseIsCovered
CredentialsRunOut == Cre!CredentialsRunOut
DeliveredInOrder == Str!DeliveredInOrder
OutcomeIsTrue == Str!OutcomeIsTrue
=============================================================================
