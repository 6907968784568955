---------------------------- MODULE Credentials ----------------------------
(***************************************************************************)
(* What a machine that works for a project can do with its credential.     *)
(* The credential gives a platform token, which starts Runs and is         *)
(* exchanged for a token of one audience; the DVC token buys temporary S3  *)
(* keys; a Run comes with a logging token, which every heartbeat renews.   *)
(* None of these is stored: each stays valid until it expires, whatever    *)
(* becomes of what it was made from.                                       *)
(*                                                                         *)
(* A request takes less than a tick of the clock, so it ends in the tick   *)
(* it began in or in the next one.                                         *)
(***************************************************************************)
EXTENDS Naturals

CONSTANTS AccessLife,   \* of platform and exchanged tokens: 20 minutes
          KeyLife,      \* of S3 keys: 15 minutes
          LoggingLife,  \* of logging tokens: run_logging_token_hours
          MaxClock      \* bound: the clock

None == "none"
Never == MaxClock + 1

VARIABLES credential,  \* its machine_credentials row
          member,      \* the project membership of its principal
          run,         \* the Run the machine started
          token, scoped, logging, keys,  \* when the latest of each kind expires
          request,     \* a request for S3 keys: the time of its checks
          clock,
          removed, disabled, ended  \* for the property: when the member was removed, the
                                    \* credential revoked, the Run over

issued == <<token, scoped, logging, keys>>
history == <<removed, disabled, ended>>
vars == <<credential, member, run, issued, request, clock, history>>

Times == 0..Never

Init ==
    /\ credential = None /\ member = FALSE /\ run = None
    /\ token = 0 /\ scoped = 0 /\ logging = 0 /\ keys = 0
    /\ request = Never
    /\ clock = 0
    /\ removed = Never /\ disabled = Never /\ ended = Never

Valid(expires) == expires > clock

\* With its principal and the principal's membership.
CreateCredential ==
    /\ credential = None
    /\ credential' = "active" /\ member' = TRUE
    /\ UNCHANGED <<run, issued, request, clock, history>>

\* The principal stays a member.
RevokeCredential ==
    /\ credential = "active"
    /\ credential' = "revoked"
    /\ disabled' = clock
    /\ UNCHANGED <<member, run, issued, request, clock, removed, ended>>

RemoveMember ==
    /\ member
    /\ member' = FALSE
    /\ removed' = clock
    /\ UNCHANGED <<credential, run, issued, request, clock, disabled, ended>>

Authenticates == credential = "active" /\ member

Login ==
    /\ Authenticates
    /\ token' = clock + AccessLife
    /\ UNCHANGED <<credential, member, run, scoped, logging, keys, request, clock, history>>

\* Only platform tokens are exchanged. X_Something is X with a plausible bug: no action
\* uses it, it shows that the property notices the bug.
Exchangeable_Any == member /\ (Valid(token) \/ Valid(scoped))
Exchangeable == member /\ Valid(token)

Exchange ==
    /\ Exchangeable
    /\ scoped' = clock + AccessLife
    /\ UNCHANGED <<credential, member, run, token, logging, keys, request, clock, history>>

\* The role is checked, then the object store is asked for keys.
IssueKeys ==
    /\ Valid(scoped) /\ member
    /\ request = Never
    /\ request' = clock
    /\ UNCHANGED <<credential, member, run, issued, clock, history>>

AssumeRole ==
    /\ request # Never
    /\ keys' = clock + KeyLife
    /\ request' = Never
    /\ UNCHANGED <<credential, member, run, token, scoped, logging, clock, history>>

StartRun ==
    /\ Valid(token) /\ member
    /\ run = None
    /\ run' = "running"
    /\ logging' = clock + LoggingLife
    /\ UNCHANGED <<credential, member, token, scoped, keys, request, clock, history>>

\* A platform token, or the logging token of the Run itself. The creator of a Run is not
\* asked for a membership.
Controls == Valid(token) \/ Valid(logging)

Heartbeat ==
    /\ Controls
    /\ run = "running"
    /\ logging' = clock + LoggingLife
    /\ UNCHANGED <<credential, member, run, token, scoped, keys, request, clock, history>>

\* The machine finalizes its Run, or the worker finds no heartbeat: see Runs.
EndRun ==
    /\ run = "running"
    /\ run' = "over"
    /\ ended' = clock
    /\ UNCHANGED <<credential, member, issued, request, clock, removed, disabled>>

Tick ==
    /\ clock < MaxClock
    /\ request \in {clock, Never}
    /\ clock' = clock + 1
    /\ UNCHANGED <<credential, member, run, issued, request, history>>

Next ==
    \/ CreateCredential \/ RevokeCredential \/ RemoveMember
    \/ Login \/ Exchange \/ IssueKeys \/ AssumeRole
    \/ StartRun \/ Heartbeat \/ EndRun
    \/ Tick

Spec == Init /\ [][Next]_vars

-----------------------------------------------------------------------------
TypeOK ==
    /\ credential \in {None, "active", "revoked"}
    /\ member \in BOOLEAN
    /\ run \in {None, "running", "over"}
    /\ {token, scoped, logging, keys} \subseteq Nat
    /\ {request, clock, removed, disabled, ended} \subseteq Times

\* Everything the machine holds runs out: S3 keys KeyLife, and the time of one request,
\* after its principal was removed from the project; keys and exchanged tokens within two
\* lives of a token and one of a key after its credential was revoked, however it trades
\* one for another; logging tokens with LoggingLife after the Run ended, once no heartbeat
\* can renew them (the chain from authenticate over exchange to assume_role).
CredentialsRunOut ==
    /\ TypeOK
    /\ removed # Never => keys < removed + KeyLife + 2
    /\ disabled # Never => scoped < disabled + 2 * AccessLife
                           /\ keys < disabled + 2 * AccessLife + KeyLife
    /\ run # "running" => logging <= ended + LoggingLife
=============================================================================
