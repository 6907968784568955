------------------------------ MODULE Sessions ------------------------------
(***************************************************************************)
(* The sessions of one principal.  A login starts a family of refresh      *)
(* tokens; every use of one rotates it: the token is marked used and a     *)
(* replacement is added.  A used token that is presented again revokes its *)
(* family, a logout its family and all browser sessions, a revocation of   *)
(* all sessions everything.  Access tokens, and what they are exchanged    *)
(* for, are signed and not stored: they stay valid until they expire.      *)
(*                                                                         *)
(* Clients are commands that share an OS keyring, or pages that share a    *)
(* cookie: they read the token, present it, and store the replacement when *)
(* the answer comes, without a lock among them.  rotate locks the row it   *)
(* reads (SELECT ... FOR UPDATE); a revocation reads its rows without a    *)
(* lock and waits for locks only when it writes them.                      *)
(***************************************************************************)
EXTENDS Naturals, Sequences

CONSTANTS Clients,       \* commands and pages, as many as run at once
          Stores,        \* keyrings and cookie jars
          AccessLife,    \* of access tokens: 20 minutes
          BrowserLife,   \* of MLflow browser sessions: 12 hours
          RefreshLife,   \* of refresh tokens: 30 days
          MaxTokens,     \* bound: refresh tokens
          MaxClock       \* bound: the clock

None == "none"

ASSUME Sentinel == None \notin Clients \cup Stores
ASSUME BoundsType ==
    /\ AccessLife \in Nat /\ BrowserLife \in Nat /\ RefreshLife \in Nat
    /\ MaxTokens \in Nat /\ MaxClock \in Nat

VARIABLES row,      \* human_refresh_credentials, in the order of their insertion
          held,     \* the token in each store
          client,   \* what each client is doing
          access,   \* when the latest access token expires
          browser,  \* when the unrevoked mlflow_browser_sessions expire
          clock,
          excused, cut  \* for the properties: the stores whose clients overlapped or lost
                        \* an answer; when all sessions were revoked

grants == <<access, browser>>
history == <<excused, cut>>
vars == <<row, held, client, grants, clock, history>>

Tokens == DOMAIN row

RowType == [family : 1..MaxTokens, used : BOOLEAN, revoked : BOOLEAN, expires : Nat,
            lock : Clients \cup {None},
            late : BOOLEAN]  \* added while a revocation of its family was being written
ClientType == [pc : {"idle", "device", "redirect", "rotate", "insert", "reuse", "read", "revoke",
                     "sessions", "reply", "clear"},
               store : Stores \cup {None}, token : 0..MaxTokens, scope : {None, "family", "all"},
               seen : SUBSET (1..MaxTokens)]

Idle == [pc |-> "idle", store |-> None, token |-> 0, scope |-> None, seen |-> {}]

Init ==
    /\ row = <<>>
    /\ held = [s \in Stores |-> 0]
    /\ client = [c \in Clients |-> Idle]
    /\ access = 0 /\ browser = {}
    /\ clock = 0
    /\ excused = {} /\ cut = {}

\* AccessTokenService.verify.
Valid(expires) == expires > clock

Live(t) == ~row[t].used /\ ~row[t].revoked

-----------------------------------------------------------------------------
(* Clients                                                                 *)

Request(pc, s, t) == [Idle EXCEPT !.pc = pc, !.store = s, !.token = t]
Others(c, s) == {d \in Clients \ {c} : client[d].store = s}

Begin(c, request) ==
    /\ client[c].pc = "idle"
    /\ client' = [client EXCEPT ![c] = request]
    /\ excused' = IF Others(c, request.store) = {} THEN excused
                  ELSE excused \cup {request.store}
    /\ UNCHANGED <<row, held, grants, clock, cut>>

\* GitLab's device flow, which a command polls, and the redirect of a page to GitLab.
StartDeviceLogin(c, s) == Begin(c, Request("device", s, 0))
StartWebLogin(c, s) == Begin(c, Request("redirect", s, 0))

\* A command, or a page whose access token was refused, presents the stored token.
Refresh(c, s) ==
    /\ held[s] # 0
    /\ Begin(c, Request("rotate", s, held[s]))

Logout(c, s) ==
    /\ held[s] # 0
    /\ Begin(c, [Request("read", s, held[s]) EXCEPT !.scope = "family"])

RevokeAll(c, s) ==
    /\ Valid(access)
    /\ Begin(c, [Request("read", s, 0) EXCEPT !.scope = "all"])

\* The answer of a login or refresh. X_Something is X with a plausible bug: no action
\* uses it, it shows that the properties notice the bug.
Kept_Forgotten(c) == [held EXCEPT ![client[c].store] = IF @ = 0 THEN client[c].token ELSE @]
Kept(c) == [held EXCEPT ![client[c].store] = client[c].token]

StoreReply(c) ==
    /\ client[c].pc = "reply"
    /\ held' = Kept(c)
    /\ client' = [client EXCEPT ![c] = Idle]
    /\ UNCHANGED <<row, grants, clock, history>>

\* The answer of a logout: whatever token the store has by now is deleted.
Clear(c) ==
    /\ client[c].pc = "clear"
    /\ held' = [held EXCEPT ![client[c].store] = 0]
    /\ client' = [client EXCEPT ![c] = Idle]
    /\ UNCHANGED <<row, grants, clock, history>>

\* A read times out, the client dies.
LoseReply(c) ==
    /\ client[c].pc \in {"reply", "clear"}
    /\ excused' = excused \cup {client[c].store}
    /\ client' = [client EXCEPT ![c] = Idle]
    /\ UNCHANGED <<row, held, grants, clock, cut>>

\* The server is not reached: nothing happened, the client may begin again.
ConnectError(c) ==
    /\ client[c].pc \in {"rotate", "read"}
    /\ client' = [client EXCEPT ![c] = Idle]
    /\ UNCHANGED <<row, held, grants, clock, history>>

-----------------------------------------------------------------------------
(* Logins and rotations                                                    *)

NewRow(family, late) == [family |-> family, used |-> FALSE, revoked |-> FALSE,
                         expires |-> clock + RefreshLife, lock |-> None, late |-> late]

\* GitLab knows the user. A device gets an access token with the refresh token, a
\* browser its cookie only.
Issue(c) ==
    /\ Len(row) < MaxTokens
    /\ row' = Append(row, NewRow(Len(row) + 1, FALSE))
    /\ client' = [client EXCEPT ![c] = Request("reply", @.store, Len(row) + 1)]
    /\ cut' = {}
    /\ UNCHANGED <<held, browser, clock, excused>>

CompleteDeviceLogin(c) ==
    /\ client[c].pc = "device"
    /\ Issue(c)
    /\ access' = clock + AccessLife

CompleteWebLogin(c) ==
    /\ client[c].pc = "redirect"
    /\ Issue(c)
    /\ UNCHANGED access

\* It does not: access was denied, the code expired, GitLab is down.
FailLogin(c) ==
    /\ client[c].pc \in {"device", "redirect"}
    /\ client' = [client EXCEPT ![c] = Idle]
    /\ UNCHANGED <<row, held, grants, clock, history>>

\* SELECT ... FOR UPDATE. A rotation keeps the lock to its commit, a reuse until the
\* family is revoked, any other failure ends the transaction.
Locked(t) == row[t].lock # None

ReadToken(c) ==
    LET t == client[c].token IN
    /\ client[c].pc = "rotate" /\ ~Locked(t)
    /\ \/ /\ row[t].used
          /\ row' = [row EXCEPT ![t].lock = c]
          /\ client' = [client EXCEPT ![c].pc = "reuse", ![c].scope = "family"]
       \/ /\ ~row[t].used /\ (row[t].revoked \/ row[t].expires <= clock)
          /\ client' = [client EXCEPT ![c] = Idle]
          /\ UNCHANGED row
       \/ /\ Live(t) /\ row[t].expires > clock
          /\ Len(row) < MaxTokens
          /\ row' = [row EXCEPT ![t].lock = c]
          /\ client' = [client EXCEPT ![c].pc = "insert"]
    /\ UNCHANGED <<held, grants, clock, history>>

CommitRotation(c) ==
    LET t == client[c].token
        late == \/ row[t].late
                \/ \E d \in Clients : client[d].pc = "revoke" /\ t \in client[d].seen
    IN /\ client[c].pc = "insert"
       /\ Len(row) < MaxTokens
       /\ row' = Append([row EXCEPT ![t].used = TRUE, ![t].lock = None],
                        NewRow(row[t].family, late))
       /\ client' = [client EXCEPT ![c].pc = "reply", ![c].token = Len(row) + 1]
       /\ access' = clock + AccessLife
       /\ UNCHANGED <<held, browser, clock, history>>

-----------------------------------------------------------------------------
(* Revocations                                                             *)

\* The rows that revoke_family and revoke_all select.
InScope_Presented(c) == {client[c].token} \ {0}
InScope(c) ==
    {t \in Tokens : client[c].scope = "all" \/ row[t].family = row[client[c].token].family}

ReadRows(c) ==
    /\ client[c].pc \in {"reuse", "read"}
    /\ client' = [client EXCEPT ![c].pc = "revoke",
                                ![c].seen = {t \in InScope(c) : ~row[t].revoked}]
    /\ UNCHANGED <<row, held, grants, clock, history>>

Waiting(c) == \E t \in client[c].seen : row[t].lock \notin {None, c}

\* A transaction that waits for others' locks while it holds its own may be aborted as a
\* deadlock.
Abort(c) ==
    /\ client[c].pc = "revoke" /\ Waiting(c)
    /\ \E d \in Clients \ {c} : client[d].pc = "revoke" /\ Waiting(d)
    /\ row' = [t \in Tokens |-> [row[t] EXCEPT !.lock = IF @ = c THEN None ELSE @]]
    /\ client' = [client EXCEPT ![c] = Idle]
    /\ UNCHANGED <<held, grants, clock, history>>

\* A reuse ends with an error, a logout goes on with the browser sessions.
CommitRevocation(c) ==
    /\ client[c].pc = "revoke" /\ ~Waiting(c)
    /\ row' = [t \in Tokens |-> [row[t] EXCEPT !.revoked = @ \/ t \in client[c].seen,
                                               !.lock = IF @ = c THEN None ELSE @]]
    /\ client' = [client EXCEPT ![c] =
          IF \E t \in Tokens : row[t].lock = c THEN Idle
          ELSE [@ EXCEPT !.pc = "sessions", !.seen = {}]]
    /\ UNCHANGED <<held, grants, clock, history>>

RevokeBrowserSessions(c) ==
    /\ client[c].pc = "sessions"
    /\ browser' = {}
    /\ cut' = IF client[c].scope = "all" /\ ~ \E t \in Tokens : Live(t) THEN {clock} ELSE cut
    /\ client' = [client EXCEPT ![c] = Request("clear", @.store, 0)]
    /\ UNCHANGED <<row, held, access, clock, excused>>

-----------------------------------------------------------------------------
(* Browser sessions of MLflow                                              *)

Unexpired == {e \in browser : e > clock}

\* Rows that have expired are deleted when one is added.
OpenMlflow ==
    /\ Valid(access)
    /\ browser' = Unexpired \cup {clock + BrowserLife}
    /\ UNCHANGED <<row, held, client, access, clock, history>>

\* The MLflow gateway resolves the browser session with every request.
GatewayAdmits_Unrevoked == browser # {}
GatewayAdmits == Unexpired # {}

\* Requests take less than the shortest lifetime: the clock waits for them.
Tick ==
    /\ clock < MaxClock
    /\ \A c \in Clients : client[c].pc = "idle"
    /\ clock' = clock + 1
    /\ UNCHANGED <<row, held, client, grants, history>>

Serve(c) ==
    \/ CompleteDeviceLogin(c) \/ CompleteWebLogin(c) \/ FailLogin(c)
    \/ ReadToken(c) \/ CommitRotation(c)
    \/ ReadRows(c) \/ Abort(c) \/ CommitRevocation(c) \/ RevokeBrowserSessions(c)

Answer(c) == StoreReply(c) \/ Clear(c) \/ LoseReply(c) \/ ConnectError(c)

Next ==
    \/ \E c \in Clients :
          \/ \E s \in Stores :
                \/ StartDeviceLogin(c, s) \/ StartWebLogin(c, s)
                \/ Refresh(c, s) \/ Logout(c, s) \/ RevokeAll(c, s)
          \/ Serve(c) \/ Answer(c)
    \/ OpenMlflow \/ Tick

Spec == Init /\ [][Next]_vars

-----------------------------------------------------------------------------
(* Properties                                                              *)

TypeOK ==
    /\ row \in Seq(RowType) /\ Len(row) <= MaxTokens
    /\ held \in [Stores -> 0..MaxTokens]
    /\ client \in [Clients -> ClientType]
    /\ access \in Nat /\ browser \subseteq Nat
    /\ clock \in 0..MaxClock
    /\ excused \subseteq Stores /\ cut \subseteq Nat

\* "Rotate refresh tokens on every use and revoke the family on reuse detection"
\* (specification, line 988): a family has at most one token that can still be rotated,
\* however many clients present tokens at once, and none once it is revoked, unless a
\* rotation was under way while the revocation was written.
OneLiveToken ==
    TypeOK /\ \A t \in Tokens : Live(t) =>
        \A u \in Tokens \ {t} : row[u].family = row[t].family =>
            /\ ~Live(u)
            /\ row[u].revoked => row[t].late

\* A session is ended as reused only when two clients of its store overlapped or an
\* answer was lost: commands run one after the other keep it.
ReuseHasACause ==
    \A c \in Clients : client[c].pc = "reuse" => client[c].store \in excused

\* Once all sessions were revoked, and until the next login, no access token is valid
\* for longer than its lifetime, and the gateway admits no browser session that was
\* opened with one for longer than its own.
AccessRunsOut ==
    \A revoked \in cut :
        /\ clock >= revoked + AccessLife => ~Valid(access)
        /\ clock >= revoked + AccessLife + BrowserLife => ~GatewayAdmits
=============================================================================
