---------------------------- MODULE SessionProofs ----------------------------
(***************************************************************************)
(* What holds of Sessions for any number of clients, stores and tokens,    *)
(* any lifetimes, and however rotations, reuses and revocations overlap.   *)
(***************************************************************************)
EXTENDS Sessions, TLAPS

-----------------------------------------------------------------------------
(* Types                                                                   *)

\* A client refers to n tokens at most, and one at work has its store.
KnownClient(q, n) ==
    /\ q.token <= n /\ q.seen \subseteq 1..n
    /\ q.pc \in {"rotate", "insert", "reuse", "reply"} => q.token # 0
    /\ q.pc # "idle" => q.store \in Stores
    /\ q.pc = "idle" => q.store = None

TokensAreKnown ==
    /\ \A t \in Tokens : row[t].family <= Len(row)
    /\ \A s \in Stores : held[s] <= Len(row)
    /\ \A c \in Clients : KnownClient(client[c], Len(row))

LEMMA IdleType ==
    /\ Idle \in ClientType
    /\ Idle.pc = "idle" /\ Idle.store = None /\ Idle.token = 0 /\ Idle.seen = {}
BY BoundsType DEF Idle, ClientType

\* A record of a client that is built anew, and the fields of one that goes on.
LEMMA RequestType ==
    ASSUME NEW pc \in {"device", "redirect", "rotate", "read", "reply", "clear"},
           NEW s \in Stores \cup {None}, NEW t \in 0..MaxTokens
    PROVE  /\ Request(pc, s, t) \in ClientType
           /\ Request(pc, s, t).pc = pc /\ Request(pc, s, t).store = s
           /\ Request(pc, s, t).token = t /\ Request(pc, s, t).seen = {}
<1>1. PICK q \in ClientType : q = Idle
  BY IdleType
<1> QED
  BY <1>1, IdleType DEF Request, ClientType

\* Appending a token keeps the others.
LEMMA Appended ==
    ASSUME NEW S, NEW q \in Seq(S), NEW e \in S
    PROVE  /\ Append(q, e) \in Seq(S)
           /\ Len(Append(q, e)) = Len(q) + 1
           /\ DOMAIN Append(q, e) = DOMAIN q \cup {Len(q) + 1}
           /\ Len(q) + 1 \notin DOMAIN q
           /\ Append(q, e)[Len(q) + 1] = e
           /\ \A t \in DOMAIN q : Append(q, e)[t] = q[t]
OBVIOUS

LEMMA RowElement ==
    ASSUME TypeOK, NEW t \in Tokens
    PROVE  row[t] \in RowType /\ t \in 1..Len(row)
BY DEF TypeOK, Tokens

LEMMA NewRowType ==
    ASSUME TypeOK, NEW f \in 1..MaxTokens, NEW late \in BOOLEAN
    PROVE  /\ NewRow(f, late) \in RowType
           /\ NewRow(f, late).family = f /\ NewRow(f, late).late = late
           /\ NewRow(f, late).lock = None
           /\ ~NewRow(f, late).used /\ ~NewRow(f, late).revoked
BY BoundsType DEF NewRow, RowType, TypeOK

KnownInv == TypeOK /\ TokensAreKnown

-----------------------------------------------------------------------------
(* What the steps do to the tokens                                         *)

\* Two values of a token that differ in its lock at most.
SameButLock(q, r) ==
    /\ q.family = r.family /\ (q.used <=> r.used)
    /\ (q.revoked <=> r.revoked) /\ (q.late <=> r.late)

WithLock(q, lock) == [q EXCEPT !.lock = lock]
Spent(q) == [q EXCEPT !.used = TRUE, !.lock = None]
Cut(q, revoked, lock) == [q EXCEPT !.revoked = revoked, !.lock = lock]

LEMMA WithLockType ==
    ASSUME NEW q \in RowType, NEW lock \in Clients \cup {None}
    PROVE  /\ WithLock(q, lock) \in RowType
           /\ WithLock(q, lock).lock = lock
           /\ SameButLock(WithLock(q, lock), q)
<1>1. WithLock(q, lock) = [family |-> q.family, used |-> q.used, revoked |-> q.revoked,
                           expires |-> q.expires, lock |-> lock, late |-> q.late]
  BY DEF WithLock, RowType
<1> QED
  BY <1>1 DEF RowType, SameButLock

LEMMA SpentType ==
    ASSUME NEW q \in RowType
    PROVE  /\ Spent(q) \in RowType /\ Spent(q).used
           /\ Spent(q).family = q.family /\ (Spent(q).revoked <=> q.revoked)
BY DEF Spent, RowType

LEMMA CutType ==
    ASSUME NEW q \in RowType, NEW revoked \in BOOLEAN, NEW lock \in Clients \cup {None}
    PROVE  /\ Cut(q, revoked, lock) \in RowType
           /\ Cut(q, revoked, lock).lock = lock
           /\ Cut(q, revoked, lock).revoked <=> revoked
           /\ Cut(q, revoked, lock).family = q.family
           /\ Cut(q, revoked, lock).used <=> q.used
           /\ Cut(q, revoked, lock).late <=> q.late
BY DEF Cut, RowType

\* Locks are taken and given back, nothing else happens to the tokens.
OnlyLocks ==
    /\ row' \in Seq(RowType) /\ Len(row') = Len(row)
    /\ \A t \in Tokens : SameButLock(row'[t], row[t])

\* A token is added, as the first of its family or in the place of t.
Added(family, late) ==
    /\ row' \in Seq(RowType) /\ Len(row') = Len(row) + 1 /\ Len(row) + 1 <= MaxTokens
    /\ row'[Len(row) + 1].family = family
    /\ row'[Len(row) + 1].late <=> late
    /\ ~row'[Len(row) + 1].used /\ ~row'[Len(row) + 1].revoked

LEMMA ReadTokenRows ==
    ASSUME KnownInv, NEW c \in Clients, ReadToken(c)
    PROVE  /\ client[c].token \in Tokens /\ client[c].pc = "rotate"
           /\ OnlyLocks
           /\ \A t \in Tokens \ {client[c].token} : row'[t] = row[t]
           /\ row[client[c].token].lock = None
           /\ \/ /\ row[client[c].token].used
                 /\ client' = [client EXCEPT ![c].pc = "reuse", ![c].scope = "family"]
              \/ client' = [client EXCEPT ![c] = Idle]
              \/ /\ Live(client[c].token)
                 /\ row'[client[c].token].lock = c
                 /\ client' = [client EXCEPT ![c].pc = "insert"]
<1> DEFINE t == client[c].token
<1>1. t \in Tokens /\ client[c].pc = "rotate" /\ row[t].lock = None
  BY DEF KnownInv, TypeOK, TokensAreKnown, KnownClient, ReadToken, Tokens, Locked, ClientType
<1>2. ASSUME row' = [row EXCEPT ![t].lock = c]
      PROVE  OnlyLocks /\ (\A u \in Tokens \ {t} : row'[u] = row[u]) /\ row'[t].lock = c
  <2>1. row[t] \in RowType
    BY <1>1, RowElement DEF KnownInv
  <2>2. row' = [row EXCEPT ![t] = WithLock(row[t], c)]
    BY <1>2, Zenon DEF WithLock
  <2>3. WithLock(row[t], c) \in RowType /\ SameButLock(WithLock(row[t], c), row[t])
        /\ WithLock(row[t], c).lock = c
    BY <2>1, WithLockType
  <2> HIDE DEF t
  <2>4. row' \in Seq(RowType) /\ Len(row') = Len(row) /\ row'[t] = WithLock(row[t], c)
        /\ \A u \in Tokens \ {t} : row'[u] = row[u]
    BY <1>1, <2>2, <2>3 DEF KnownInv, TypeOK, Tokens
  <2>5. \A u \in Tokens \ {t} : SameButLock(row'[u], row[u])
    BY <2>4 DEF SameButLock
  <2> QED
    BY <2>3, <2>4, <2>5 DEF OnlyLocks
<1>3. row' = row => OnlyLocks /\ \A u \in Tokens \ {t} : row'[u] = row[u]
  BY DEF OnlyLocks, SameButLock, KnownInv, TypeOK
<1> QED
  BY <1>1, <1>2, <1>3, Zenon DEF ReadToken

LEMMA IssueRows ==
    ASSUME KnownInv, NEW c \in Clients, Issue(c)
    PROVE  /\ Added(Len(row) + 1, FALSE)
           /\ \A t \in Tokens : row'[t] = row[t]
<1>1. Len(row) + 1 \in 1..MaxTokens
  BY BoundsType DEF KnownInv, TypeOK, Issue
<1> DEFINE e == NewRow(Len(row) + 1, FALSE)
<1>2. /\ e \in RowType /\ e.family = Len(row) + 1 /\ ~e.late /\ ~e.used /\ ~e.revoked
  BY <1>1, NewRowType DEF KnownInv
<1>3. row' = Append(row, e) /\ row \in Seq(RowType)
  BY DEF Issue, KnownInv, TypeOK
<1> HIDE DEF e
<1> QED
  BY <1>1, <1>2, <1>3, Appended DEF Added, Tokens

LEMMA CommitRotationRows ==
    ASSUME KnownInv, NEW c \in Clients, CommitRotation(c)
    PROVE  /\ client[c].token \in Tokens /\ client[c].pc = "insert"
           /\ Added(row[client[c].token].family,
                    \/ row[client[c].token].late
                    \/ \E d \in Clients : client[d].pc = "revoke" /\ client[c].token \in client[d].seen)
           /\ \A u \in Tokens \ {client[c].token} : row'[u] = row[u]
           /\ row'[client[c].token] = Spent(row[client[c].token])
           /\ client' = [client EXCEPT ![c].pc = "reply", ![c].token = Len(row) + 1]
<1> DEFINE t == client[c].token
           late == \/ row[t].late
                   \/ \E d \in Clients : client[d].pc = "revoke" /\ t \in client[d].seen
           e == NewRow(row[t].family, late)
           spent == [row EXCEPT ![t] = Spent(row[t])]
<1>1. t \in Tokens /\ client[c].pc = "insert"
  BY DEF KnownInv, TypeOK, TokensAreKnown, KnownClient, CommitRotation, Tokens, ClientType
<1>2. row[t] \in RowType /\ Spent(row[t]) \in RowType
  BY <1>1, RowElement, SpentType DEF KnownInv
<1>3. row' = Append([row EXCEPT ![t].used = TRUE, ![t].lock = None], e)
  BY Zenon DEF CommitRotation
<1>4. [row EXCEPT ![t].used = TRUE, ![t].lock = None] = spent
  BY <1>1, <1>2 DEF Spent, KnownInv, TypeOK, RowType, Tokens
<1>5. row' = Append(spent, e)
  BY <1>3, <1>4, Zenon
<1>6. late \in BOOLEAN
  BY <1>2 DEF RowType
<1>7. row[t].family \in 1..MaxTokens
  BY <1>2 DEF RowType
<1> HIDE DEF late
<1>8. e \in RowType /\ e.family = row[t].family /\ (e.late <=> late) /\ ~e.used /\ ~e.revoked
  BY <1>6, <1>7, NewRowType DEF KnownInv
<1> HIDE DEF t
<1>9. /\ spent \in Seq(RowType) /\ Len(spent) = Len(row) /\ spent[t] = Spent(row[t])
      /\ DOMAIN spent = Tokens /\ \A u \in Tokens \ {t} : spent[u] = row[u]
  BY <1>1, <1>2 DEF KnownInv, TypeOK, Tokens
<1>10. Len(row) + 1 <= MaxTokens
  BY BoundsType DEF KnownInv, TypeOK, CommitRotation
<1> HIDE DEF spent, e
<1>11. /\ Append(spent, e) \in Seq(RowType) /\ Len(Append(spent, e)) = Len(row) + 1
       /\ Append(spent, e)[Len(row) + 1] = e
       /\ \A u \in Tokens : Append(spent, e)[u] = spent[u]
  BY <1>8, <1>9, Appended
<1>12. Added(row[t].family, late)
  BY <1>5, <1>8, <1>10, <1>11 DEF Added
<1>13. client' = [client EXCEPT ![c].pc = "reply", ![c].token = Len(row) + 1]
  BY Zenon DEF CommitRotation
<1> QED
  BY <1>1, <1>5, <1>9, <1>11, <1>12, <1>13, Zenon DEF t, late

\* Revocations end: c gives its locks back, and the tokens in seen are revoked.
Revokes(c, seen) ==
    /\ row' \in Seq(RowType) /\ Len(row') = Len(row)
    /\ \A t \in Tokens :
          /\ row'[t].family = row[t].family
          /\ row'[t].used <=> row[t].used
          /\ row'[t].late <=> row[t].late
          /\ row'[t].revoked <=> row[t].revoked \/ t \in seen
          /\ row'[t].lock = IF row[t].lock = c THEN None ELSE row[t].lock

LEMMA RevokingRows ==
    ASSUME KnownInv, NEW c \in Clients, NEW seen \in SUBSET Tokens,
           row' = [t \in Tokens |-> Cut(row[t], row[t].revoked \/ t \in seen,
                                        IF row[t].lock = c THEN None ELSE row[t].lock)]
    PROVE  Revokes(c, seen)
<1> DEFINE lock(t) == IF row[t].lock = c THEN None ELSE row[t].lock
           revoked(t) == row[t].revoked \/ t \in seen
<1>1. \A t \in Tokens : row[t] \in RowType /\ lock(t) \in Clients \cup {None} /\ revoked(t) \in BOOLEAN
  BY RowElement DEF KnownInv, RowType
<1>2. ASSUME NEW t \in Tokens
      PROVE  /\ row'[t] \in RowType
             /\ row'[t].family = row[t].family
             /\ row'[t].used <=> row[t].used
             /\ row'[t].late <=> row[t].late
             /\ row'[t].revoked <=> revoked(t)
             /\ row'[t].lock = lock(t)
  <2>1. row'[t] = Cut(row[t], revoked(t), lock(t))
    BY Zenon
  <2> HIDE DEF lock, revoked
  <2> QED
    BY <1>1, <2>1, CutType
<1>3. DOMAIN row' = 1..Len(row) /\ Tokens = 1..Len(row) /\ Len(row) \in Nat
  BY DEF Tokens, KnownInv, TypeOK
<1>4. row' \in Seq(RowType) /\ Len(row') = Len(row)
  <2>1. row' \in [1..Len(row) -> RowType]
    BY <1>2, <1>3
  <2> QED
    BY <1>3, <2>1
<1> QED
  BY <1>2, <1>4 DEF Revokes

LEMMA AbortRows ==
    ASSUME KnownInv, NEW c \in Clients, Abort(c)
    PROVE  Revokes(c, {}) /\ client' = [client EXCEPT ![c] = Idle]
<1>1. row' = [t \in Tokens |-> [row[t] EXCEPT !.lock = IF row[t].lock = c THEN None ELSE row[t].lock]]
  BY Zenon DEF Abort
<1>2. \A t \in Tokens : [row[t] EXCEPT !.lock = IF row[t].lock = c THEN None ELSE row[t].lock]
         = Cut(row[t], row[t].revoked \/ t \in {}, IF row[t].lock = c THEN None ELSE row[t].lock)
  <2> TAKE t \in Tokens
  <2>1. row[t] \in RowType
    BY RowElement DEF KnownInv
  <2> QED
    BY <2>1 DEF Cut, RowType
<1>3. row' = [t \in Tokens |-> Cut(row[t], row[t].revoked \/ t \in {},
                                   IF row[t].lock = c THEN None ELSE row[t].lock)]
  BY <1>1, <1>2, Zenon
<1>4. Revokes(c, {})
  <2>1. {} \in SUBSET Tokens
    OBVIOUS
  <2> QED
    BY <1>3, <2>1, RevokingRows, Zenon
<1> QED
  BY <1>4, Zenon DEF Abort

LEMMA CommitRevocationRows ==
    ASSUME KnownInv, NEW c \in Clients, CommitRevocation(c)
    PROVE  /\ Revokes(c, client[c].seen)
           /\ client' = [client EXCEPT ![c] =
                 IF \E t \in Tokens : row[t].lock = c THEN Idle
                 ELSE [client[c] EXCEPT !.pc = "sessions", !.seen = {}]]
<1>1. row' = [t \in Tokens |-> Cut(row[t], row[t].revoked \/ t \in client[c].seen,
                                   IF row[t].lock = c THEN None ELSE row[t].lock)]
  BY Zenon DEF CommitRevocation, Cut
<1>2. client[c].seen \in SUBSET Tokens
  BY DEF KnownInv, TokensAreKnown, KnownClient, Tokens
<1> QED
  BY <1>1, <1>2, RevokingRows, Zenon DEF CommitRevocation

-----------------------------------------------------------------------------
(* What the steps do to the clients                                        *)

\* One client goes on with q, the others stay as they are.
Goes(c, q) ==
    /\ q \in ClientType /\ client' \in [Clients -> ClientType]
    /\ client'[c] = q /\ \A d \in Clients \ {c} : client'[d] = client[d]

LEMMA GoesOn ==
    ASSUME TypeOK, NEW c \in Clients, NEW q \in ClientType, client' = [client EXCEPT ![c] = q]
    PROVE  Goes(c, q)
BY DEF TypeOK, Goes

\* The next steps of a client's request.
Inserting(q) == [q EXCEPT !.pc = "insert"]
Reusing(q) == [q EXCEPT !.pc = "reuse", !.scope = "family"]
Replying(q, t) == [q EXCEPT !.pc = "reply", !.token = t]
Revoking(q, seen) == [q EXCEPT !.pc = "revoke", !.seen = seen]
Ending(q) == [q EXCEPT !.pc = "sessions", !.seen = {}]
Scoped(q, scope) == [q EXCEPT !.scope = scope]

LEMMA InsertType ==
    ASSUME NEW q \in ClientType
    PROVE  /\ Inserting(q) \in ClientType /\ Inserting(q).pc = "insert"
           /\ Inserting(q).store = q.store /\ Inserting(q).token = q.token
           /\ Inserting(q).seen = q.seen
BY DEF Inserting, ClientType

LEMMA ReuseType ==
    ASSUME NEW q \in ClientType
    PROVE  /\ Reusing(q) \in ClientType /\ Reusing(q).pc = "reuse"
           /\ Reusing(q).store = q.store /\ Reusing(q).token = q.token
           /\ Reusing(q).seen = q.seen
BY DEF Reusing, ClientType

LEMMA ReplyType ==
    ASSUME NEW q \in ClientType, NEW t \in 0..MaxTokens
    PROVE  /\ Replying(q, t) \in ClientType /\ Replying(q, t).pc = "reply"
           /\ Replying(q, t).store = q.store /\ Replying(q, t).token = t
           /\ Replying(q, t).seen = q.seen
BY DEF Replying, ClientType

LEMMA RevokeType ==
    ASSUME NEW q \in ClientType, NEW seen \in SUBSET (1..MaxTokens)
    PROVE  /\ Revoking(q, seen) \in ClientType /\ Revoking(q, seen).pc = "revoke"
           /\ Revoking(q, seen).store = q.store /\ Revoking(q, seen).token = q.token
           /\ Revoking(q, seen).seen = seen
BY DEF Revoking, ClientType

LEMMA EndType ==
    ASSUME NEW q \in ClientType
    PROVE  /\ Ending(q) \in ClientType /\ Ending(q).pc = "sessions"
           /\ Ending(q).store = q.store /\ Ending(q).token = q.token
           /\ Ending(q).seen = {}
BY DEF Ending, ClientType

LEMMA ScopedType ==
    ASSUME NEW q \in ClientType, NEW scope \in {None, "family", "all"}
    PROVE  /\ Scoped(q, scope) \in ClientType
           /\ Scoped(q, scope).pc = q.pc /\ Scoped(q, scope).store = q.store
           /\ Scoped(q, scope).token = q.token /\ Scoped(q, scope).seen = q.seen
<1>1. Scoped(q, scope) \in ClientType
  BY DEF Scoped, ClientType
<1>2. /\ Scoped(q, scope).pc = q.pc /\ Scoped(q, scope).store = q.store
      /\ Scoped(q, scope).token = q.token /\ Scoped(q, scope).seen = q.seen
  BY DEF Scoped, ClientType
<1> QED
  BY <1>1, <1>2

\* A client sets out to log in, with a token to present, or to revoke.
Sets(c, s) ==
    /\ s \in Stores /\ client[c].pc = "idle"
    /\ \E q \in ClientType :
          /\ Goes(c, q)
          /\ q.store = s /\ q.seen = {}
          /\ \/ q.pc \in {"device", "redirect"} /\ q.token = 0
             \/ q.pc \in {"rotate", "read"} /\ q.token = held[s] /\ held[s] # 0
             \/ q.pc = "read" /\ q.token = 0
    /\ excused' = IF \A d \in Clients \ {c} : client[d].store # s THEN excused ELSE excused \cup {s}
    /\ UNCHANGED <<row, held, grants, clock, cut>>

LEMMA BeginSets ==
    ASSUME TypeOK, NEW c \in Clients, NEW s \in Stores,
           \/ StartDeviceLogin(c, s) \/ StartWebLogin(c, s)
           \/ Refresh(c, s) \/ Logout(c, s) \/ RevokeAll(c, s)
    PROVE  Sets(c, s)
<1>1. held[s] \in 0..MaxTokens /\ 0 \in 0..MaxTokens
  BY BoundsType DEF TypeOK
<1>2. ASSUME NEW q \in ClientType, Begin(c, q), q.store = s, q.seen = {},
             \/ q.pc \in {"device", "redirect"} /\ q.token = 0
             \/ q.pc \in {"rotate", "read"} /\ q.token = held[s] /\ held[s] # 0
             \/ q.pc = "read" /\ q.token = 0
      PROVE  Sets(c, s)
  <2>1. Goes(c, q) /\ client[c].pc = "idle"
    BY <1>2, GoesOn DEF Begin
  <2>2. Others(c, q.store) = {} <=> \A d \in Clients \ {c} : client[d].store # s
    BY <1>2 DEF Others
  <2>3. excused' = IF \A d \in Clients \ {c} : client[d].store # s THEN excused ELSE excused \cup {s}
    BY <1>2, <2>2 DEF Begin
  <2>4. UNCHANGED <<row, held, grants, clock, cut>>
    BY <1>2 DEF Begin
  <2> QED
    BY <1>2, <2>1, <2>3, <2>4 DEF Sets
<1>3. ASSUME NEW q, q = Request("device", s, 0) \/ q = Request("redirect", s, 0), Begin(c, q)
      PROVE  Sets(c, s)
  BY <1>1, <1>2, <1>3, RequestType
<1>4. CASE Refresh(c, s)
  BY <1>1, <1>2, <1>4, RequestType DEF Refresh
<1>5. ASSUME NEW t \in 0..MaxTokens, NEW scope \in {"family", "all"},
             t = 0 \/ (t = held[s] /\ held[s] # 0), Begin(c, Scoped(Request("read", s, t), scope))
      PROVE  Sets(c, s)
  <2>1. PICK r \in ClientType : /\ r = Request("read", s, t)
                                /\ r.pc = "read" /\ r.store = s /\ r.token = t /\ r.seen = {}
    BY RequestType
  <2>2. PICK q : q = Scoped(r, scope)
    OBVIOUS
  <2>3. q \in ClientType /\ q.pc = "read" /\ q.store = s /\ q.token = t /\ q.seen = {}
    BY <2>1, <2>2, ScopedType
  <2>4. Begin(c, q)
    BY <1>5, <2>1, <2>2
  <2> QED
    BY <1>2, <1>5, <2>3, <2>4
<1>6. CASE Logout(c, s)
  <2>1. held[s] # 0 /\ Begin(c, Scoped(Request("read", s, held[s]), "family"))
    BY <1>6, Zenon DEF Logout, Scoped
  <2> QED
    BY <1>1, <1>5, <2>1
<1>7. CASE RevokeAll(c, s)
  <2>1. Begin(c, Scoped(Request("read", s, 0), "all"))
    BY <1>7, Zenon DEF RevokeAll, Scoped
  <2> QED
    BY <1>1, <1>5, <2>1
<1> QED
  BY <1>3, <1>4, <1>6, <1>7 DEF StartDeviceLogin, StartWebLogin

-----------------------------------------------------------------------------
(* The types are kept                                                      *)

RowsKnown ==
    /\ row' \in Seq(RowType) /\ Len(row') <= MaxTokens /\ Len(row) <= Len(row')
    /\ \A t \in DOMAIN row' : row'[t].family <= Len(row')

LEMMA SameRowsKnown ==
    ASSUME KnownInv, OnlyLocks \/ row' = row \/ \E c \in Clients : \E seen : Revokes(c, seen)
    PROVE  RowsKnown /\ Len(row') = Len(row)
<1>1. row' \in Seq(RowType) /\ Len(row') = Len(row)
  BY DEF OnlyLocks, Revokes, KnownInv, TypeOK
<1>2. DOMAIN row' = Tokens /\ Len(row) <= MaxTokens /\ Len(row) \in Nat
  BY <1>1 DEF KnownInv, TypeOK, Tokens
<1>3. \A t \in Tokens : row'[t].family = row[t].family
  BY DEF OnlyLocks, SameButLock, Revokes
<1> QED
  BY <1>1, <1>2, <1>3, BoundsType DEF KnownInv, TokensAreKnown, RowsKnown

LEMMA AddedRowsKnown ==
    ASSUME KnownInv, NEW f, NEW late, Added(f, late), f <= Len(row) + 1,
           \A t \in Tokens : row'[t].family = row[t].family
    PROVE  RowsKnown /\ DOMAIN row' = Tokens \cup {Len(row) + 1} /\ Len(row) + 1 \notin Tokens
<1>1. row' \in Seq(RowType) /\ Len(row') = Len(row) + 1 /\ Len(row') <= MaxTokens
      /\ Len(row) \in Nat
  BY DEF Added, KnownInv, TypeOK
<1>2. DOMAIN row' = Tokens \cup {Len(row) + 1} /\ Len(row) + 1 \notin Tokens
  BY <1>1 DEF KnownInv, TypeOK, Tokens
<1>3. \A t \in Tokens : row[t].family <= Len(row) /\ row[t].family \in Nat
  BY RowElement DEF KnownInv, TokensAreKnown, RowType
<1>4. \A t \in Tokens : row'[t].family <= Len(row')
  BY <1>1, <1>3
<1>5. row'[Len(row) + 1].family <= Len(row')
  BY <1>1 DEF Added
<1> QED
  BY <1>1, <1>2, <1>4, <1>5 DEF RowsKnown

\* What is left to be shown of a step of one client.
LEMMA KnownFrom ==
    ASSUME KnownInv, NEW c \in Clients, NEW q, Goes(c, q), KnownClient(q, Len(row')), RowsKnown,
           held' \in [Stores -> 0..MaxTokens], \A s \in Stores : held'[s] <= Len(row'),
           access' \in Nat, browser' \subseteq Nat, clock' \in 0..MaxClock,
           excused' \subseteq Stores, cut' \subseteq Nat
    PROVE  KnownInv'
<1>1. Len(row) \in Nat /\ Len(row') \in Nat /\ Len(row) <= Len(row')
  BY DEF KnownInv, TypeOK, RowsKnown
<1>2. ASSUME NEW d \in Clients PROVE KnownClient(client'[d], Len(row'))
  <2>1. CASE d = c
    BY <2>1 DEF Goes
  <2>2. CASE d # c
    <3>1. client'[d] = client[d] /\ client[d].token \in Nat
      BY <2>2 DEF Goes, KnownInv, TypeOK, ClientType
    <3>2. KnownClient(client[d], Len(row))
      BY DEF KnownInv, TokensAreKnown
    <3>3. client[d].token <= Len(row')
      BY <1>1, <3>1, <3>2 DEF KnownClient
    <3>4. client[d].seen \subseteq 1..Len(row')
      BY <1>1, <3>2 DEF KnownClient
    <3> QED
      BY <3>1, <3>2, <3>3, <3>4 DEF KnownClient
  <2> QED
    BY <2>1, <2>2
<1>3. TypeOK'
  BY DEF TypeOK, RowsKnown, Goes
<1>4. TokensAreKnown'
  BY <1>2 DEF TokensAreKnown, RowsKnown, Tokens
<1> QED
  BY <1>3, <1>4 DEF KnownInv

\* The same for a step that leaves all but one client and the locks alone.
LEMMA KnownQuiet ==
    ASSUME KnownInv, NEW c \in Clients, NEW q, Goes(c, q), KnownClient(q, Len(row)),
           OnlyLocks \/ row' = row \/ \E d \in Clients : \E seen : Revokes(d, seen),
           UNCHANGED <<held, access, clock>>,
           browser' \subseteq Nat, excused' \subseteq Stores, cut' \subseteq Nat
    PROVE  KnownInv'
<1>1. RowsKnown /\ Len(row') = Len(row)
  BY SameRowsKnown
<1>2. held' \in [Stores -> 0..MaxTokens] /\ access' \in Nat /\ clock' \in 0..MaxClock
  BY DEF KnownInv, TypeOK
<1>3. \A s \in Stores : held'[s] <= Len(row')
  BY <1>1 DEF KnownInv, TokensAreKnown
<1>4. KnownClient(q, Len(row'))
  BY <1>1
<1> QED
  BY <1>1, <1>2, <1>3, <1>4, KnownFrom

\* A client is known by n as soon as it refers to no token that n does not cover.
LEMMA KnownClients ==
    ASSUME KnownInv, NEW c \in Clients
    PROVE  /\ KnownClient(client[c], Len(row)) /\ client[c] \in ClientType
           /\ KnownClient(Idle, Len(row)) /\ Len(row) \in Nat
           /\ Tokens = 1..Len(row)
BY IdleType DEF KnownInv, TypeOK, TokensAreKnown, KnownClient, Tokens

LEMMA SetsKnown ==
    ASSUME KnownInv, NEW c \in Clients, NEW s \in Stores, Sets(c, s)
    PROVE  KnownInv'
<1>1. PICK q \in ClientType :
          /\ Goes(c, q)
          /\ q.store = s /\ q.seen = {}
          /\ \/ q.pc \in {"device", "redirect"} /\ q.token = 0
             \/ q.pc \in {"rotate", "read"} /\ q.token = held[s] /\ held[s] # 0
             \/ q.pc = "read" /\ q.token = 0
  BY DEF Sets
<1>2. held[s] <= Len(row) /\ 0 <= Len(row)
  BY DEF KnownInv, TypeOK, TokensAreKnown
<1>3. KnownClient(q, Len(row))
  BY <1>1, <1>2 DEF KnownClient
<1>4. UNCHANGED <<row, held, access, clock, browser, cut>> /\ excused' \subseteq Stores
  BY DEF Sets, grants, KnownInv, TypeOK
<1> QED
  BY <1>1, <1>3, <1>4, KnownQuiet DEF KnownInv, TypeOK

LEMMA AnswerKnown ==
    ASSUME KnownInv, NEW c \in Clients, Answer(c)
    PROVE  KnownInv' /\ Goes(c, Idle) /\ UNCHANGED <<row, access, browser, clock, cut>>
<1>1. Goes(c, Idle)
  BY GoesOn, IdleType DEF Answer, StoreReply, Clear, LoseReply, ConnectError, KnownInv
<1>2. UNCHANGED <<row, access, browser, clock, cut>>
  BY DEF Answer, StoreReply, Clear, LoseReply, ConnectError, grants, history
<1>3. KnownClient(Idle, Len(row)) /\ client[c].token \in 0..MaxTokens /\ client[c].token <= Len(row)
      /\ Len(row) \in Nat
  BY KnownClients DEF ClientType, KnownClient
<1>4. held' \in [Stores -> 0..MaxTokens] /\ \A s \in Stores : held'[s] <= Len(row)
  <2>1. held \in [Stores -> 0..MaxTokens] /\ \A s \in Stores : held[s] <= Len(row)
    BY DEF KnownInv, TypeOK, TokensAreKnown
  <2>2. CASE StoreReply(c)
    <3>1. held' = [held EXCEPT ![client[c].store] = client[c].token]
      BY <2>2 DEF StoreReply, Kept
    <3> QED
      BY <1>3, <2>1, <3>1
  <2>3. CASE Clear(c)
    <3>1. held' = [held EXCEPT ![client[c].store] = 0]
      BY <2>3 DEF Clear
    <3>2. PICK t \in 0..MaxTokens : t = 0 /\ t <= Len(row)
      BY <1>3, BoundsType
    <3> QED
      BY <2>1, <3>1, <3>2
  <2>4. CASE LoseReply(c) \/ ConnectError(c)
    BY <2>1, <2>4 DEF LoseReply, ConnectError
  <2> QED
    BY <2>2, <2>3, <2>4 DEF Answer
<1>5. excused' \subseteq Stores
  <2>1. client[c].pc # "idle" => client[c].store \in Stores
    BY KnownClients DEF KnownClient
  <2> QED
    BY <2>1 DEF Answer, StoreReply, Clear, LoseReply, ConnectError, history, KnownInv, TypeOK
<1>6. RowsKnown /\ Len(row') = Len(row)
  BY <1>2, SameRowsKnown
<1> QED
  BY <1>1, <1>2, <1>3, <1>4, <1>5, <1>6, KnownFrom DEF KnownInv, TypeOK

LEMMA ServeKnown ==
    ASSUME KnownInv, NEW c \in Clients, Serve(c)
    PROVE  KnownInv'
<1>1. /\ KnownClient(client[c], Len(row)) /\ client[c] \in ClientType
      /\ KnownClient(Idle, Len(row)) /\ Len(row) \in Nat /\ Tokens = 1..Len(row)
  BY KnownClients
<1>2. /\ browser \subseteq Nat /\ excused \subseteq Stores /\ cut \subseteq Nat /\ TypeOK
      /\ access \in Nat /\ clock \in Nat /\ clock \in 0..MaxClock
      /\ held \in [Stores -> 0..MaxTokens] /\ \A s \in Stores : held[s] <= Len(row)
  BY DEF KnownInv, TypeOK, TokensAreKnown
<1>3. ASSUME client[c].pc \in {"device", "redirect"}, Issue(c), access' \in Nat PROVE KnownInv'
  <2>1. Added(Len(row) + 1, FALSE) /\ \A t \in Tokens : row'[t] = row[t]
    BY <1>3, IssueRows
  <2>2. RowsKnown /\ Len(row') = Len(row) + 1 /\ Len(row) + 1 \in 0..MaxTokens
    BY <1>1, <2>1, AddedRowsKnown DEF Added
  <2>3. PICK q : q = Request("reply", client[c].store, Len(row) + 1)
    OBVIOUS
  <2>4. /\ q \in ClientType /\ q.pc = "reply" /\ q.store = client[c].store
        /\ q.token = Len(row) + 1 /\ q.seen = {}
    <3>1. client[c].store \in Stores \cup {None}
      BY <1>1 DEF ClientType
    <3> QED
      BY <2>2, <2>3, <3>1, RequestType
  <2>5. Goes(c, q)
    <3>1. client' = [client EXCEPT ![c] = q]
      BY <1>3, <2>3, Zenon DEF Issue
    <3> QED
      BY <1>2, <2>4, <3>1, GoesOn
  <2>6. KnownClient(q, Len(row'))
    BY <1>1, <1>3, <2>2, <2>4 DEF KnownClient
  <2>7. UNCHANGED <<held, browser, clock, excused>> /\ cut' = {}
    BY <1>3 DEF Issue
  <2>8. \A s \in Stores : held'[s] <= Len(row')
    BY <1>1, <1>2, <2>2, <2>7
  <2> QED
    BY <1>2, <1>3, <2>2, <2>5, <2>6, <2>7, <2>8, KnownFrom
<1>4. CASE CompleteDeviceLogin(c) \/ CompleteWebLogin(c)
  BY <1>2, <1>3, <1>4, BoundsType DEF CompleteDeviceLogin, CompleteWebLogin
<1>5. CASE FailLogin(c)
  <2>1. Goes(c, Idle)
    BY <1>2, <1>5, IdleType, GoesOn DEF FailLogin
  <2> QED
    BY <1>1, <1>2, <1>5, <2>1, KnownQuiet DEF FailLogin, grants, history
<1>6. CASE ReadToken(c)
  <2>1. OnlyLocks /\ client[c].pc = "rotate" /\ client[c].token \in Tokens
    BY <1>6, ReadTokenRows
  <2>2. PICK q \in ClientType : /\ client' = [client EXCEPT ![c] = q]
                                /\ KnownClient(q, Len(row))
    <3>1. CASE client' = [client EXCEPT ![c] = Idle]
      BY <1>1, <3>1, IdleType
    <3>2. CASE client' = [client EXCEPT ![c].pc = "reuse", ![c].scope = "family"]
      <4>1. client' = [client EXCEPT ![c] = Reusing(client[c])]
        BY <1>1, <1>2, <3>2 DEF TypeOK, Reusing, ClientType
      <4>2. KnownClient(Reusing(client[c]), Len(row))
        BY <1>1, <2>1, ReuseType DEF KnownClient
      <4> QED
        BY <1>1, <4>1, <4>2, ReuseType
    <3>3. CASE client' = [client EXCEPT ![c].pc = "insert"]
      <4>1. client' = [client EXCEPT ![c] = Inserting(client[c])]
        BY <3>3, Zenon DEF Inserting
      <4>2. KnownClient(Inserting(client[c]), Len(row))
        BY <1>1, <2>1, InsertType DEF KnownClient
      <4> QED
        BY <1>1, <4>1, <4>2, InsertType
    <3> QED
      BY <1>6, <3>1, <3>2, <3>3, ReadTokenRows
  <2> QED
    BY <1>2, <1>6, <2>1, <2>2, GoesOn, KnownQuiet DEF ReadToken, grants, history
<1>7. CASE CommitRotation(c)
  <2> DEFINE late == \/ row[client[c].token].late
                     \/ \E d \in Clients : client[d].pc = "revoke" /\ client[c].token \in client[d].seen
  <2>1. /\ client[c].token \in Tokens /\ client[c].pc = "insert"
        /\ Added(row[client[c].token].family, late)
        /\ \A u \in Tokens \ {client[c].token} : row'[u] = row[u]
        /\ row'[client[c].token] = Spent(row[client[c].token])
        /\ client' = [client EXCEPT ![c].pc = "reply", ![c].token = Len(row) + 1]
    BY <1>7, CommitRotationRows
  <2> HIDE DEF late
  <2>2. \A u \in Tokens : row[u] \in RowType /\ row[u].family <= Len(row)
    BY <1>2, RowElement DEF KnownInv, TokensAreKnown
  <2>3. \A u \in Tokens : row'[u].family = row[u].family
    BY <2>1, <2>2, SpentType
  <2>4. RowsKnown /\ Len(row') = Len(row) + 1 /\ Len(row) + 1 \in 0..MaxTokens
    <3>1. row[client[c].token].family <= Len(row) + 1
      BY <1>1, <2>1, <2>2 DEF RowType
    <3> QED
      BY <1>1, <2>1, <2>3, <3>1, AddedRowsKnown DEF Added
  <2>5. PICK q : q = Replying(client[c], Len(row) + 1)
    OBVIOUS
  <2>6. /\ q \in ClientType /\ q.pc = "reply" /\ q.store = client[c].store
        /\ q.token = Len(row) + 1 /\ q.seen = client[c].seen
    BY <1>1, <2>4, <2>5, ReplyType
  <2>7. client' = [client EXCEPT ![c] = q]
    BY <1>1, <1>2, <2>1, <2>5 DEF TypeOK, Replying, ClientType
  <2>8. KnownClient(q, Len(row'))
    BY <1>1, <2>1, <2>4, <2>6 DEF KnownClient
  <2>9. UNCHANGED <<held, browser, clock, excused, cut>> /\ access' \in Nat
    BY <1>2, <1>7, BoundsType DEF CommitRotation, history
  <2>10. \A s \in Stores : held'[s] <= Len(row')
    BY <1>1, <1>2, <2>4, <2>9
  <2> QED
    BY <1>2, <2>4, <2>6, <2>7, <2>8, <2>9, <2>10, GoesOn, KnownFrom
<1>8. CASE ReadRows(c)
  <2> DEFINE seen == {t \in InScope(c) : ~row[t].revoked}
  <2>1. seen \subseteq 1..Len(row) /\ seen \in SUBSET (1..MaxTokens)
    <3>1. seen \subseteq Tokens
      BY DEF InScope
    <3>2. Len(row) <= MaxTokens
      BY DEF KnownInv, TypeOK
    <3> HIDE DEF seen
    <3> QED
      BY <1>1, <3>1, <3>2, BoundsType
  <2>2. client' = [client EXCEPT ![c] = Revoking(client[c], seen)]
    BY <1>1, <1>2, <1>8 DEF TypeOK, Revoking, ClientType, ReadRows
  <2> HIDE DEF seen
  <2>3. KnownClient(Revoking(client[c], seen), Len(row)) /\ Revoking(client[c], seen) \in ClientType
    BY <1>1, <1>8, <2>1, RevokeType DEF KnownClient, ReadRows
  <2> QED
    BY <1>2, <1>8, <2>2, <2>3, GoesOn, KnownQuiet DEF ReadRows, grants, history
<1>9. CASE Abort(c)
  <2>1. Revokes(c, {}) /\ client' = [client EXCEPT ![c] = Idle]
    BY <1>9, AbortRows
  <2> QED
    BY <1>1, <1>2, <1>9, <2>1, IdleType, GoesOn, KnownQuiet DEF Abort, grants, history
<1>10. CASE CommitRevocation(c)
  <2>1. Revokes(c, client[c].seen)
    BY <1>10, CommitRevocationRows
  <2>2. client' = [client EXCEPT ![c] = Idle] \/ client' = [client EXCEPT ![c] = Ending(client[c])]
    BY <1>10, CommitRevocationRows, Zenon DEF Ending
  <2>3. KnownClient(Ending(client[c]), Len(row)) /\ Ending(client[c]) \in ClientType
    BY <1>1, <1>10, EndType DEF KnownClient, CommitRevocation
  <2>4. UNCHANGED <<held, access, browser, clock, excused, cut>>
    BY <1>10 DEF CommitRevocation, grants, history
  <2> QED
    BY <1>1, <1>2, <2>1, <2>2, <2>3, <2>4, IdleType, GoesOn, KnownQuiet
<1>11. CASE RevokeBrowserSessions(c)
  <2>1. client[c].store \in Stores
    BY <1>1, <1>11 DEF KnownClient, RevokeBrowserSessions
  <2>2. PICK q : q = Request("clear", client[c].store, 0)
    OBVIOUS
  <2>3. q \in ClientType /\ KnownClient(q, Len(row))
    BY <1>1, <2>1, <2>2, RequestType, BoundsType DEF KnownClient
  <2>4. client' = [client EXCEPT ![c] = q]
    BY <1>11, <2>2, Zenon DEF RevokeBrowserSessions
  <2>5. cut' \subseteq Nat /\ browser' \subseteq Nat /\ UNCHANGED <<row, held, access, clock, excused>>
    BY <1>2, <1>11 DEF RevokeBrowserSessions
  <2> QED
    BY <1>2, <2>3, <2>4, <2>5, GoesOn, KnownQuiet
<1> QED
  BY <1>4, <1>5, <1>6, <1>7, <1>8, <1>9, <1>10, <1>11 DEF Serve

LEMMA KnownStep ==
    ASSUME KnownInv, [Next]_vars
    PROVE  KnownInv'
<1>1. ASSUME UNCHANGED <<row, held, client, excused, cut>>,
             access' \in Nat, browser' \subseteq Nat, clock' \in 0..MaxClock
      PROVE  KnownInv'
  BY <1>1 DEF KnownInv, TypeOK, TokensAreKnown, Tokens
<1>2. CASE OpenMlflow
  <2>1. browser' \subseteq Nat
    <3>1. clock + BrowserLife \in Nat /\ browser \subseteq Nat
      BY BoundsType DEF KnownInv, TypeOK
    <3> QED
      BY <1>2, <3>1 DEF OpenMlflow, Unexpired
  <2> QED
    BY <1>1, <1>2, <2>1 DEF OpenMlflow, history, KnownInv, TypeOK
<1>3. CASE Tick
  BY <1>1, <1>3, BoundsType DEF Tick, grants, history, KnownInv, TypeOK
<1>4. CASE UNCHANGED vars
  BY <1>1, <1>4 DEF vars, grants, history, KnownInv, TypeOK
<1>5. ASSUME NEW c \in Clients, NEW s \in Stores,
             \/ StartDeviceLogin(c, s) \/ StartWebLogin(c, s)
             \/ Refresh(c, s) \/ Logout(c, s) \/ RevokeAll(c, s)
      PROVE  KnownInv'
  BY <1>5, BeginSets, SetsKnown DEF KnownInv
<1> QED
  BY <1>2, <1>3, <1>4, <1>5, ServeKnown, AnswerKnown DEF Next

-----------------------------------------------------------------------------
(* One live token per family                                               *)

\* A rotation that is under way has its token locked, and the token is good.
RotationIsLocked ==
    \A c \in Clients : client[c].pc = "insert" =>
        row[client[c].token].lock = c /\ Live(client[c].token)

\* A token that a revocation has not seen, in a family of which it has seen some, was
\* added since and is marked for that.
LateTokensAreMarked ==
    \A c \in Clients : client[c].pc = "revoke" =>
        \A u \in client[c].seen : \A t \in Tokens \ client[c].seen :
            Live(t) /\ row[t].family = row[u].family => row[t].late

FamilyHasOneLive ==
    \A t \in Tokens : Live(t) =>
        \A u \in Tokens \ {t} : row[u].family = row[t].family =>
            /\ ~Live(u)
            /\ row[u].revoked => row[t].late

RotationInv == KnownInv /\ RotationIsLocked /\ LateTokensAreMarked /\ FamilyHasOneLive

-----------------------------------------------------------------------------
(* Why a token is presented again                                          *)

\* The clients of a store with no excuse run one after the other.
Alone ==
    \A s \in Stores \ excused : \A c, d \in Clients :
        client[c].store = s /\ client[d].store = s => c = d

\* A token never gets from one store to another.
Has(s, t) == held[s] = t \/ \E c \in Clients : client[c].store = s /\ client[c].token = t
OneStore == \A s, z \in Stores, t \in Tokens : Has(s, t) /\ Has(z, t) => s = z

\* What a store with no excuse has, or a client of it presents or brings, is unused; only
\* the token that is being replaced is not.
FreshTokens ==
    /\ \A c \in Clients :
          client[c].pc \in {"rotate", "insert", "reply"} /\ client[c].store \notin excused =>
              ~row[client[c].token].used
    /\ \A s \in Stores \ excused : held[s] # 0 /\ row[held[s]].used =>
          \E c \in Clients : client[c].store = s /\ client[c].pc = "reply"

CauseInv == KnownInv /\ Alone /\ OneStore /\ FreshTokens /\ ReuseHasACause

-----------------------------------------------------------------------------
(* How long access lasts                                                   *)

AccessIsBounded ==
    /\ access <= clock + AccessLife
    /\ \A revoked \in cut :
          /\ \A t \in Tokens : ~Live(t)
          /\ access <= revoked + AccessLife
          /\ \A e \in browser : e <= revoked + AccessLife + BrowserLife

\* The three parts of the invariant, of the next state.
RotationNext ==
    /\ \A c \in Clients : client'[c].pc = "insert" =>
          /\ row'[client'[c].token].lock = c
          /\ ~row'[client'[c].token].used /\ ~row'[client'[c].token].revoked
    /\ \A c \in Clients : client'[c].pc = "revoke" =>
          \A u \in client'[c].seen : \A t \in DOMAIN row' \ client'[c].seen :
              ~row'[t].used /\ ~row'[t].revoked /\ row'[t].family = row'[u].family => row'[t].late
    /\ \A t \in DOMAIN row' : ~row'[t].used /\ ~row'[t].revoked =>
          \A u \in DOMAIN row' \ {t} : row'[u].family = row'[t].family =>
              /\ row'[u].used \/ row'[u].revoked
              /\ row'[u].revoked => row'[t].late

LEMMA RotationNow ==
    ASSUME RotationInv
    PROVE  /\ \A c \in Clients : client[c].pc = "insert" =>
                 /\ row[client[c].token].lock = c
                 /\ ~row[client[c].token].used /\ ~row[client[c].token].revoked
           /\ \A c \in Clients : client[c].pc = "revoke" =>
                 \A u \in client[c].seen : \A t \in Tokens \ client[c].seen :
                     ~row[t].used /\ ~row[t].revoked /\ row[t].family = row[u].family => row[t].late
           /\ \A t \in Tokens : ~row[t].used /\ ~row[t].revoked =>
                 \A u \in Tokens \ {t} : row[u].family = row[t].family =>
                     /\ row[u].used \/ row[u].revoked
                     /\ row[u].revoked => row[t].late
           /\ \A c \in Clients : /\ client[c].seen \subseteq Tokens
                                 /\ client[c].pc = "insert" => client[c].token \in Tokens
<1>1. ASSUME NEW c \in Clients
      PROVE  /\ client[c].seen \subseteq Tokens
             /\ client[c].pc = "insert" => client[c].token \in Tokens
  <2>1. KnownClient(client[c], Len(row)) /\ client[c] \in ClientType
        /\ Len(row) \in Nat /\ Tokens = 1..Len(row)
    BY KnownClients DEF RotationInv
  <2> QED
    BY <2>1 DEF KnownClient, ClientType
<1> QED
  BY <1>1 DEF RotationInv, RotationIsLocked, LateTokensAreMarked, FamilyHasOneLive, Live

\* Steps that leave the tokens alone and begin neither a rotation nor a revocation.
LEMMA RotationQuiet ==
    ASSUME RotationInv, NEW c \in Clients, NEW q, Goes(c, q), row' = row,
           q.pc \notin {"insert", "revoke"}
    PROVE  RotationNext
<1>1. \A d \in Clients : client'[d].pc \in {"insert", "revoke"} => client'[d] = client[d]
  BY DEF Goes
<1> QED
  BY <1>1, RotationNow DEF RotationNext, Tokens

LEMMA RotationReads ==
    ASSUME RotationInv, NEW c \in Clients, ReadRows(c)
    PROVE  RotationNext
<1> DEFINE seen == {t \in InScope(c) : ~row[t].revoked}
<1>1. client' = [client EXCEPT ![c] = Revoking(client[c], seen)]
  BY DEF RotationInv, KnownInv, TypeOK, Revoking, ClientType, ReadRows
<1>2. \A u \in seen, t \in Tokens \ seen : row[t].family = row[u].family => row[t].revoked
  <2> SUFFICES ASSUME NEW u \in seen, NEW t \in Tokens \ seen, row[t].family = row[u].family
               PROVE  row[t].revoked
    OBVIOUS
  <2>1. t \in InScope(c)
    BY DEF InScope
  <2> QED
    BY <2>1
<1>3. seen \in SUBSET (1..MaxTokens) /\ client[c] \in ClientType
  <2>1. seen \subseteq Tokens
    BY DEF InScope
  <2>2. Tokens = 1..Len(row) /\ Len(row) \in Nat /\ Len(row) <= MaxTokens /\ client[c] \in ClientType
    BY KnownClients DEF RotationInv, KnownInv, TypeOK
  <2> HIDE DEF seen
  <2> QED
    BY <2>1, <2>2, BoundsType
<1> HIDE DEF seen
<1>4. /\ client'[c].pc = "revoke" /\ client'[c].seen = seen
      /\ \A d \in Clients \ {c} : client'[d] = client[d]
  BY <1>1, <1>3, RevokeType DEF RotationInv, KnownInv, TypeOK
<1>5. row' = row
  BY DEF ReadRows
<1>6. \A d \in Clients : client'[d].pc = "insert" => client'[d] = client[d]
  BY <1>4
<1>7. ASSUME NEW d \in Clients, client'[d].pc = "revoke",
             NEW u \in client'[d].seen, NEW t \in Tokens \ client'[d].seen,
             ~row[t].used, ~row[t].revoked, row[t].family = row[u].family
      PROVE  row[t].late
  <2>1. CASE d = c
    BY <1>2, <1>4, <1>7, <2>1
  <2>2. CASE d # c
    BY <1>4, <1>7, <2>2, RotationNow
  <2> QED
    BY <2>1, <2>2
<1> QED
  BY <1>5, <1>6, <1>7, RotationNow DEF RotationNext, Tokens

LEMMA RotationLocks ==
    ASSUME RotationInv, NEW c \in Clients, ReadToken(c)
    PROVE  RotationNext
<1>1. /\ client[c].token \in Tokens /\ client[c].pc = "rotate"
      /\ OnlyLocks
      /\ \A t \in Tokens \ {client[c].token} : row'[t] = row[t]
      /\ row[client[c].token].lock = None
      /\ \/ /\ row[client[c].token].used
            /\ client' = [client EXCEPT ![c].pc = "reuse", ![c].scope = "family"]
         \/ client' = [client EXCEPT ![c] = Idle]
         \/ /\ Live(client[c].token)
            /\ row'[client[c].token].lock = c
            /\ client' = [client EXCEPT ![c].pc = "insert"]
  BY ReadTokenRows DEF RotationInv
<1>2. DOMAIN row' = Tokens
  BY <1>1 DEF OnlyLocks, RotationInv, KnownInv, TypeOK, Tokens
<1>3. client \in [Clients -> ClientType] /\ client[c] \in ClientType
  BY DEF RotationInv, KnownInv, TypeOK
<1>4. /\ \A d \in Clients \ {c} : client'[d] = client[d]
      /\ client'[c].pc # "revoke"
      /\ client'[c].pc = "insert" => /\ client'[c].token = client[c].token
                                     /\ Live(client[c].token)
                                     /\ row'[client[c].token].lock = c
  <2>1. CASE client' = [client EXCEPT ![c].pc = "reuse", ![c].scope = "family"]
    BY <1>3, <2>1 DEF ClientType
  <2>2. CASE client' = [client EXCEPT ![c] = Idle]
    BY <1>3, <2>2, IdleType
  <2>3. CASE /\ Live(client[c].token) /\ row'[client[c].token].lock = c
             /\ client' = [client EXCEPT ![c].pc = "insert"]
    BY <1>3, <2>3 DEF ClientType
  <2> QED
    BY <1>1, <2>1, <2>2, <2>3
<1>5. \A t \in Tokens : /\ row'[t].family = row[t].family /\ (row'[t].used <=> row[t].used)
                        /\ (row'[t].revoked <=> row[t].revoked) /\ (row'[t].late <=> row[t].late)
  BY <1>1 DEF OnlyLocks, SameButLock
<1>6. ASSUME NEW d \in Clients, client'[d].pc = "insert"
      PROVE  /\ row'[client'[d].token].lock = d
             /\ ~row'[client'[d].token].used /\ ~row'[client'[d].token].revoked
  <2>1. CASE d = c
    BY <1>1, <1>4, <1>5, <1>6, <2>1 DEF Live
  <2>2. CASE d # c
    <3>1. client'[d] = client[d] /\ client[d].token \in Tokens /\ row[client[d].token].lock = d
          /\ ~row[client[d].token].used /\ ~row[client[d].token].revoked
      BY <1>4, <1>6, <2>2, RotationNow
    <3>2. client[d].token # client[c].token
      BY <1>1, <3>1, Sentinel
    <3> QED
      BY <1>1, <3>1, <3>2
  <2> QED
    BY <2>1, <2>2
<1>7. \A d \in Clients : client'[d].pc = "revoke" => client'[d] = client[d]
  BY <1>4
<1> QED
  BY <1>2, <1>5, <1>6, <1>7, RotationNow DEF RotationNext

\* A login begins a family of its own.
LEMMA RotationIssues ==
    ASSUME RotationInv, NEW c \in Clients, Issue(c)
    PROVE  RotationNext
<1> DEFINE n == Len(row) + 1
<1>1. Added(n, FALSE) /\ \A t \in Tokens : row'[t] = row[t]
  BY IssueRows DEF RotationInv
<1>2. DOMAIN row' = Tokens \cup {n} /\ n \notin Tokens
  BY <1>1, AddedRowsKnown DEF RotationInv, Added
<1>3. \A t \in Tokens : row'[t].family # row'[n].family
  <2>1. \A t \in Tokens : row[t].family \in Nat /\ row[t].family <= Len(row)
    BY RowElement DEF RotationInv, KnownInv, TokensAreKnown, RowType
  <2>2. row'[n].family = Len(row) + 1 /\ Len(row) \in Nat
    BY <1>1 DEF Added, RotationInv, KnownInv, TypeOK
  <2> QED
    BY <1>1, <2>1, <2>2
<1>4. \A d \in Clients : client'[d].pc \in {"insert", "revoke"} => client'[d] = client[d]
  <2>1. client' = [client EXCEPT ![c] = Request("reply", client[c].store, n)]
    BY Zenon DEF Issue
  <2>2. client[c].store \in Stores \cup {None} /\ n \in 0..MaxTokens
    BY <1>1, BoundsType DEF RotationInv, KnownInv, TypeOK, ClientType, Added
  <2> HIDE DEF n
  <2>3. Request("reply", client[c].store, n).pc = "reply"
    BY <2>2, RequestType
  <2> QED
    BY <2>1, <2>3 DEF RotationInv, KnownInv, TypeOK
<1> HIDE DEF n
<1>5. ASSUME NEW d \in Clients, client'[d].pc = "insert"
      PROVE  /\ row'[client'[d].token].lock = d
             /\ ~row'[client'[d].token].used /\ ~row'[client'[d].token].revoked
  BY <1>1, <1>4, <1>5, RotationNow
<1>6. ASSUME NEW d \in Clients, client'[d].pc = "revoke",
             NEW u \in client'[d].seen, NEW t \in DOMAIN row' \ client'[d].seen,
             ~row'[t].used, ~row'[t].revoked, row'[t].family = row'[u].family
      PROVE  row'[t].late
  BY <1>1, <1>2, <1>3, <1>4, <1>6, RotationNow
<1>7. ASSUME NEW t \in DOMAIN row', ~row'[t].used, ~row'[t].revoked,
             NEW u \in DOMAIN row' \ {t}, row'[u].family = row'[t].family
      PROVE  (row'[u].used \/ row'[u].revoked) /\ (row'[u].revoked => row'[t].late)
  BY <1>1, <1>2, <1>3, <1>7, RotationNow
<1> QED
  BY <1>5, <1>6, <1>7 DEF RotationNext

\* A rotation: the new token takes the place of the one it spends, and what a revocation
\* under way has not seen of the family is marked.
LEMMA RotationCommits ==
    ASSUME RotationInv, NEW c \in Clients, CommitRotation(c)
    PROVE  RotationNext
<1> DEFINE n == Len(row) + 1
           p == client[c].token
           late == \/ row[p].late
                   \/ \E d \in Clients : client[d].pc = "revoke" /\ p \in client[d].seen
<1>1. /\ p \in Tokens /\ client[c].pc = "insert"
      /\ Added(row[p].family, late)
      /\ \A u \in Tokens \ {p} : row'[u] = row[u]
      /\ row'[p] = Spent(row[p])
      /\ client' = [client EXCEPT ![c].pc = "reply", ![c].token = n]
  BY CommitRotationRows DEF RotationInv
<1>2. row[p] \in RowType /\ row[p].family <= Len(row) + 1
  BY <1>1, RowElement DEF RotationInv, KnownInv, TypeOK, TokensAreKnown, RowType
<1>3. row'[p].used /\ row'[p].family = row[p].family /\ (row'[p].revoked <=> row[p].revoked)
  BY <1>1, <1>2, SpentType
<1>4. /\ row[p].lock = c /\ ~row[p].used /\ ~row[p].revoked
  BY <1>1, RotationNow
<1>5. /\ row'[n].family = row[p].family /\ (row'[n].late <=> late)
      /\ ~row'[n].used /\ ~row'[n].revoked
  BY <1>1 DEF Added
<1>6. DOMAIN row' = Tokens \cup {n} /\ n \notin Tokens
  <2>1. \A u \in Tokens : row'[u].family = row[u].family
    BY <1>1, <1>3
  <2> HIDE DEF late
  <2> QED
    BY <1>1, <1>2, <2>1, AddedRowsKnown DEF RotationInv
<1>7. \A d \in Clients : client'[d].pc \in {"insert", "revoke"} => client'[d] = client[d] /\ d # c
  BY <1>1 DEF RotationInv, KnownInv, TypeOK, ClientType
<1>8. \A d \in Clients : client[d].pc = "revoke" /\ p \in client[d].seen => late
  OBVIOUS
<1>9. row[p].late => late
  OBVIOUS
<1> HIDE DEF n, p, late
<1>10. ASSUME NEW d \in Clients, client'[d].pc = "insert"
       PROVE  /\ row'[client'[d].token].lock = d
              /\ ~row'[client'[d].token].used /\ ~row'[client'[d].token].revoked
  <2>1. /\ client'[d] = client[d] /\ d # c /\ client[d].token \in Tokens
        /\ row[client[d].token].lock = d
        /\ ~row[client[d].token].used /\ ~row[client[d].token].revoked
    BY <1>7, <1>10, RotationNow
  <2>2. client[d].token # p
    BY <1>4, <2>1
  <2> QED
    BY <1>1, <2>1, <2>2
<1>11. ASSUME NEW d \in Clients, client'[d].pc = "revoke",
              NEW u \in client'[d].seen, NEW t \in DOMAIN row' \ client'[d].seen,
              ~row'[t].used, ~row'[t].revoked, row'[t].family = row'[u].family
       PROVE  row'[t].late
  <2>1. client'[d] = client[d] /\ client[d].pc = "revoke" /\ u \in client[d].seen /\ u \in Tokens
        /\ t \notin client[d].seen
    BY <1>7, <1>11, RotationNow
  <2>2. row'[u].family = row[u].family
    BY <1>1, <1>3, <2>1
  <2>3. CASE t = n
    <3>1. CASE p \in client[d].seen
      BY <1>5, <1>8, <2>1, <2>3, <3>1
    <3>2. CASE p \notin client[d].seen
      <4>1. row[p].family = row[u].family
        BY <1>5, <1>11, <2>2, <2>3
      <4>2. row[p].late
        BY <1>1, <1>4, <2>1, <3>2, <4>1, RotationNow
      <4> QED
        BY <1>5, <1>9, <2>3, <4>2
    <3> QED
      BY <3>1, <3>2
  <2>4. CASE t # n
    <3>1. t \in Tokens \ {p}
      BY <1>3, <1>6, <1>11, <2>4
    <3> QED
      BY <1>1, <1>11, <2>1, <2>2, <3>1, RotationNow
  <2> QED
    BY <2>3, <2>4
<1>12. ASSUME NEW t \in DOMAIN row', ~row'[t].used, ~row'[t].revoked,
              NEW u \in DOMAIN row' \ {t}, row'[u].family = row'[t].family
       PROVE  (row'[u].used \/ row'[u].revoked) /\ (row'[u].revoked => row'[t].late)
  <2>1. CASE t = n
    <3>1. u \in Tokens
      BY <1>6, <1>12, <2>1
    <3>2. CASE u = p
      BY <1>3, <1>4, <3>2
    <3>3. CASE u # p
      <4>1. row'[u] = row[u] /\ row[u].family = row[p].family
        BY <1>1, <1>5, <1>12, <2>1, <3>1, <3>3
      <4>2. (row[u].used \/ row[u].revoked) /\ (row[u].revoked => row[p].late)
        BY <1>1, <1>4, <3>1, <3>3, <4>1, RotationNow
      <4> QED
        BY <1>5, <1>9, <2>1, <4>1, <4>2
    <3> QED
      BY <3>2, <3>3
  <2>2. CASE t # n
    <3>1. t \in Tokens \ {p} /\ row'[t] = row[t]
      BY <1>1, <1>3, <1>6, <1>12, <2>2
    <3>2. row[t].family # row[p].family
      BY <1>1, <1>4, <1>12, <3>1, RotationNow
    <3>3. u \in Tokens \ {p}
      BY <1>3, <1>5, <1>6, <1>12, <3>1, <3>2
    <3> QED
      BY <1>1, <1>12, <3>1, <3>3, RotationNow
  <2> QED
    BY <2>1, <2>2
<1> QED
  BY <1>10, <1>11, <1>12 DEF RotationNext

\* The end of a revocation, or of nothing: it revokes no token that another client has
\* locked.
LEMMA RotationRevokes ==
    ASSUME RotationInv, NEW c \in Clients, NEW seen, Revokes(c, seen),
           NEW q, Goes(c, q), q.pc \notin {"insert", "revoke"}, client[c].pc = "revoke",
           seen \in {{}, client[c].seen},
           \A t \in seen : row[t].lock \in {None, c}
    PROVE  RotationNext
<1>1. DOMAIN row' = Tokens
  BY DEF Revokes, RotationInv, KnownInv, TypeOK, Tokens
<1>2. \A t \in Tokens :
          /\ row'[t].family = row[t].family
          /\ row'[t].used <=> row[t].used
          /\ row'[t].late <=> row[t].late
          /\ row'[t].revoked <=> row[t].revoked \/ t \in seen
          /\ row'[t].lock = IF row[t].lock = c THEN None ELSE row[t].lock
  BY DEF Revokes
<1>3. \A d \in Clients : client'[d].pc \in {"insert", "revoke"} => client'[d] = client[d] /\ d # c
  BY DEF Goes
<1>4. ASSUME NEW d \in Clients, client'[d].pc = "insert"
      PROVE  /\ row'[client'[d].token].lock = d
             /\ ~row'[client'[d].token].used /\ ~row'[client'[d].token].revoked
  <2>1. /\ client'[d] = client[d] /\ d # c /\ client[d].token \in Tokens
        /\ row[client[d].token].lock = d
        /\ ~row[client[d].token].used /\ ~row[client[d].token].revoked
    BY <1>3, <1>4, RotationNow
  <2>2. client[d].token \notin seen
    BY <2>1, Sentinel
  <2> QED
    BY <1>2, <2>1, <2>2
<1>5. ASSUME NEW d \in Clients, client'[d].pc = "revoke",
             NEW u \in client'[d].seen, NEW t \in DOMAIN row' \ client'[d].seen,
             ~row'[t].used, ~row'[t].revoked, row'[t].family = row'[u].family
      PROVE  row'[t].late
  BY <1>1, <1>2, <1>3, <1>5, RotationNow
<1>6. ASSUME NEW t \in DOMAIN row', ~row'[t].used, ~row'[t].revoked,
             NEW u \in DOMAIN row' \ {t}, row'[u].family = row'[t].family
      PROVE  (row'[u].used \/ row'[u].revoked) /\ (row'[u].revoked => row'[t].late)
  <2>1. t \in Tokens \ seen /\ u \in Tokens \ {t} /\ row[u].family = row[t].family
        /\ ~row[t].used /\ ~row[t].revoked
    BY <1>1, <1>2, <1>6
  <2>2. (row[u].used \/ row[u].revoked) /\ (row[u].revoked => row[t].late)
    BY <2>1, RotationNow
  <2>3. u \in seen => row[t].late
    BY <2>1, RotationNow
  <2> QED
    BY <1>2, <2>1, <2>2, <2>3
<1> QED
  BY <1>4, <1>5, <1>6 DEF RotationNext

LEMMA RotationStep ==
    ASSUME RotationInv, [Next]_vars
    PROVE  RotationInv'
<1>1. KnownInv'
  BY KnownStep DEF RotationInv
<1>2. KnownInv /\ TypeOK
  BY DEF RotationInv, KnownInv
<1>3. RotationNext => RotationInv'
  BY <1>1 DEF RotationInv, RotationNext, RotationIsLocked, LateTokensAreMarked,
              FamilyHasOneLive, Live, Tokens
<1>4. ASSUME UNCHANGED <<row, client>> PROVE RotationNext
  BY <1>4, RotationNow DEF RotationNext, Tokens
<1>5. ASSUME NEW c \in Clients, NEW s \in Stores,
             \/ StartDeviceLogin(c, s) \/ StartWebLogin(c, s)
             \/ Refresh(c, s) \/ Logout(c, s) \/ RevokeAll(c, s)
      PROVE  RotationNext
  <2>1. Sets(c, s)
    BY <1>2, <1>5, BeginSets
  <2>2. PICK q : Goes(c, q) /\ q.pc \notin {"insert", "revoke"} /\ row' = row
    BY <2>1 DEF Sets
  <2> QED
    BY <2>2, RotationQuiet
<1>6. ASSUME NEW c \in Clients, Answer(c) PROVE RotationNext
  <2>1. Goes(c, Idle) /\ row' = row
    BY <1>2, <1>6, AnswerKnown
  <2> QED
    BY <2>1, RotationQuiet, IdleType
<1>7. ASSUME NEW c \in Clients, Serve(c) PROVE RotationNext
  <2>1. CASE CompleteDeviceLogin(c) \/ CompleteWebLogin(c)
    BY <2>1, RotationIssues DEF CompleteDeviceLogin, CompleteWebLogin
  <2>2. CASE FailLogin(c)
    <3>1. Goes(c, Idle) /\ row' = row
      BY <1>2, <2>2, IdleType, GoesOn DEF FailLogin
    <3> QED
      BY <3>1, RotationQuiet, IdleType
  <2>3. CASE ReadToken(c)
    BY <2>3, RotationLocks
  <2>4. CASE CommitRotation(c)
    BY <2>4, RotationCommits
  <2>5. CASE ReadRows(c)
    BY <2>5, RotationReads
  <2>6. CASE Abort(c)
    <3>1. Revokes(c, {}) /\ Goes(c, Idle) /\ client[c].pc = "revoke"
      BY <1>2, <2>6, AbortRows, IdleType, GoesOn DEF Abort
    <3> QED
      BY <3>1, RotationRevokes, IdleType
  <2>7. CASE CommitRevocation(c)
    <3>1. Revokes(c, client[c].seen)
      BY <1>2, <2>7, CommitRevocationRows
    <3>2. client' = [client EXCEPT ![c] = Idle] \/ client' = [client EXCEPT ![c] = Ending(client[c])]
      BY <1>2, <2>7, CommitRevocationRows, Zenon DEF Ending
    <3>3. client[c] \in ClientType
      BY <1>2 DEF TypeOK
    <3>4. PICK q : Goes(c, q) /\ q.pc \notin {"insert", "revoke"}
      BY <1>2, <3>2, <3>3, GoesOn, IdleType, EndType
    <3>5. client[c].pc = "revoke" /\ \A t \in client[c].seen : row[t].lock \in {None, c}
      BY <2>7 DEF CommitRevocation, Waiting
    <3> QED
      BY <3>1, <3>4, <3>5, RotationRevokes
  <2>8. CASE RevokeBrowserSessions(c)
    <3>1. client[c].store \in Stores \cup {None} /\ 0 \in 0..MaxTokens
      BY <1>2, BoundsType DEF TypeOK, ClientType
    <3>2. PICK q \in ClientType : q = Request("clear", client[c].store, 0) /\ q.pc = "clear"
      BY <3>1, RequestType
    <3>3. client' = [client EXCEPT ![c] = q] /\ row' = row
      BY <2>8, <3>2, Zenon DEF RevokeBrowserSessions
    <3> QED
      BY <1>2, <3>2, <3>3, GoesOn, RotationQuiet
  <2> QED
    BY <1>7, <2>1, <2>2, <2>3, <2>4, <2>5, <2>6, <2>7, <2>8 DEF Serve
<1> QED
  BY <1>3, <1>4, <1>5, <1>6, <1>7 DEF Next, OpenMlflow, Tick, vars

\* A family of refresh tokens has at most one that can still be rotated, and one that was
\* revoked has none but those added while the revocation was written: for any number of
\* clients, stores and tokens, whatever rotations, reuses and revocations overlap.
THEOREM OneLiveTokenSafety == Spec => []OneLiveToken
<1>1. Init => RotationInv
  BY IdleType, BoundsType DEF Init, RotationInv, KnownInv, TypeOK, TokensAreKnown, KnownClient,
     RotationIsLocked, LateTokensAreMarked, FamilyHasOneLive, Tokens
<1>2. RotationInv /\ [Next]_vars => RotationInv'
  BY RotationStep
<1>3. RotationInv => OneLiveToken
  BY DEF RotationInv, KnownInv, FamilyHasOneLive, OneLiveToken
<1> QED
  BY <1>1, <1>2, <1>3, PTL DEF Spec

-----------------------------------------------------------------------------
(* Reuse has a cause                                                       *)

HasNext(s, t) == held'[s] = t \/ \E c \in Clients : client'[c].store = s /\ client'[c].token = t

\* The parts of the invariant, of the next state.
CauseNext ==
    /\ \A s \in Stores \ excused' : \A c, d \in Clients :
          client'[c].store = s /\ client'[d].store = s => c = d
    /\ \A s, z \in Stores, t \in DOMAIN row' : HasNext(s, t) /\ HasNext(z, t) => s = z
    /\ \A c \in Clients :
          client'[c].pc \in {"rotate", "insert", "reply"} /\ client'[c].store \notin excused' =>
              ~row'[client'[c].token].used
    /\ \A s \in Stores \ excused' : held'[s] # 0 /\ row'[held'[s]].used =>
          \E c \in Clients : client'[c].store = s /\ client'[c].pc = "reply"
    /\ \A c \in Clients : client'[c].pc = "reuse" => client'[c].store \in excused'

LEMMA CauseNow ==
    ASSUME CauseInv
    PROVE  /\ \A s \in Stores \ excused : \A c, d \in Clients :
                 client[c].store = s /\ client[d].store = s => c = d
           /\ \A s, z \in Stores, t \in Tokens : Has(s, t) /\ Has(z, t) => s = z
           /\ \A c \in Clients :
                 client[c].pc \in {"rotate", "insert", "reply"} /\ client[c].store \notin excused =>
                     ~row[client[c].token].used
           /\ \A s \in Stores \ excused : held[s] # 0 /\ row[held[s]].used =>
                 \E c \in Clients : client[c].store = s /\ client[c].pc = "reply"
           /\ \A c \in Clients : client[c].pc = "reuse" => client[c].store \in excused
           /\ \A s \in Stores : held[s] # 0 => held[s] \in Tokens
           /\ \A c \in Clients :
                 /\ client[c].pc \in {"rotate", "insert", "reply"} => client[c].token \in Tokens
                 /\ client[c].pc # "idle" => client[c].store \in Stores
                 /\ client[c].pc = "idle" => client[c].store = None
           /\ 0 \notin Tokens
<1>1. Tokens = 1..Len(row) /\ Len(row) \in Nat
  BY DEF CauseInv, KnownInv, TypeOK, Tokens
<1>2. \A s \in Stores : held[s] # 0 => held[s] \in Tokens
  BY <1>1 DEF CauseInv, KnownInv, TypeOK, TokensAreKnown
<1>3. ASSUME NEW c \in Clients
      PROVE  /\ client[c].pc \in {"rotate", "insert", "reply"} => client[c].token \in Tokens
             /\ client[c].pc # "idle" => client[c].store \in Stores
             /\ client[c].pc = "idle" => client[c].store = None
  <2>1. KnownClient(client[c], Len(row)) /\ client[c] \in ClientType
    BY KnownClients DEF CauseInv
  <2> QED
    BY <1>1, <2>1 DEF KnownClient, ClientType
<1> QED
  BY <1>1, <1>2, <1>3 DEF CauseInv, Alone, OneStore, FreshTokens, ReuseHasACause

\* Nobody gets a token from another store.
Inherits(c, q) ==
    /\ \/ q.token = 0 \/ q.store = None \/ q.token = held[q.store]
       \/ q.token = client[c].token /\ q.store = client[c].store
    /\ \A s \in Stores :
          \/ held'[s] = 0 \/ held'[s] = held[s]
          \/ held'[s] = client[c].token /\ s = client[c].store

LEMMA HasNothingNew ==
    ASSUME CauseInv, NEW c \in Clients, NEW q, Goes(c, q), Inherits(c, q), DOMAIN row' = Tokens
    PROVE  \A s, z \in Stores, t \in DOMAIN row' : HasNext(s, t) /\ HasNext(z, t) => s = z
<1>1. ASSUME NEW s \in Stores, NEW t \in Tokens, HasNext(s, t) PROVE Has(s, t)
  <2>1. CASE held'[s] = t
    BY <2>1, CauseNow DEF Has, Inherits
  <2>2. CASE \E d \in Clients : client'[d].store = s /\ client'[d].token = t
    <3>1. PICK d \in Clients : client'[d].store = s /\ client'[d].token = t
      BY <2>2
    <3>2. CASE d # c
      BY <3>1, <3>2 DEF Goes, Has
    <3>3. CASE d = c
      <4>1. q.store = s /\ q.token = t /\ t # 0 /\ s # None
        BY <3>1, <3>3, CauseNow, Sentinel DEF Goes
      <4>2. held[s] = t \/ (client[c].token = t /\ client[c].store = s)
        BY <4>1 DEF Inherits
      <4> QED
        BY <4>2 DEF Has
    <3> QED
      BY <3>2, <3>3
  <2> QED
    BY <1>1, <2>1, <2>2 DEF HasNext
<1> QED
  BY <1>1, CauseNow

\* A client goes on with its request, or gives it up before there was an answer.
LEMMA CauseGoes ==
    ASSUME CauseInv, NEW c \in Clients, NEW q, Goes(c, q), UNCHANGED <<held, excused>>,
           DOMAIN row' = Tokens, \A t \in Tokens : row'[t].used <=> row[t].used,
           client[c].pc # "reply", q.pc \notin {"rotate", "reply"},
           q.store \in {client[c].store, None}, q.token \in {client[c].token, 0},
           q.pc = "insert" => q = [client[c] EXCEPT !.pc = "insert"] /\ client[c].pc = "rotate",
           q.pc = "reuse" => q.store \in excused
    PROVE  CauseNext
<1>1. \A d \in Clients : d # c => client'[d] = client[d]
  BY DEF Goes
<1>2. client'[c] = q
  BY DEF Goes
<1>3. \A s, z \in Stores, t \in DOMAIN row' : HasNext(s, t) /\ HasNext(z, t) => s = z
  <2>1. Inherits(c, q)
    BY DEF Inherits
  <2> QED
    BY <2>1, HasNothingNew
<1>4. \A s \in Stores \ excused' : \A d, e \in Clients :
          client'[d].store = s /\ client'[e].store = s => d = e
  BY <1>1, <1>2, CauseNow, Sentinel
<1>5. ASSUME NEW d \in Clients, client'[d].pc \in {"rotate", "insert", "reply"},
             client'[d].store \notin excused'
      PROVE  ~row'[client'[d].token].used
  <2>1. client'[d].token = client[d].token /\ client'[d].store = client[d].store
        /\ client[d].pc \in {"rotate", "insert", "reply"}
    <3>1. CASE d # c
      BY <1>1, <1>5, <3>1
    <3>2. CASE d = c
      <4>1. q = [client[c] EXCEPT !.pc = "insert"] /\ client[c].pc = "rotate"
        BY <1>2, <1>5, <3>2
      <4>2. client[c] \in ClientType
        BY DEF CauseInv, KnownInv, TypeOK
      <4>3. q.token = client[c].token /\ q.store = client[c].store
        BY <4>1, <4>2 DEF ClientType
      <4> QED
        BY <1>2, <3>2, <4>1, <4>3
    <3> QED
      BY <3>1, <3>2
  <2>2. client[d].token \in Tokens /\ ~row[client[d].token].used
    BY <1>5, <2>1, CauseNow
  <2> QED
    BY <2>1, <2>2
<1>6. ASSUME NEW s \in Stores \ excused', held'[s] # 0, row'[held'[s]].used
      PROVE  \E d \in Clients : client'[d].store = s /\ client'[d].pc = "reply"
  <2>1. held[s] # 0 /\ held[s] \in Tokens /\ row[held[s]].used /\ s \notin excused
    BY <1>6, CauseNow
  <2>2. PICK d \in Clients : client[d].store = s /\ client[d].pc = "reply"
    BY <2>1, CauseNow
  <2> QED
    BY <1>1, <2>2
<1>7. \A d \in Clients : client'[d].pc = "reuse" => client'[d].store \in excused'
  BY <1>1, <1>2, CauseNow
<1> QED
  BY <1>3, <1>4, <1>5, <1>6, <1>7 DEF CauseNext

LEMMA CauseSets ==
    ASSUME CauseInv, NEW c \in Clients, NEW s \in Stores, Sets(c, s)
    PROVE  CauseNext
<1>1. PICK q \in ClientType :
          /\ Goes(c, q)
          /\ q.store = s /\ q.seen = {}
          /\ \/ q.pc \in {"device", "redirect"} /\ q.token = 0
             \/ q.pc \in {"rotate", "read"} /\ q.token = held[s] /\ held[s] # 0
             \/ q.pc = "read" /\ q.token = 0
  BY DEF Sets
<1>2. /\ row' = row /\ held' = held
      /\ excused' = IF \A d \in Clients \ {c} : client[d].store # s THEN excused ELSE excused \cup {s}
      /\ client[c].pc = "idle" /\ client[c].store = None
  BY CauseNow DEF Sets
<1>3. client'[c] = q /\ \A d \in Clients : d # c => client'[d] = client[d]
  BY <1>1 DEF Goes
<1>4. \A z, y \in Stores, t \in DOMAIN row' : HasNext(z, t) /\ HasNext(y, t) => z = y
  <2>1. DOMAIN row' = Tokens /\ q.token \in {0, held[q.store]}
    BY <1>1, <1>2 DEF Tokens
  <2>2. Inherits(c, q)
    BY <1>2, <2>1 DEF Inherits
  <2> QED
    BY <1>1, <2>1, <2>2, HasNothingNew
<1>5. ASSUME NEW z \in Stores \ excused', NEW d \in Clients, NEW e \in Clients,
             client'[d].store = z, client'[e].store = z
      PROVE  d = e
  BY <1>1, <1>2, <1>3, <1>5, CauseNow, Sentinel
<1>6. ASSUME NEW d \in Clients, client'[d].pc \in {"rotate", "insert", "reply"},
             client'[d].store \notin excused'
      PROVE  ~row'[client'[d].token].used
  <2>1. CASE d # c
    <3>1. client'[d] = client[d] /\ client[d].store \notin excused
      BY <1>2, <1>3, <1>6, <2>1
    <3> QED
      BY <1>2, <1>6, <3>1, CauseNow
  <2>2. CASE d = c
    <3>1. q.token = held[s] /\ held[s] # 0 /\ s \notin excused
          /\ \A e \in Clients \ {c} : client[e].store # s
      BY <1>1, <1>2, <1>3, <1>6, <2>2
    <3>2. \A e \in Clients : ~(client[e].store = s /\ client[e].pc = "reply")
      BY <1>2, <3>1
    <3>3. ~row[held[s]].used
      BY <3>1, <3>2, CauseNow
    <3> QED
      BY <1>2, <1>3, <2>2, <3>1, <3>3
  <2> QED
    BY <2>1, <2>2
<1>7. ASSUME NEW z \in Stores \ excused', held'[z] # 0, row'[held'[z]].used
      PROVE  \E d \in Clients : client'[d].store = z /\ client'[d].pc = "reply"
  <2>1. z \notin excused /\ held[z] # 0 /\ row[held[z]].used
    BY <1>2, <1>7
  <2>2. PICK d \in Clients : client[d].store = z /\ client[d].pc = "reply"
    BY <2>1, CauseNow
  <2> QED
    BY <1>2, <1>3, <2>2
<1>8. \A d \in Clients : client'[d].pc = "reuse" => client'[d].store \in excused'
  BY <1>1, <1>2, <1>3, CauseNow
<1> QED
  BY <1>4, <1>5, <1>6, <1>7, <1>8 DEF CauseNext

\* An answer arrives, or does not.
LEMMA CauseAnswers ==
    ASSUME CauseInv, NEW c \in Clients, Answer(c)
    PROVE  CauseNext
<1>1. Goes(c, Idle) /\ row' = row
  BY AnswerKnown DEF CauseInv
<1>2. client'[c] = Idle /\ \A d \in Clients : d # c => client'[d] = client[d]
  BY <1>1 DEF Goes
<1>3. client[c].store \in Stores
  BY CauseNow DEF Answer, StoreReply, Clear, LoseReply, ConnectError
<1>4. excused \subseteq excused'
      /\ (client[c].pc # "reply" \/ client[c].store \in excused' \/ held'[client[c].store] = client[c].token)
      /\ \A s \in Stores :
            \/ held'[s] = held[s] /\ (s # client[c].store \/ client[c].pc # "reply" \/ s \in excused')
            \/ held'[s] = 0
            \/ held'[s] = client[c].token /\ s = client[c].store /\ client[c].pc = "reply"
  <2>1. CASE StoreReply(c)
    <3>1. /\ held' = [held EXCEPT ![client[c].store] = client[c].token]
          /\ excused' = excused /\ client[c].pc = "reply"
      BY <2>1 DEF StoreReply, Kept, history
    <3> QED
      BY <1>3, <3>1 DEF CauseInv, KnownInv, TypeOK
  <2>2. CASE Clear(c)
    <3>1. held' = [held EXCEPT ![client[c].store] = 0] /\ excused' = excused /\ client[c].pc = "clear"
      BY <2>2 DEF Clear, history
    <3> QED
      BY <1>3, <3>1 DEF CauseInv, KnownInv, TypeOK
  <2>3. CASE LoseReply(c)
    BY <2>3 DEF LoseReply
  <2>4. CASE ConnectError(c)
    BY <2>4 DEF ConnectError, history
  <2> QED
    BY <2>1, <2>2, <2>3, <2>4 DEF Answer
<1>5. \A s, z \in Stores, t \in DOMAIN row' : HasNext(s, t) /\ HasNext(z, t) => s = z
  <2>1. Inherits(c, Idle) /\ DOMAIN row' = Tokens
    BY <1>1, <1>4, IdleType DEF Inherits, Tokens
  <2> QED
    BY <1>1, <2>1, HasNothingNew
<1>6. \A s \in Stores \ excused' : \A d, e \in Clients :
          client'[d].store = s /\ client'[e].store = s => d = e
  BY <1>2, <1>4, IdleType, CauseNow, Sentinel
<1>7. \A d \in Clients : client'[d].pc \in {"rotate", "insert", "reply", "reuse"} => client'[d] = client[d]
  BY <1>2, IdleType
<1>8. ASSUME NEW s \in Stores \ excused', held'[s] # 0, row'[held'[s]].used
      PROVE  \E d \in Clients : client'[d].store = s /\ client'[d].pc = "reply"
  <2>1. CASE held'[s] = held[s] /\ (s # client[c].store \/ client[c].pc # "reply")
    <3>1. PICK d \in Clients : client[d].store = s /\ client[d].pc = "reply"
      BY <1>1, <1>4, <1>8, <2>1, CauseNow
    <3> QED
      BY <1>2, <2>1, <3>1
  <2>2. CASE held'[s] = client[c].token /\ s = client[c].store /\ client[c].pc = "reply"
    BY <1>1, <1>4, <1>8, <2>2, CauseNow
  <2> QED
    BY <1>4, <1>8, <2>1, <2>2
<1> QED
  BY <1>1, <1>4, <1>5, <1>6, <1>7, <1>8, CauseNow DEF CauseNext

\* A new token goes to the client that asked for it.
LEMMA CauseAdds ==
    ASSUME CauseInv, NEW c \in Clients, NEW q, Goes(c, q), NEW n, n \notin Tokens, n \notin {0},
           q.pc = "reply", q.store = client[c].store, q.token = n, UNCHANGED <<held, excused>>,
           DOMAIN row' = Tokens \cup {n}, ~row'[n].used, client[c].pc \notin {"reply", "idle"},
           \A s \in Stores : held[s] # n, \A d \in Clients : client[d].token # n,
           \A t \in Tokens : \/ row'[t].used <=> row[t].used
                             \/ t = client[c].token
    PROVE  CauseNext
<1>1. client'[c] = q /\ \A d \in Clients : d # c => client'[d] = client[d]
  BY DEF Goes
<1>2. ASSUME NEW s \in Stores, NEW t \in Tokens, HasNext(s, t) PROVE Has(s, t)
  BY <1>1, <1>2 DEF HasNext, Has
<1>3. ASSUME NEW s \in Stores, HasNext(s, n) PROVE s = client[c].store
  BY <1>1, <1>3 DEF HasNext
<1>4. \A s, z \in Stores, t \in DOMAIN row' : HasNext(s, t) /\ HasNext(z, t) => s = z
  BY <1>2, <1>3, CauseNow
<1>5. \A s \in Stores \ excused' : \A d, e \in Clients :
          client'[d].store = s /\ client'[e].store = s => d = e
  <2>1. \A d \in Clients : client'[d].store = client[d].store
    BY <1>1
  <2> QED
    BY <2>1, CauseNow
<1>6. ASSUME NEW d \in Clients, client'[d].pc \in {"rotate", "insert", "reply"},
             client'[d].store \notin excused'
      PROVE  ~row'[client'[d].token].used
  <2>1. CASE d = c
    BY <1>1, <2>1
  <2>2. CASE d # c
    <3>1. /\ client'[d] = client[d] /\ client[d].token \in Tokens /\ client[d].store \in Stores \ excused
          /\ ~row[client[d].token].used
      BY <1>1, <1>6, <2>2, CauseNow
    <3>2. client[d].token # client[c].token
      <4> SUFFICES ASSUME client[d].token = client[c].token PROVE FALSE
        OBVIOUS
      <4>1. client[c].store \in Stores
        BY CauseNow
      <4>2. Has(client[d].store, client[d].token) /\ Has(client[c].store, client[d].token)
        BY DEF Has
      <4>3. client[d].store = client[c].store
        BY <3>1, <4>1, <4>2, CauseNow
      <4> QED
        BY <2>2, <3>1, <4>3, CauseNow
    <3> QED
      BY <3>1, <3>2
  <2> QED
    BY <2>1, <2>2
<1>7. ASSUME NEW s \in Stores \ excused', held'[s] # 0, row'[held'[s]].used
      PROVE  \E d \in Clients : client'[d].store = s /\ client'[d].pc = "reply"
  <2>1. held[s] \in Tokens /\ s \notin excused
    BY <1>7, CauseNow
  <2>2. CASE row[held[s]].used
    <3>1. PICK d \in Clients : client[d].store = s /\ client[d].pc = "reply"
      BY <2>1, <2>2, <1>7, CauseNow
    <3> QED
      BY <1>1, <3>1
  <2>3. CASE ~row[held[s]].used
    <3>1. held[s] = client[c].token
      BY <1>7, <2>1, <2>3
    <3>2. Has(s, held[s]) /\ Has(client[c].store, held[s]) /\ client[c].store \in Stores
      BY <3>1, CauseNow DEF Has
    <3>3. s = client[c].store
      BY <2>1, <3>2, CauseNow
    <3> QED
      BY <1>1, <3>3
  <2> QED
    BY <2>2, <2>3
<1>8. \A d \in Clients : client'[d].pc = "reuse" => client'[d].store \in excused'
  BY <1>1, CauseNow
<1> QED
  BY <1>4, <1>5, <1>6, <1>7, <1>8 DEF CauseNext

LEMMA CauseServes ==
    ASSUME CauseInv, NEW c \in Clients, Serve(c)
    PROVE  CauseNext
<1>1. /\ KnownClient(client[c], Len(row)) /\ client[c] \in ClientType
      /\ Len(row) \in Nat /\ Tokens = 1..Len(row) /\ KnownInv /\ TypeOK
  BY KnownClients DEF CauseInv, KnownInv
<1> DEFINE n == Len(row) + 1
<1>2. /\ n \notin Tokens /\ n \notin {0}
      /\ \A s \in Stores : held[s] # n
      /\ \A d \in Clients : client[d].token # n
  <2>1. \A s \in Stores : held[s] \in Nat /\ held[s] <= Len(row)
    BY <1>1 DEF KnownInv, TypeOK, TokensAreKnown
  <2>2. \A d \in Clients : client[d].token \in Nat /\ client[d].token <= Len(row)
    BY KnownClients DEF CauseInv, KnownClient, ClientType
  <2> QED
    BY <1>1, <2>1, <2>2
<1>3. CASE CompleteDeviceLogin(c) \/ CompleteWebLogin(c)
  <2>1. Issue(c) /\ client[c].pc \in {"device", "redirect"}
    BY <1>3 DEF CompleteDeviceLogin, CompleteWebLogin
  <2>2. Added(n, FALSE) /\ \A t \in Tokens : row'[t] = row[t]
    BY <1>1, <2>1, IssueRows
  <2>3. DOMAIN row' = Tokens \cup {n}
    BY <1>1, <2>2, AddedRowsKnown DEF Added
  <2>4. client' = [client EXCEPT ![c] = Request("reply", client[c].store, n)]
        /\ UNCHANGED <<held, excused>>
    BY <2>1, Zenon DEF Issue
  <2>5. n \in 0..MaxTokens /\ client[c].store \in Stores \cup {None}
    BY <1>1, <2>2, BoundsType DEF Added, ClientType
  <2> HIDE DEF n
  <2>6. PICK q \in ClientType : /\ q = Request("reply", client[c].store, n)
                                /\ q.pc = "reply" /\ q.store = client[c].store /\ q.token = n
    BY <2>5, RequestType
  <2>7. Goes(c, q)
    BY <1>1, <2>4, <2>6, GoesOn
  <2>8. ~row'[n].used
    BY <2>2 DEF Added, n
  <2> QED
    BY <1>2, <2>1, <2>2, <2>3, <2>4, <2>6, <2>7, <2>8, CauseAdds
<1>4. CASE CommitRotation(c)
  <2> DEFINE late == \/ row[client[c].token].late
                     \/ \E d \in Clients : client[d].pc = "revoke" /\ client[c].token \in client[d].seen
  <2>1. /\ client[c].token \in Tokens /\ client[c].pc = "insert"
        /\ Added(row[client[c].token].family, late)
        /\ \A u \in Tokens \ {client[c].token} : row'[u] = row[u]
        /\ row'[client[c].token] = Spent(row[client[c].token])
        /\ client' = [client EXCEPT ![c].pc = "reply", ![c].token = n]
    BY <1>1, <1>4, CommitRotationRows
  <2> HIDE DEF late
  <2>2. \A u \in Tokens : row[u] \in RowType /\ row[u].family <= Len(row)
    BY <1>1, RowElement DEF KnownInv, TokensAreKnown
  <2>3. \A u \in Tokens : row'[u].family = row[u].family
    BY <2>1, <2>2, SpentType
  <2>4. DOMAIN row' = Tokens \cup {n}
    <3>1. row[client[c].token].family <= Len(row) + 1
      BY <1>1, <2>1, <2>2 DEF RowType
    <3> QED
      BY <1>1, <2>1, <2>3, <3>1, AddedRowsKnown
  <2>5. ~row'[n].used /\ n \in 0..MaxTokens
    BY <1>1, <2>1, BoundsType DEF Added
  <2>6. client' = [client EXCEPT ![c] = Replying(client[c], n)]
    BY <1>1, <2>1 DEF TypeOK, Replying, ClientType
  <2>7. UNCHANGED <<held, excused>>
    BY <1>4 DEF CommitRotation, history
  <2> HIDE DEF n
  <2>8. PICK q \in ClientType : /\ q = Replying(client[c], n)
                                /\ q.pc = "reply" /\ q.store = client[c].store /\ q.token = n
    BY <1>1, <2>5, ReplyType
  <2>9. Goes(c, q)
    BY <1>1, <2>6, <2>8, GoesOn
  <2> QED
    BY <1>2, <2>1, <2>4, <2>5, <2>7, <2>8, <2>9, CauseAdds
<1> HIDE DEF n
<1>5. CASE ReadToken(c)
  <2>1. /\ client[c].token \in Tokens /\ client[c].pc = "rotate"
        /\ OnlyLocks
        /\ \/ /\ row[client[c].token].used
              /\ client' = [client EXCEPT ![c].pc = "reuse", ![c].scope = "family"]
           \/ client' = [client EXCEPT ![c] = Idle]
           \/ client' = [client EXCEPT ![c].pc = "insert"]
    BY <1>1, <1>5, ReadTokenRows
  <2>2. DOMAIN row' = Tokens /\ (\A t \in Tokens : row'[t].used <=> row[t].used)
        /\ UNCHANGED <<held, excused>>
    BY <1>1, <1>5, <2>1 DEF OnlyLocks, SameButLock, TypeOK, Tokens, ReadToken, history
  <2>3. CASE client' = [client EXCEPT ![c] = Idle]
    BY <1>1, <2>1, <2>2, <2>3, GoesOn, IdleType, CauseGoes
  <2>4. CASE client' = [client EXCEPT ![c].pc = "insert"]
    <3>1. Goes(c, Inserting(client[c]))
      <4>1. client' = [client EXCEPT ![c] = Inserting(client[c])]
        BY <2>4, Zenon DEF Inserting
      <4> QED
        BY <1>1, <4>1, InsertType, GoesOn
    <3>2. Inserting(client[c]) = [client[c] EXCEPT !.pc = "insert"]
      BY DEF Inserting
    <3>3. /\ Inserting(client[c]).pc = "insert" /\ Inserting(client[c]).store = client[c].store
          /\ Inserting(client[c]).token = client[c].token
      BY <1>1, InsertType
    <3> QED
      BY <2>1, <2>2, <3>1, <3>2, <3>3, CauseGoes
  <2>5. CASE /\ row[client[c].token].used
             /\ client' = [client EXCEPT ![c].pc = "reuse", ![c].scope = "family"]
    <3>1. client' = [client EXCEPT ![c] = Reusing(client[c])]
      BY <1>1, <2>5 DEF TypeOK, Reusing, ClientType
    <3>2. Goes(c, Reusing(client[c]))
      BY <1>1, <3>1, ReuseType, GoesOn
    <3>3. client[c].store \in excused
      BY <2>1, <2>5, CauseNow
    <3>4. /\ Reusing(client[c]).pc = "reuse" /\ Reusing(client[c]).store = client[c].store
          /\ Reusing(client[c]).token = client[c].token
      BY <1>1, ReuseType
    <3> QED
      BY <2>1, <2>2, <3>2, <3>3, <3>4, CauseGoes
  <2> QED
    BY <2>1, <2>3, <2>4, <2>5
<1>6. CASE ReadRows(c)
  <2> DEFINE seen == {t \in InScope(c) : ~row[t].revoked}
  <2>1. client' = [client EXCEPT ![c] = Revoking(client[c], seen)]
    BY <1>1, <1>6 DEF TypeOK, Revoking, ClientType, ReadRows
  <2>2. seen \in SUBSET (1..MaxTokens)
    <3>1. seen \subseteq Tokens
      BY DEF InScope
    <3>2. Len(row) <= MaxTokens
      BY <1>1 DEF TypeOK
    <3> HIDE DEF seen
    <3> QED
      BY <1>1, <3>1, <3>2, BoundsType
  <2> HIDE DEF seen
  <2>3. PICK q \in ClientType : /\ q = Revoking(client[c], seen) /\ q.pc = "revoke"
                                /\ q.store = client[c].store /\ q.token = client[c].token
    BY <1>1, <2>2, RevokeType
  <2>4. Goes(c, q) /\ DOMAIN row' = Tokens /\ row' = row /\ UNCHANGED <<held, excused>>
        /\ client[c].pc # "reply"
    BY <1>1, <1>6, <2>1, <2>3, GoesOn DEF ReadRows, history, Tokens
  <2> QED
    BY <2>3, <2>4, CauseGoes
<1>7. CASE Abort(c) \/ CommitRevocation(c)
  <2>1. PICK seen : Revokes(c, seen)
    BY <1>1, <1>7, AbortRows, CommitRevocationRows
  <2>2. DOMAIN row' = Tokens /\ \A t \in Tokens : row'[t].used <=> row[t].used
    BY <1>1, <2>1 DEF Revokes, TypeOK, Tokens
  <2>3. client' = [client EXCEPT ![c] = Idle] \/ client' = [client EXCEPT ![c] = Ending(client[c])]
    BY <1>1, <1>7, AbortRows, CommitRevocationRows, Zenon DEF Ending
  <2>4. UNCHANGED <<held, excused>> /\ client[c].pc # "reply"
    BY <1>7 DEF Abort, CommitRevocation, history
  <2>5. PICK q \in ClientType : /\ client' = [client EXCEPT ![c] = q]
                                /\ q.pc \in {"idle", "sessions"}
                                /\ q.store \in {client[c].store, None}
                                /\ q.token \in {client[c].token, 0}
    BY <1>1, <2>3, IdleType, EndType
  <2> QED
    BY <1>1, <2>2, <2>4, <2>5, GoesOn, CauseGoes
<1>8. CASE FailLogin(c)
  <2>1. Goes(c, Idle) /\ DOMAIN row' = Tokens /\ row' = row /\ UNCHANGED <<held, excused>>
        /\ client[c].pc # "reply"
    BY <1>1, <1>8, IdleType, GoesOn DEF FailLogin, history, Tokens
  <2> QED
    BY <2>1, IdleType, CauseGoes
<1>9. CASE RevokeBrowserSessions(c)
  <2>1. client[c].store \in Stores \cup {None} /\ 0 \in 0..MaxTokens
    BY <1>1, BoundsType DEF ClientType
  <2>2. PICK q \in ClientType : /\ q = Request("clear", client[c].store, 0)
                                /\ q.pc = "clear" /\ q.store = client[c].store /\ q.token = 0
    BY <2>1, RequestType
  <2>3. client' = [client EXCEPT ![c] = q] /\ row' = row /\ UNCHANGED <<held, excused>>
        /\ client[c].pc # "reply"
    BY <1>9, <2>2, Zenon DEF RevokeBrowserSessions
  <2> QED
    BY <1>1, <2>2, <2>3, GoesOn, CauseGoes DEF Tokens
<1> QED
  BY <1>3, <1>4, <1>5, <1>6, <1>7, <1>8, <1>9 DEF Serve

LEMMA CauseStep ==
    ASSUME CauseInv, [Next]_vars
    PROVE  CauseInv'
<1>1. KnownInv' /\ KnownInv /\ TypeOK
  BY KnownStep DEF CauseInv, KnownInv
<1>2. CauseNext => CauseInv'
  BY <1>1 DEF CauseInv, CauseNext, Alone, OneStore, FreshTokens, ReuseHasACause, Tokens, Has, HasNext
<1>3. ASSUME UNCHANGED <<row, held, client, excused>> PROVE CauseNext
  BY <1>3, CauseNow DEF CauseNext, Tokens, Has, HasNext
<1>4. ASSUME NEW c \in Clients, NEW s \in Stores,
             \/ StartDeviceLogin(c, s) \/ StartWebLogin(c, s)
             \/ Refresh(c, s) \/ Logout(c, s) \/ RevokeAll(c, s)
      PROVE  CauseNext
  BY <1>1, <1>4, BeginSets, CauseSets
<1> QED
  BY <1>2, <1>3, <1>4, CauseAnswers, CauseServes DEF Next, OpenMlflow, Tick, vars, history

\* A session is ended as reused only after clients of its store overlapped or an answer
\* was lost: rotation stores the replacement before the next command reads the token, and
\* no token is ever held by two stores.
THEOREM ReuseSafety == Spec => []ReuseHasACause
<1>1. Init => CauseInv
  BY IdleType, BoundsType, Sentinel DEF Init, CauseInv, KnownInv, TypeOK, TokensAreKnown, KnownClient,
     Alone, OneStore, FreshTokens, ReuseHasACause, Tokens
<1>2. CauseInv /\ [Next]_vars => CauseInv'
  BY CauseStep
<1>3. CauseInv => ReuseHasACause
  BY DEF CauseInv
<1> QED
  BY <1>1, <1>2, <1>3, PTL DEF Spec

-----------------------------------------------------------------------------
(* Access runs out                                                         *)

\* The next state's bounds.
Bounded ==
    /\ access' <= clock' + AccessLife
    /\ \A revoked \in cut' :
          /\ \A t \in DOMAIN row' : row'[t].used \/ row'[t].revoked
          /\ access' <= revoked + AccessLife
          /\ \A e \in browser' : e <= revoked + AccessLife + BrowserLife

LEMMA AccessStep ==
    ASSUME RotationInv, AccessIsBounded, [Next]_vars
    PROVE  AccessIsBounded'
<1>1. /\ KnownInv /\ access \in Nat /\ clock \in Nat /\ browser \subseteq Nat /\ cut \subseteq Nat
      /\ AccessLife \in Nat /\ BrowserLife \in Nat
  BY BoundsType DEF RotationInv, KnownInv, TypeOK
<1>2. /\ access <= clock + AccessLife
      /\ \A revoked \in cut :
            /\ \A t \in Tokens : row[t].used \/ row[t].revoked
            /\ access <= revoked + AccessLife
            /\ \A e \in browser : e <= revoked + AccessLife + BrowserLife
  BY DEF AccessIsBounded, Live
<1>3. Bounded => AccessIsBounded'
  BY DEF Bounded, AccessIsBounded, Live, Tokens
<1>4. ASSUME OnlyLocks \/ row' = row \/ \E c \in Clients : \E seen : Revokes(c, seen),
             cut' \subseteq cut, browser' \subseteq browser, UNCHANGED access,
             clock' \in Nat, clock <= clock'
      PROVE  Bounded
  <2>1. DOMAIN row' = Tokens
    BY <1>1, <1>4 DEF OnlyLocks, Revokes, KnownInv, TypeOK, Tokens
  <2>2. \A t \in Tokens : row[t].used \/ row[t].revoked => row'[t].used \/ row'[t].revoked
    <3>1. CASE OnlyLocks
      BY <3>1 DEF OnlyLocks, SameButLock
    <3>2. CASE row' = row
      BY <3>2
    <3>3. CASE \E c \in Clients : \E seen : Revokes(c, seen)
      BY <3>3 DEF Revokes
    <3> QED
      BY <1>4, <3>1, <3>2, <3>3
  <2>3. access' <= clock' + AccessLife
    <3>1. access' = access /\ clock' \in Nat /\ clock <= clock' /\ access' \in Nat
      BY <1>1, <1>4
    <3>2. /\ access \in Nat /\ clock \in Nat /\ AccessLife \in Nat
          /\ access <= clock + AccessLife
      BY <1>1, <1>2
    <3>3. \A a, b, d, l \in Nat : a <= b + l /\ b <= d => a <= d + l
      OBVIOUS
    <3>4. access <= clock' + AccessLife
      BY <3>1, <3>2, <3>3
    <3> QED
      BY <3>1, <3>4
  <2>4. ASSUME NEW revoked \in cut'
        PROVE  /\ \A t \in DOMAIN row' : row'[t].used \/ row'[t].revoked
               /\ access' <= revoked + AccessLife
               /\ \A e \in browser' : e <= revoked + AccessLife + BrowserLife
    BY <1>2, <1>4, <2>1, <2>2, <2>4
  <2> QED
    BY <2>3, <2>4 DEF Bounded
<1>5. ASSUME NEW c \in Clients, CompleteDeviceLogin(c) \/ CompleteWebLogin(c) PROVE Bounded
  <2>1. cut' = {} /\ clock' = clock /\ access' \in {access, clock + AccessLife}
    BY <1>5 DEF CompleteDeviceLogin, CompleteWebLogin, Issue
  <2> QED
    BY <1>1, <1>2, <2>1 DEF Bounded
<1>6. ASSUME NEW c \in Clients, CommitRotation(c) PROVE Bounded
  <2>1. client[c].token \in Tokens /\ Live(client[c].token)
    BY <1>1, <1>6, CommitRotationRows DEF RotationInv, RotationIsLocked
  <2>2. cut = {} /\ cut' = cut
    BY <1>2, <1>6, <2>1 DEF Live, CommitRotation, history
  <2>3. access' = clock + AccessLife /\ clock' = clock
    BY <1>6 DEF CommitRotation
  <2> QED
    BY <1>1, <2>2, <2>3 DEF Bounded
<1>7. ASSUME NEW c \in Clients, RevokeBrowserSessions(c) PROVE Bounded
  <2>1. /\ browser' = {} /\ UNCHANGED <<row, access, clock>>
        /\ cut' = IF client[c].scope = "all" /\ ~ \E t \in Tokens : Live(t) THEN {clock} ELSE cut
    BY <1>7 DEF RevokeBrowserSessions
  <2>2. \A revoked \in cut' :
           \/ revoked \in cut
           \/ revoked = clock /\ \A t \in Tokens : row[t].used \/ row[t].revoked
    BY <2>1 DEF Live
  <2> QED
    BY <1>1, <1>2, <2>1, <2>2 DEF Tokens, Bounded
<1>8. CASE OpenMlflow
  <2>1. /\ access > clock /\ UNCHANGED <<row, access, clock, cut>>
        /\ \A e \in browser' : e \in browser \/ e = clock + BrowserLife
    BY <1>8 DEF OpenMlflow, Valid, Unexpired, history
  <2>2. ASSUME NEW revoked \in cut, NEW e \in browser'
        PROVE  e <= revoked + AccessLife + BrowserLife
    <3>1. CASE e \in browser
      BY <1>2, <3>1
    <3>2. CASE e = clock + BrowserLife
      <4>1. access <= revoked + AccessLife /\ revoked \in Nat
        BY <1>1, <1>2
      <4> QED
        BY <1>1, <2>1, <3>2, <4>1
    <3> QED
      BY <2>1, <3>1, <3>2
  <2> QED
    BY <1>2, <1>3, <2>1, <2>2 DEF Tokens, Bounded
<1>9. CASE Tick
  <2>1. UNCHANGED <<row, access, browser, cut>> /\ clock' = clock + 1
    BY <1>9 DEF Tick, grants, history
  <2> QED
    BY <1>1, <1>3, <1>4, <2>1
<1>10. ASSUME NEW c \in Clients, ReadToken(c) PROVE Bounded
  <2>1. OnlyLocks /\ UNCHANGED <<access, browser, clock, cut>>
    BY <1>1, <1>10, ReadTokenRows DEF ReadToken, grants, history
  <2> QED
    BY <1>1, <1>4, <2>1
<1>11. ASSUME NEW c \in Clients, Abort(c) \/ CommitRevocation(c) PROVE Bounded
  <2>1. (\E seen : Revokes(c, seen)) /\ UNCHANGED <<access, browser, clock, cut>>
    BY <1>1, <1>11, AbortRows, CommitRevocationRows DEF Abort, CommitRevocation, grants, history
  <2> QED
    BY <1>1, <1>4, <2>1
<1>12. ASSUME UNCHANGED <<row, access, browser, clock, cut>> PROVE Bounded
  BY <1>1, <1>4, <1>12
<1> QED
  BY <1>3, <1>5, <1>6, <1>7, <1>8, <1>9, <1>10, <1>11, <1>12
     DEF Next, Serve, FailLogin, ReadRows, Answer, StoreReply, Clear, LoseReply, ConnectError,
         StartDeviceLogin, StartWebLogin, Refresh, Logout, RevokeAll, Begin, grants, history, vars

\* After a revocation of all sessions, and until the next login, no access token lives
\* longer than its lifetime, and no browser session longer than its own after that: no
\* rotation that was under way renews them.
THEOREM AccessSafety == Spec => []AccessRunsOut
<1>1. Init => RotationInv /\ AccessIsBounded
  BY IdleType, BoundsType DEF Init, RotationInv, KnownInv, TypeOK, TokensAreKnown, KnownClient,
     RotationIsLocked, LateTokensAreMarked, FamilyHasOneLive, Tokens, AccessIsBounded
<1>2. RotationInv /\ AccessIsBounded /\ [Next]_vars => RotationInv' /\ AccessIsBounded'
  BY RotationStep, AccessStep
<1>3. RotationInv /\ AccessIsBounded => AccessRunsOut
  <2> SUFFICES ASSUME RotationInv, AccessIsBounded, NEW revoked \in cut
               PROVE  /\ clock >= revoked + AccessLife => ~(access > clock)
                      /\ clock >= revoked + AccessLife + BrowserLife =>
                            \A e \in browser : ~(e > clock)
    BY DEF AccessRunsOut, Valid, GatewayAdmits, Unexpired
  <2>1. /\ access \in Nat /\ clock \in Nat /\ browser \subseteq Nat /\ revoked \in Nat
        /\ AccessLife \in Nat /\ BrowserLife \in Nat
    BY BoundsType DEF RotationInv, KnownInv, TypeOK
  <2>2. /\ access <= revoked + AccessLife
        /\ \A e \in browser : e <= revoked + AccessLife + BrowserLife
    BY DEF AccessIsBounded
  <2> QED
    BY <2>1, <2>2
<1> QED
  BY <1>1, <1>2, <1>3, PTL DEF Spec
=============================================================================
