------------------------- MODULE PublicationProofs --------------------------
(***************************************************************************)
(* Theorems about the publication queue, for any number of operations,     *)
(* workers, calls, families and crashes.                                   *)
(***************************************************************************)
EXTENDS Publications, TLAPS

\* A row that is not there is empty; one that is there was filled by Insert.
RowsFilled ==
    \A o \in Ops :
        /\ ~Exists(o) => row[o] = NoRow /\ log[o] = <<>>
        /\ Exists(o) => row[o].key \in Keys /\ row[o].request \in Requests

\* A call that is about to insert knows what; a busy worker has an operation.
HandsFull ==
    /\ \A c \in Clients : call[c].pc = "insert" => call[c].key \in Keys /\ call[c].request \in Requests
    /\ \A w \in Workers : Busy(w) => mem[w].op \in Ops /\ Exists(mem[w].op)

\* The versions of a family are numbered 1 .. n, each number once.
Numbered ==
    /\ \A a \in Artifacts : \E n \in Nat : SequencesOf(a) = 1..n
    /\ \A o, p \in Ops : HasVersion(o) /\ HasVersion(p) /\ Family(o) = Family(p)
                            /\ row[o].version = row[p].version => o = p

Inv == TypeOK /\ RowsFilled /\ HandsFull /\ Numbered

SeenType == [Workers -> States \cup {"none"}]

LEMMA InitInv == Init => Inv
<1> SUFFICES ASSUME Init PROVE Inv
  OBVIOUS
<1> USE Sentinels DEF Init
<1>1. TypeOK
  <2>1. seen \in [Workers -> States \cup {"none"}]
    OBVIOUS
  <2> QED
    BY <2>1 DEF TypeOK, CallType, RowType, CallPCs, WorkerPCs, NoRow, Nothing, States
<1>2. RowsFilled
  BY DEF RowsFilled, Exists, NoRow
<1>3. HandsFull
  BY DEF HandsFull, Busy
<1>4. Numbered
  <2>1. \A o \in Ops : ~HasVersion(o)
    BY DEF HasVersion, NoRow
  <2>2. \A a \in Artifacts : SequencesOf(a) = 1..0
    BY <2>1 DEF SequencesOf
  <2> QED
    BY <2>1, <2>2 DEF Numbered
<1> QED
  BY <1>1, <1>2, <1>3, <1>4 DEF Inv

\* The last of the numbers 1 .. n, if any, is n.
LEMMA LastOfAny ==
    ASSUME NEW n \in Nat
    PROVE  (CHOOSE k \in (1..n) \cup {0} : \A m \in 1..n : m <= k) = n
<1>1. n \in (1..n) \cup {0} /\ \A m \in 1..n : m <= n
  OBVIOUS
<1>2. ASSUME NEW k \in (1..n) \cup {0}, \A m \in 1..n : m <= k PROVE k = n
  <2>1. CASE n = 0
    BY <2>1
  <2>2. CASE n > 0
    <3>1. n <= k
      BY <2>2, <1>2
    <3> QED
      BY <2>2, <3>1, <1>2
  <2> QED
    BY <2>1, <2>2
<1> QED
  BY <1>1, <1>2

\* max(sequence) or 0 is the number of versions of the family.
LEMMA LastOfNumbered ==
    ASSUME NEW a, NEW n \in Nat, SequencesOf(a) = 1..n
    PROVE  LastSequence(a) = n
BY LastOfAny DEF LastSequence

\* Numbering depends on the version and request columns only.
LEMMA NumberedKept ==
    ASSUME Numbered,
           \A o \in Ops : /\ row'[o].version = row[o].version
                          /\ HasVersion(o) => row'[o].request = row[o].request
    PROVE  Numbered'
<1>1. \A o \in Ops : HasVersion(o)' <=> HasVersion(o)
  BY DEF HasVersion
<1>2. \A o \in Ops : HasVersion(o) => Family(o)' = Family(o)
  BY DEF Family
<1>3. \A a \in Artifacts : SequencesOf(a)' = SequencesOf(a)
  BY <1>1, <1>2 DEF SequencesOf
<1> QED
  BY <1>1, <1>2, <1>3 DEF Numbered

-----------------------------------------------------------------------------
(* One lemma per transaction that writes the row of one operation          *)

\* The effect of Insert, ClaimNext, an advance or Fail on the row and log of o:
\* the version is untouched, and the row is filled afterwards.
RowWrite(o, r, l) ==
    /\ r \in RowType /\ l \in Seq(EventNames)
    /\ r.state # "none" /\ r.key \in Keys /\ r.request \in Requests
    /\ r.version = row[o].version
    /\ Exists(o) => r.request = row[o].request /\ r.key = row[o].key
    /\ row' = [row EXCEPT ![o] = r]
    /\ log' = [log EXCEPT ![o] = l]

LEMMA RowWriteKeeps ==
    ASSUME Inv, NEW o \in Ops, NEW r, NEW l, RowWrite(o, r, l)
    PROVE  /\ row' \in [Ops -> RowType] /\ log' \in [Ops -> Seq(EventNames)]
           /\ RowsFilled'
           /\ Numbered'
           /\ \A p \in Ops : Exists(p) => Exists(p)'
           /\ Exists(o)'
<1> USE DEF Inv, TypeOK, RowWrite
<1>1. /\ row' \in [Ops -> RowType] /\ log' \in [Ops -> Seq(EventNames)]
      /\ row'[o] = r
      /\ \A p \in Ops \ {o} : row'[p] = row[p] /\ log'[p] = log[p]
  OBVIOUS
<1>2. Exists(o)' /\ \A p \in Ops : Exists(p) => Exists(p)'
  BY <1>1 DEF Exists
<1>3. RowsFilled'
  BY <1>1 DEF RowsFilled, Exists
<1>4. Numbered'
  <2>1. \A p \in Ops : row'[p].version = row[p].version
    BY <1>1
  <2>2. \A p \in Ops : HasVersion(p) => Exists(p)
    BY DEF HasVersion, RowsFilled, NoRow
  <2>3. \A p \in Ops : HasVersion(p) => row'[p].request = row[p].request
    BY <1>1, <2>2
  <2> QED
    BY <2>1, <2>3, NumberedKept
<1> QED
  BY <1>1, <1>2, <1>3, <1>4

\* Steps that leave rows and log alone.
LEMMA RowsKept ==
    ASSUME Inv, UNCHANGED <<row, log>>
    PROVE  RowsFilled' /\ Numbered' /\ \A o \in Ops : Exists(o)' = Exists(o)
BY NumberedKept DEF Inv, RowsFilled, Exists

\* HandsFull speaks of one call or one worker at a time.
LEMMA CallerKept ==
    ASSUME Inv, NEW c \in Clients, NEW r \in CallType, call' = [call EXCEPT ![c] = r],
           r.pc = "insert" => r.key \in Keys /\ r.request \in Requests,
           UNCHANGED <<pc, mem>>, \A o \in Ops : Exists(o) => Exists(o)'
    PROVE  call' \in [Clients -> CallType] /\ HandsFull'
<1>1. call' \in [Clients -> CallType] /\ call'[c] = r /\ \A d \in Clients \ {c} : call'[d] = call[d]
  BY DEF Inv, TypeOK
<1>2. \A d \in Clients : call'[d].pc = "insert" => call'[d].key \in Keys /\ call'[d].request \in Requests
  BY <1>1 DEF Inv, HandsFull
<1>3. \A w \in Workers : (Busy(w) => mem[w].op \in Ops /\ Exists(mem[w].op))'
  BY DEF Inv, HandsFull, Busy, Exists
<1> QED
  BY <1>1, <1>2, <1>3 DEF HandsFull, Exists, Busy

LEMMA WorkerKept ==
    ASSUME Inv, NEW w \in Workers, NEW p \in WorkerPCs,
           NEW m \in [op : Ops \cup {NoOp}, state : States \cup {"none"}],
           pc' = [pc EXCEPT ![w] = p], mem' = [mem EXCEPT ![w] = m],
           \A o \in Ops : Exists(o) => Exists(o)',
           p # "idle" => m.op \in Ops /\ Exists(m.op)',
           UNCHANGED call
    PROVE  /\ pc' \in [Workers -> WorkerPCs]
           /\ mem' \in [Workers -> [op : Ops \cup {NoOp}, state : States \cup {"none"}]]
           /\ HandsFull'
<1>1. /\ pc' \in [Workers -> WorkerPCs]
      /\ mem' \in [Workers -> [op : Ops \cup {NoOp}, state : States \cup {"none"}]]
      /\ pc'[w] = p /\ mem'[w] = m
      /\ \A v \in Workers \ {w} : pc'[v] = pc[v] /\ mem'[v] = mem[v]
  BY DEF Inv, TypeOK
<1>2. \A d \in Clients : call'[d].pc = "insert" => call'[d].key \in Keys /\ call'[d].request \in Requests
  BY DEF Inv, HandsFull
<1>3. \A v \in Workers : (Busy(v) => mem[v].op \in Ops /\ Exists(mem[v].op))'
  BY <1>1 DEF Inv, HandsFull, Busy, Exists
<1> QED
  BY <1>1, <1>2, <1>3 DEF HandsFull, Exists, Busy

-----------------------------------------------------------------------------
(* Every action preserves the invariant                                    *)

LEMMA InsertInv == ASSUME Inv, NEW c \in Clients, Insert(c) PROVE Inv'
<1>0. /\ UNCHANGED <<pc, mem, seen, now, clock, crashes>> /\ call[c].pc = "insert"
      /\ call[c] \in CallType /\ call[c].key \in Keys /\ call[c].request \in Requests
  BY DEF Insert, workerVars, envVars, Inv, TypeOK, HandsFull
<1>1. ASSUME NEW o \in Ops, ~Exists(o),
             row' = [row EXCEPT ![o] = [NoRow EXCEPT !.state = "queued", !.key = call[c].key,
                                             !.request = call[c].request, !.createdAt = clock]],
             log' = [log EXCEPT ![o] = <<"operation.queued">>],
             call' = [call EXCEPT ![c].pc = "created", ![c].op = o]
      PROVE  Inv'
  <2> DEFINE r == [NoRow EXCEPT !.state = "queued", !.key = call[c].key,
                                !.request = call[c].request, !.createdAt = clock]
             l == <<"operation.queued">>
             d == [call[c] EXCEPT !.pc = "created", !.op = o]
  <2>1. r \in RowType /\ l \in Seq(EventNames) /\ d \in CallType
    <3>1. r \in RowType
      BY <1>0 DEF NoRow, RowType, States, Inv, TypeOK
    <3>2. l \in Seq(EventNames)
      BY DEF EventNames
    <3>3. d \in CallType
      BY <1>0 DEF CallType, CallPCs, Acked
    <3> QED
      BY <3>1, <3>2, <3>3
  <2>2. RowWrite(o, r, l)
    BY <1>0, <1>1, <2>1 DEF RowWrite, NoRow, Inv, RowsFilled
  <2>3. call' = [call EXCEPT ![c] = d] /\ d.pc # "insert"
    BY <1>0, <1>1 DEF CallType, Inv, TypeOK
  <2> HIDE DEF r, l, d
  <2>4. /\ row' \in [Ops -> RowType] /\ log' \in [Ops -> Seq(EventNames)]
        /\ RowsFilled' /\ Numbered'
        /\ \A p \in Ops : Exists(p) => Exists(p)'
    BY <2>2, RowWriteKeeps
  <2>5. call' \in [Clients -> CallType] /\ HandsFull'
    BY <1>0, <2>1, <2>3, <2>4, CallerKept
  <2> QED
    BY <1>0, <2>4, <2>5 DEF Inv, TypeOK
<1>2. ASSUME call' = [call EXCEPT ![c].pc = "error"], UNCHANGED <<row, log>>
      PROVE  Inv'
  <2> DEFINE d == [call[c] EXCEPT !.pc = "error"]
  <2>1. d \in CallType /\ d.pc # "insert" /\ call' = [call EXCEPT ![c] = d]
    BY <1>0, <1>2 DEF CallType, CallPCs, Inv, TypeOK
  <2> HIDE DEF d
  <2>2. call' \in [Clients -> CallType] /\ HandsFull'
    BY <1>0, <1>2, <2>1, RowsKept, CallerKept
  <2> QED
    BY <1>0, <1>2, <2>2, RowsKept DEF Inv, TypeOK
<1> QED
  BY <1>1, <1>2 DEF Insert

LEMMA ClientInv ==
    ASSUME Inv, NEW c \in Clients, ClientNext(c)
    PROVE  Inv'
<1>1. CASE Refuse(c)
  <2>1. UNCHANGED <<row, log, pc, mem, seen, now, clock, crashes>>
        /\ call' = [call EXCEPT ![c].pc = "refused"]
    BY <1>1 DEF Refuse, workerVars, envVars
  <2> DEFINE d == [call[c] EXCEPT !.pc = "refused"]
  <2>2. d \in CallType /\ d.pc # "insert" /\ call' = [call EXCEPT ![c] = d]
    BY <2>1 DEF CallType, CallPCs, Inv, TypeOK
  <2> HIDE DEF d
  <2>3. call' \in [Clients -> CallType] /\ HandsFull'
    BY <2>1, <2>2, RowsKept, CallerKept
  <2> QED
    BY <2>1, <2>3, RowsKept DEF Inv, TypeOK
<1>2. ASSUME NEW k \in Keys, NEW r \in Requests, LookUp(c, k, r) PROVE Inv'
  <2>1. UNCHANGED <<row, log, pc, mem, seen, now, clock, crashes>>
    BY <1>2 DEF LookUp, workerVars, envVars
  <2>2. PICK d \in CallType : /\ call' = [call EXCEPT ![c] = d]
                              /\ d.key = k /\ d.request = r
    <3> DEFINE d(p, o) == [pc |-> p, key |-> k, request |-> r, op |-> o]
    <3>1. \A p \in CallPCs, o \in Ops \cup {NoOp} : d(p, o) \in CallType /\ d(p, o).key = k /\ d(p, o).request = r
      BY DEF CallType
    <3>2. \E p \in CallPCs, o \in Ops \cup {NoOp} : call' = [call EXCEPT ![c] = d(p, o)]
      BY <1>2 DEF LookUp, CallPCs, Acked, Holder
    <3> QED
      BY <3>1, <3>2
  <2>3. call' \in [Clients -> CallType] /\ HandsFull'
    BY <2>1, <2>2, RowsKept, CallerKept
  <2> QED
    BY <2>1, <2>3, RowsKept DEF Inv, TypeOK
<1>3. CASE Insert(c)
  BY <1>3, InsertInv
<1> QED
  BY <1>1, <1>2, <1>3 DEF ClientNext

\* A worker's step that writes at most the row of one operation.
MemType == [op : Ops \cup {NoOp}, state : States \cup {"none"}]

LEMMA WorkerStep ==
    ASSUME Inv, NEW w \in Workers, NEW p \in WorkerPCs, NEW m \in MemType,
           pc' = [pc EXCEPT ![w] = p], mem' = [mem EXCEPT ![w] = m],
           now' \in [Workers -> Nat], clock' \in Nat, crashes' \in Nat, UNCHANGED call,
           seen' \in SeenType,
           p # "idle" => m.op \in Ops /\ Exists(m.op),
           \/ UNCHANGED <<row, log>>
           \/ \E o \in Ops : \E r, l : RowWrite(o, r, l)
    PROVE  Inv'
<1>1. /\ row' \in [Ops -> RowType] /\ log' \in [Ops -> Seq(EventNames)]
      /\ RowsFilled' /\ Numbered' /\ \A o \in Ops : Exists(o) => Exists(o)'
  <2>1. CASE UNCHANGED <<row, log>>
    BY <2>1, RowsKept DEF Inv, TypeOK
  <2>2. CASE \E o \in Ops : \E r, l : RowWrite(o, r, l)
    BY <2>2, RowWriteKeeps
  <2> QED
    BY <2>1, <2>2
<1>2. /\ pc' \in [Workers -> WorkerPCs] /\ mem' \in [Workers -> MemType] /\ HandsFull'
  <2>1. p # "idle" => m.op \in Ops /\ Exists(m.op)'
    BY <1>1
  <2> QED
    BY <1>1, <2>1, WorkerKept DEF MemType
<1> QED
  BY <1>1, <1>2 DEF Inv, TypeOK, MemType, SeenType

\* What a step that forgets, reads or keeps leaves in seen.
LEMMA SeenTyped ==
    ASSUME Inv, NEW w \in Workers,
           \/ UNCHANGED seen
           \/ \E s \in States \cup {"none"} : seen' = [seen EXCEPT ![w] = s]
    PROVE  seen' \in SeenType
BY DEF Inv, TypeOK, SeenType

LEMMA ForgetTyped == ASSUME Inv, NEW w \in Workers, Forget(w) PROVE seen' \in SeenType
BY SeenTyped DEF Forget

LEMMA LeaveStep ==
    ASSUME Inv, NEW w \in Workers, Leave(w), UNCHANGED <<call, clock>>, crashes' \in Nat,
           \/ UNCHANGED <<row, log>>
           \/ \E o \in Ops : \E r, l : RowWrite(o, r, l)
    PROVE  Inv'
<1>1. pc' = [pc EXCEPT ![w] = "idle"] /\ mem' = [mem EXCEPT ![w] = Nothing]
  BY DEF Leave
<1>2. Nothing \in MemType /\ "idle" \in WorkerPCs
  BY DEF Nothing, MemType, WorkerPCs
<1>3. now' \in [Workers -> Nat] /\ clock' \in Nat
  BY DEF Leave, Inv, TypeOK
<1>4. seen' \in SeenType
  BY ForgetTyped DEF Leave
<1> QED
  BY <1>1, <1>2, <1>3, <1>4, WorkerStep

LEMMA AppendEvent ==
    \A s \in Seq(EventNames), e \in EventNames : Append(s, e) \in Seq(EventNames)
OBVIOUS

LEMMA ReleasedRow ==
    ASSUME Inv, NEW o \in Ops, NEW s \in States
    PROVE  LET r == Released(o, s) IN
           /\ r \in RowType
           /\ r.state = s /\ r.key = row[o].key /\ r.request = row[o].request /\ r.version = row[o].version
<1>1. row[o] \in RowType
  BY DEF Inv, TypeOK
<1>2. \A r \in RowType : LET q == [r EXCEPT !.state = s, !.claimedBy = NoWorker, !.claimedAt = 0] IN
          /\ q \in RowType /\ q.state = s /\ q.key = r.key /\ q.request = r.request /\ q.version = r.version
  BY DEF RowType, States
<1> QED
  BY <1>1, <1>2 DEF Released

LEMMA ClaimInv ==
    ASSUME Inv, NEW w \in Workers, NEW o \in Ops, ClaimNext(w, o)
    PROVE  Inv'
<1>1. row[o] \in RowType /\ log[o] \in Seq(EventNames) /\ clock \in Nat /\ Exists(o)
  BY DEF Inv, TypeOK, ClaimNext, Claimable, Exists, InFlight
<1>2. ClaimedRow(w, o) \in RowType /\ ClaimedLog(o) \in Seq(EventNames)
  <2>1. ClaimedRow(w, o) \in RowType
    BY <1>1 DEF ClaimedRow, RowType, States
  <2>2. ClaimedLog(o) \in Seq(EventNames)
    BY <1>1, AppendEvent DEF ClaimedLog, EventNames
  <2> QED
    BY <2>1, <2>2
<1>3. RowWrite(o, ClaimedRow(w, o), ClaimedLog(o))
  BY <1>1, <1>2 DEF RowWrite, ClaimNext, ClaimedRow, RowType, Inv, RowsFilled
<1>4. [op |-> o, state |-> "none"] \in MemType /\ "load" \in WorkerPCs
  BY DEF MemType, WorkerPCs
<1>5. now' \in [Workers -> Nat] /\ clock' \in Nat /\ crashes' \in Nat /\ UNCHANGED call
  BY DEF ClaimNext, Inv, TypeOK, envVars
<1>6. pc' = [pc EXCEPT ![w] = "load"] /\ mem' = [mem EXCEPT ![w] = [op |-> o, state |-> "none"]]
  BY DEF ClaimNext
<1>7. seen' \in SeenType
  BY SeenTyped DEF ClaimNext
<1> QED
  BY <1>1, <1>3, <1>4, <1>5, <1>6, <1>7, WorkerStep

\* A step writes its state, or leaves that of the row.
LEMMA WrittenType ==
    ASSUME Inv, NEW w \in Workers, mem[w].op \in Ops, Exists(mem[w].op), NEW s \in States
    PROVE  Written(w, s) \in States
BY DEF Written, Exists, Inv, TypeOK, RowType

\* What an advance and publish write, whatever the worker then sees.
LEMMA CommitAdvanceWrites ==
    ASSUME Inv, NEW w \in Workers, NEW step \in Advances, CommitAdvance(w, step)
    PROVE  /\ mem[w].op \in Ops /\ Exists(mem[w].op) /\ mem[w] \in MemType
           /\ \E r, l : RowWrite(mem[w].op, r, l)
           /\ step.next \in WorkerPCs /\ step.target \in States
<1> DEFINE o == mem[w].op
           s == Written(w, step.target)
           r == [row[o] EXCEPT !.state = s]
           l == Append(log[o], step.event)
<1>1. step.next \in WorkerPCs /\ step.target \in States /\ step.event \in EventNames
  BY DEF Advances, WorkerPCs, States, InFlight, EventNames
<1>2. o \in Ops /\ Exists(o) /\ mem[w] \in MemType
  BY DEF CommitAdvance, Advances, Inv, HandsFull, Busy, TypeOK, MemType
<1>3. row[o] \in RowType /\ log[o] \in Seq(EventNames)
  BY <1>2 DEF Inv, TypeOK
<1>s. s \in States /\ s # "none"
  BY <1>1, <1>2, WrittenType DEF States, InFlight, Terminal
<1>h. row' = [row EXCEPT ![o] = r]
  BY <1>2 DEF CommitAdvance, Inv, TypeOK
<1> HIDE DEF s
<1>4. r \in RowType
  BY <1>s, <1>3 DEF RowType
<1>5. l \in Seq(EventNames)
  BY <1>1, <1>3, AppendEvent
<1>6. row' = [row EXCEPT ![o] = r] /\ log' = [log EXCEPT ![o] = l]
  BY <1>2, <1>h DEF CommitAdvance, Inv, TypeOK
<1>7. RowWrite(o, r, l)
  BY <1>s, <1>2, <1>3, <1>4, <1>5, <1>6 DEF RowWrite, RowType, Inv, RowsFilled
<1> QED
  BY <1>1, <1>2, <1>7

\* The version publish inserts is the next of its family and of no other.
LEMMA PublishWrites ==
    ASSUME Inv, NEW w \in Workers, CommitPublish(w)
    PROVE  /\ mem[w].op \in Ops /\ Exists(mem[w].op) /\ mem[w] \in MemType
           /\ PublishedRow(mem[w].op) \in RowType
           /\ row' \in [Ops -> RowType] /\ log' \in [Ops -> Seq(EventNames)]
           /\ RowsFilled' /\ Numbered' /\ \A p \in Ops : Exists(p) => Exists(p)'
           /\ \A b \in Artifacts :
                 LastSequence(b)' = IF b = Family(mem[w].op) THEN LastSequence(b) + 1
                                    ELSE LastSequence(b)
<1>0. PICK o \in Ops : o = mem[w].op
  BY DEF CommitPublish, Inv, HandsFull, Busy
<1>a. PICK a \in Artifacts : a = Family(o)
  BY <1>0, ArtifactOfType DEF CommitPublish, Inv, HandsFull, Busy, RowsFilled, Family
<1>1. o \in Ops /\ Exists(o) /\ ~HasVersion(o) /\ mem[w] \in MemType
  BY <1>0 DEF CommitPublish, Inv, HandsFull, Busy, TypeOK, MemType, MayInsertVersion
<1>2. row[o] \in RowType /\ log[o] \in Seq(EventNames) /\ a \in Artifacts
  BY <1>1, ArtifactOfType DEF Inv, TypeOK, RowsFilled, Family
<1>3. PICK n \in Nat : SequencesOf(a) = 1..n
  BY <1>2 DEF Inv, Numbered
<1>4. LastSequence(a) = n
  BY <1>3, LastOfNumbered
<1>5. PublishedRow(o) = [Released(o, "published") EXCEPT !.version = n + 1]
  BY <1>4, <1>a DEF PublishedRow
<1>6. PublishedRow(o) \in RowType /\ PublishedRow(o).version = n + 1 /\ PublishedRow(o).state = "published"
      /\ PublishedRow(o).key = row[o].key /\ PublishedRow(o).request = row[o].request
  <2>1. \A r \in RowType : LET q == [r EXCEPT !.version = n + 1] IN
            /\ q \in RowType /\ q.version = n + 1
            /\ q.state = r.state /\ q.key = r.key /\ q.request = r.request
    BY DEF RowType
  <2> QED
    BY <1>1, <1>5, <2>1, ReleasedRow DEF States, Terminal
<1>7. Append(log[o], "operation.published") \in Seq(EventNames)
  BY <1>2, AppendEvent DEF EventNames
<1>8. /\ row' = [row EXCEPT ![o] = PublishedRow(o)]
      /\ log' = [log EXCEPT ![o] = Append(log[o], "operation.published")]
  BY <1>0 DEF CommitPublish, Inv, TypeOK
<1>9. /\ row' \in [Ops -> RowType] /\ log' \in [Ops -> Seq(EventNames)]
      /\ row'[o] = PublishedRow(o)
      /\ \A p \in Ops \ {o} : row'[p] = row[p] /\ log'[p] = log[p]
  BY <1>1, <1>6, <1>7, <1>8 DEF Inv, TypeOK
<1>10. /\ row'[o].state = "published" /\ row'[o].version = n + 1
       /\ row'[o].key = row[o].key /\ row'[o].request = row[o].request
  BY <1>6, <1>9
<1>11. RowsFilled' /\ \A p \in Ops : Exists(p) => Exists(p)'
  BY <1>1, <1>9, <1>10 DEF Inv, RowsFilled, Exists
<1>12. /\ \A p \in Ops : Family(p)' = Family(p)
       /\ \A p \in Ops : HasVersion(p)' <=> HasVersion(p) \/ p = o
  <2>1. \A p \in Ops : row'[p].request = row[p].request
    BY <1>9, <1>10
  <2>2. \A p \in Ops \ {o} : row'[p].version = row[p].version
    BY <1>9
  <2>3. row'[o].version # 0
    BY <1>10
  <2>4. \A p \in Ops : Family(p)' = Family(p)
    BY <2>1 DEF Family
  <2>5. \A p \in Ops : HasVersion(p)' <=> HasVersion(p) \/ p = o
    BY <2>2, <2>3 DEF HasVersion
  <2> QED
    BY <2>4, <2>5
<1>13. \A b \in Artifacts : SequencesOf(b)' = IF b = a THEN SequencesOf(b) \cup {n + 1} ELSE SequencesOf(b)
  <2> SUFFICES ASSUME NEW b \in Artifacts
               PROVE  SequencesOf(b)' = IF b = a THEN SequencesOf(b) \cup {n + 1} ELSE SequencesOf(b)
    OBVIOUS
  <2>1. \A p \in Ops : HasVersion(p)' /\ Family(p)' = b
                         <=> (HasVersion(p) /\ Family(p) = b) \/ (p = o /\ b = a)
    BY <1>1, <1>12, <1>a
  <2>2. \A p \in Ops : HasVersion(p) => row'[p].version = row[p].version
    BY <1>1, <1>9
  <2>3. SequencesOf(b)' = {row'[p].version : p \in {q \in Ops : HasVersion(q)' /\ Family(q)' = b}}
    BY DEF SequencesOf
  <2> QED
    BY <2>1, <2>2, <2>3, <1>1, <1>10 DEF SequencesOf
<1>14. Numbered'
  <2>1. \A b \in Artifacts : \E k \in Nat : SequencesOf(b)' = 1..k
    <3>1. SequencesOf(a) \cup {n + 1} = 1..(n + 1)
      BY <1>3
    <3>2. SequencesOf(a)' = 1..(n + 1) /\ n + 1 \in Nat
      <4>1. SequencesOf(a)' = SequencesOf(a) \cup {n + 1}
        BY <1>13, Zenon
      <4> QED
        BY <1>3, <3>1, <4>1
    <3>3. \A b \in Artifacts \ {a} : \E k \in Nat : SequencesOf(b)' = 1..k
      BY <1>13 DEF Inv, Numbered
    <3> QED
      BY <3>2, <3>3
  <2>2. \A p \in Ops : HasVersion(p) /\ Family(p) = a => row[p].version # n + 1
    <3>1. \A p \in Ops : HasVersion(p) /\ Family(p) = a => row[p].version \in SequencesOf(a)
      BY DEF SequencesOf
    <3> QED
      BY <1>3, <3>1
  <2>3. \A p, q \in Ops : (HasVersion(p) /\ HasVersion(q) /\ Family(p) = Family(q)
                             /\ row[p].version = row[q].version => p = q)'
    <3> SUFFICES ASSUME NEW p \in Ops, NEW q \in Ops, HasVersion(p)', HasVersion(q)',
                        Family(p)' = Family(q)', row'[p].version = row'[q].version
                 PROVE  p = q
      OBVIOUS
    <3>1. CASE p # o /\ q # o
      <4>1. row'[p] = row[p] /\ row'[q] = row[q]
        BY <3>1, <1>9
      <4>2. HasVersion(p) /\ HasVersion(q) /\ Family(p) = Family(q)
        BY <3>1, <1>12
      <4> QED
        BY <4>1, <4>2 DEF Inv, Numbered
    <3>2. ASSUME NEW x \in Ops \ {o}, HasVersion(x)', Family(x)' = a, row'[x].version = n + 1
          PROVE  FALSE
      <4>1. row[x].version = n + 1
        BY <3>2, <1>9
      <4>2. HasVersion(x) /\ Family(x) = a
        BY <3>2, <1>12
      <4> QED
        BY <4>1, <4>2, <2>2
    <3>3. row'[o].version = n + 1 /\ Family(o)' = a
      BY <1>1, <1>10, <1>12, <1>a
    <3> QED
      BY <3>1, <3>2, <3>3, <1>1
  <2>4. (\A b \in Artifacts : \E k \in Nat : SequencesOf(b) = 1..k)'
    BY <2>1
  <2> QED
    BY <2>3, <2>4, Zenon DEF Numbered
<1>15. /\ mem[w].op \in Ops /\ Exists(mem[w].op) /\ mem[w] \in MemType
       /\ PublishedRow(mem[w].op) \in RowType
  <2>1. mem[w].op \in Ops /\ Exists(mem[w].op) /\ mem[w] \in MemType
    BY <1>0, <1>1, Zenon
  <2>2. PublishedRow(mem[w].op) \in RowType
    BY <1>0, <1>6, Zenon
  <2> QED
    BY <2>1, <2>2
<1>16. row' \in [Ops -> RowType] /\ log' \in [Ops -> Seq(EventNames)]
  BY <1>9
<1>17. \A b \in Artifacts :
           LastSequence(b)' = IF b = Family(mem[w].op) THEN LastSequence(b) + 1 ELSE LastSequence(b)
  <2>1. SequencesOf(a)' = 1..(n + 1)
    <3>1. SequencesOf(a)' = SequencesOf(a) \cup {n + 1}
      BY <1>13, Zenon
    <3> QED
      BY <1>3, <3>1
  <2>2. LastSequence(a)' = n + 1
    BY <2>1, LastOfAny DEF LastSequence
  <2>3. ASSUME NEW b \in Artifacts \ {a} PROVE LastSequence(b)' = LastSequence(b)
    <3>1. SequencesOf(b)' = SequencesOf(b)
      BY <1>13
    <3> QED
      BY <3>1 DEF LastSequence
  <2> QED
    BY <1>0, <1>a, <1>4, <2>2, <2>3
<1> QED
  BY <1>11, <1>14, <1>15, <1>16, <1>17, Zenon

LEMMA PublishKeeps ==
    ASSUME Inv, NEW w \in Workers, CommitPublish(w), NEW p \in WorkerPCs, NEW m \in MemType,
           pc' = [pc EXCEPT ![w] = p], mem' = [mem EXCEPT ![w] = m],
           p # "idle" => m.op = mem[w].op, seen' \in SeenType,
           now' \in [Workers -> Nat], UNCHANGED <<call, clock, crashes>>
    PROVE  Inv'
<1>1. /\ mem[w].op \in Ops /\ Exists(mem[w].op)
      /\ row' \in [Ops -> RowType] /\ log' \in [Ops -> Seq(EventNames)]
      /\ RowsFilled' /\ Numbered' /\ \A o \in Ops : Exists(o) => Exists(o)'
  BY PublishWrites
<1>2. p # "idle" => m.op \in Ops /\ Exists(m.op)'
  BY <1>1
<1>3. pc' \in [Workers -> WorkerPCs] /\ mem' \in [Workers -> MemType] /\ HandsFull'
  BY <1>1, <1>2, WorkerKept DEF MemType
<1> QED
  BY <1>1, <1>3 DEF Inv, TypeOK, MemType, SeenType

\* A step that only moves the program counter of a worker that stays busy.
LEMMA StayStep ==
    ASSUME Inv, NEW w \in Workers, Busy(w), NEW p \in WorkerPCs, NEW s \in States \cup {"none"},
           pc' = [pc EXCEPT ![w] = p], mem' = [mem EXCEPT ![w].state = s], seen' \in SeenType,
           UNCHANGED <<call, now, clock, crashes>>,
           \/ UNCHANGED <<row, log>>
           \/ \E o \in Ops : \E r, l : RowWrite(o, r, l)
    PROVE  Inv'
<1> DEFINE m == [mem[w] EXCEPT !.state = s]
<1>1. mem[w] \in MemType /\ mem[w].op \in Ops /\ Exists(mem[w].op)
  BY DEF Inv, TypeOK, MemType, HandsFull
<1>2. m \in MemType /\ m.op = mem[w].op
  BY <1>1 DEF MemType
<1>3. mem' = [mem EXCEPT ![w] = m]
  BY <1>1 DEF Inv, TypeOK
<1> HIDE DEF m
<1>4. now' \in [Workers -> Nat] /\ clock' \in Nat /\ crashes' \in Nat
  BY DEF Inv, TypeOK
<1> QED
  BY <1>1, <1>2, <1>3, <1>4, WorkerStep

LEMMA SameMem ==
    ASSUME Inv, NEW w \in Workers, mem' = mem
    PROVE  mem' = [mem EXCEPT ![w].state = mem[w].state] /\ mem[w].state \in States \cup {"none"}
BY DEF Inv, TypeOK

LEMMA RunOnceInv ==
    ASSUME Inv, NEW w \in Workers, RunOnce(w)
    PROVE  Inv'
<1> USE DEF envVars
<1>1. ASSUME NEW o \in Ops, ClaimNext(w, o) PROVE Inv'
  BY <1>1, ClaimInv
<1>2. CASE LoadClaimed(w)
  <2>1. Busy(w) /\ mem[w].op \in Ops /\ row[mem[w].op].state \in States \cup {"none"}
    BY <1>2 DEF LoadClaimed, Busy, Inv, HandsFull, TypeOK, RowType
  <2> QED
    BY <1>2, <2>1, SeenTyped, StayStep DEF LoadClaimed, WorkerPCs
<1>r. CASE ReadRow(w)
  <2>1. Busy(w) /\ mem[w].op \in Ops /\ row[mem[w].op].state \in States \cup {"none"}
    BY <1>r DEF ReadRow, Advances, Busy, Inv, HandsFull, TypeOK, RowType
  <2>2. seen' \in SeenType
    BY <1>r, <2>1, SeenTyped DEF ReadRow
  <2>3. pc[w] \in WorkerPCs /\ pc' = [pc EXCEPT ![w] = pc[w]] /\ mem' = mem
        /\ UNCHANGED <<call, row, log, now, clock, crashes>>
    BY <1>r DEF ReadRow, Inv, TypeOK
  <2> QED
    BY <2>1, <2>2, <2>3, SameMem, StayStep
<1>3. CASE Advance(w)
  <2>1. PICK step \in Advances :
            /\ CommitAdvance(w, step)
            /\ mem' = [mem EXCEPT ![w].state = step.target]
            /\ pc' = [pc EXCEPT ![w] = step.next]
            /\ Forget(w)
            /\ UNCHANGED <<call, now, clock, crashes>>
    BY <1>3 DEF Advance
  <2>2. Busy(w) /\ seen' \in SeenType
    BY <2>1, ForgetTyped DEF CommitAdvance, Advances, Busy
  <2> QED
    BY <2>1, <2>2, CommitAdvanceWrites, StayStep
<1>4. CASE Validate(w)
  <2>1. Busy(w) /\ "verify" \in WorkerPCs /\ seen' \in SeenType
    BY <1>4, SeenTyped DEF Validate, Busy, WorkerPCs
  <2> QED
    BY <1>4, <2>1, SameMem, StayStep DEF Validate
<1>5. CASE Publish(w)
  <2>1. /\ pc' = [pc EXCEPT ![w] = "idle"] /\ mem' = [mem EXCEPT ![w] = Nothing]
        /\ "idle" \in WorkerPCs /\ Nothing \in MemType /\ now' \in [Workers -> Nat]
        /\ seen' \in SeenType
    BY <1>5, ForgetTyped DEF Publish, Leave, WorkerPCs, Nothing, MemType, Inv, TypeOK
  <2> QED
    BY <1>5, <2>1, PublishKeeps DEF Publish
<1>6. CASE StepRaises(w)
  <2>1. Busy(w) /\ "fail" \in WorkerPCs /\ seen' \in SeenType
    BY <1>6, ForgetTyped DEF StepRaises, Busy, WorkerPCs
  <2> QED
    BY <1>6, <2>1, SameMem, StayStep DEF StepRaises
<1>7. CASE LostAck(w)
  <2>1. /\ pc' = [pc EXCEPT ![w] = "fail"] /\ UNCHANGED <<call, mem, now, clock, crashes>>
        /\ "fail" \in WorkerPCs /\ seen' \in SeenType
    BY <1>7, ForgetTyped DEF LostAck, WorkerPCs
  <2>2. CASE CommitPublish(w)
    <3>1. mem[w] \in MemType /\ mem' = [mem EXCEPT ![w] = mem[w]] /\ now' \in [Workers -> Nat]
      BY <2>1 DEF Inv, TypeOK, MemType
    <3> QED
      BY <2>1, <2>2, <3>1, PublishKeeps
  <2>3. ASSUME NEW step \in Advances, CommitAdvance(w, step) PROVE Inv'
    <3>1. Busy(w)
      BY <2>3 DEF CommitAdvance, Advances, Busy
    <3> QED
      BY <2>1, <2>3, <3>1, SameMem, CommitAdvanceWrites, StayStep
  <2> QED
    BY <1>7, <2>2, <2>3 DEF LostAck
<1>8. CASE Fail(w)
  <2>1. PICK o \in Ops : o = mem[w].op /\ Exists(o)
    BY <1>8 DEF Fail, Inv, HandsFull, Busy
  <2> DEFINE s == Written(w, "failed")
             r == Released(o, s)
             l == Append(log[o], "operation.failed")
  <2>s. s \in States /\ s # "none"
    BY <2>1, WrittenType DEF States, InFlight, Terminal
  <2>2. row' = [row EXCEPT ![o] = r] /\ log' = [log EXCEPT ![o] = l]
    BY <1>8, <2>1 DEF Fail
  <2> HIDE DEF s
  <2>3. /\ r \in RowType /\ r.state # "none" /\ r.key = row[o].key
        /\ r.request = row[o].request /\ r.version = row[o].version
    BY <2>s, ReleasedRow
  <2>4. l \in Seq(EventNames)
    BY AppendEvent DEF EventNames, Inv, TypeOK
  <2> HIDE DEF r, l
  <2>5. RowWrite(o, r, l)
    BY <2>1, <2>2, <2>3, <2>4 DEF RowWrite, Inv, RowsFilled
  <2> QED
    BY <1>8, <2>5, LeaveStep DEF Fail, Inv, TypeOK
<1>9. CASE FailRaises(w)
  BY <1>9, LeaveStep DEF FailRaises, Inv, TypeOK
<1> QED
  BY <1>1, <1>2, <1>r, <1>3, <1>4, <1>5, <1>6, <1>7, <1>8, <1>9 DEF RunOnce

LEMMA NextInv == Inv /\ [Next]_vars => Inv'
<1> SUFFICES ASSUME Inv, [Next]_vars PROVE Inv'
  OBVIOUS
<1>1. ASSUME NEW c \in Clients, ClientNext(c) PROVE Inv'
  BY <1>1, ClientInv
<1>2. ASSUME NEW w \in Workers, RunOnce(w) PROVE Inv'
  BY <1>2, RunOnceInv
<1>3. ASSUME NEW w \in Workers, Crash(w) PROVE Inv'
  BY <1>3, LeaveStep DEF Crash, Inv, TypeOK
<1>4. CASE Tick
  <2>1. UNCHANGED <<call, row, log, pc, mem, seen, now, crashes>> /\ clock' \in Nat
    BY <1>4 DEF Tick, workerVars, Inv, TypeOK
  <2>2. HandsFull'
    BY <2>1 DEF Inv, HandsFull, Busy, Exists
  <2> QED
    BY <2>1, <2>2, RowsKept DEF Inv, TypeOK
<1>5. CASE UNCHANGED vars
  <2>1. UNCHANGED <<call, row, log, pc, mem, seen, now, crashes, clock>>
    BY <1>5 DEF vars
  <2>2. HandsFull'
    BY <2>1 DEF Inv, HandsFull, Busy, Exists
  <2> QED
    BY <2>1, <2>2, RowsKept DEF Inv, TypeOK
<1> QED
  BY <1>1, <1>2, <1>3, <1>4, <1>5 DEF Next, NothingToClaim

-----------------------------------------------------------------------------
(* Theorems                                                                *)

\* Rows, log, workers and calls keep their types, whatever faults occur; that
\* a version's number is a number rests on the numbering of its family.
THEOREM TypeCorrect == Spec => []TypeOK
<1>1. Inv => TypeOK
  BY DEF Inv
<1> QED
  BY InitInv, NextInv, <1>1, PTL DEF Spec

\* Versions of a family are numbered without gap or repeat: max(sequence) + 1
\* under the artifact lock and one version per operation are enough, even when
\* workers overrun their claims and acknowledgements are lost.
THEOREM GaplessFamilies == Spec => []FamilyIsGapless
<1>1. Inv => FamilyIsGapless
  <2> SUFFICES ASSUME Inv, NEW o \in Ops, HasVersion(o)
               PROVE  /\ \A p \in Ops \ {o} : HasVersion(p) /\ Family(p) = Family(o)
                                                 => row[p].version # row[o].version
                      /\ row[o].version > 1 =>
                           \E p \in Ops : HasVersion(p) /\ Family(p) = Family(o)
                                            /\ row[p].version = row[o].version - 1
    BY DEF FamilyIsGapless
  <2>1. \A p \in Ops \ {o} : HasVersion(p) /\ Family(p) = Family(o) => row[p].version # row[o].version
    BY DEF Inv, Numbered
  <2>2. ASSUME row[o].version > 1
        PROVE  \E p \in Ops : HasVersion(p) /\ Family(p) = Family(o) /\ row[p].version = row[o].version - 1
    <3>1. Exists(o) /\ Family(o) \in Artifacts
      BY ArtifactOfType DEF Inv, RowsFilled, HasVersion, NoRow, Family
    <3>2. PICK n \in Nat : SequencesOf(Family(o)) = 1..n
      BY <3>1 DEF Inv, Numbered
    <3>3. row[o].version \in SequencesOf(Family(o)) /\ row[o].version \in Nat
      BY DEF SequencesOf, Inv, TypeOK, RowType
    <3>4. row[o].version - 1 \in SequencesOf(Family(o))
      BY <2>2, <3>2, <3>3
    <3> QED
      BY <3>4 DEF SequencesOf
  <2> QED
    BY <2>1, <2>2
<1> QED
  BY InitInv, NextInv, <1>1, PTL DEF Spec

-----------------------------------------------------------------------------
(* What a step has read of its row, when every run ends before its claim   *)
(* can be taken over; acknowledgements may be lost                         *)

\* The row of w's operation names w's claim, or none that could be taken over: a worker
\* whose acknowledgement was lost may still hold an operation that it has finished.
Holds(w, r, t) ==
    \/ r.claimedBy = w /\ r.claimedAt = t
    \/ r.claimedBy = NoWorker /\ r.state # "queued"

\* A busy worker has its operation for itself, its claim cannot be stale yet, and what
\* its transaction has read is what the row says.
Kept ==
    \A w \in Workers :
        /\ ~Busy(w) => seen[w] = "none"
        /\ Busy(w) => /\ Holds(w, row[mem[w].op], now[w])
                      /\ clock <= now[w] + ClaimTimeout
                      /\ seen[w] \in {"none", row[mem[w].op].state}
                      /\ \A v \in Workers \ {w} : Busy(v) => mem[v].op # mem[w].op

\* A step of w that writes only row o, an operation no other worker holds.
LEMMA KeptStep ==
    ASSUME Inv, Kept, NEW w \in Workers, NEW o \in Ops, NEW r, NEW p, NEW m, NEW t, NEW x,
           \A v \in Workers \ {w} : Busy(v) => mem[v].op # o,
           row' = [row EXCEPT ![o] = r], seen' = [seen EXCEPT ![w] = x],
           pc' = [pc EXCEPT ![w] = p], mem' = [mem EXCEPT ![w] = m], now' = [now EXCEPT ![w] = t],
           clock' = clock,
           p = "idle" => x = "none",
           p # "idle" => /\ m.op = o /\ Holds(w, r, t) /\ x \in {"none", r.state}
                         /\ clock <= t + ClaimTimeout
    PROVE  Kept'
<1>1. /\ row'[o] = r /\ \A q \in Ops \ {o} : row'[q] = row[q]
      /\ pc'[w] = p /\ mem'[w] = m /\ now'[w] = t /\ seen'[w] = x
      /\ \A v \in Workers \ {w} : /\ pc'[v] = pc[v] /\ mem'[v] = mem[v]
                                  /\ now'[v] = now[v] /\ seen'[v] = seen[v]
  BY DEF Inv, TypeOK
<1>2. \A v \in Workers \ {w} : Busy(v) => mem[v].op \in Ops \ {o}
  BY DEF Inv, HandsFull
<1>3. ASSUME NEW v \in Workers \ {w}
      PROVE  /\ pc'[v] = "idle" => seen'[v] = "none"
             /\ pc'[v] # "idle" =>
                  /\ Holds(v, row'[mem'[v].op], now'[v])
                  /\ clock' <= now'[v] + ClaimTimeout
                  /\ seen'[v] \in {"none", row'[mem'[v].op].state}
                  /\ \A u \in Workers \ {v} : pc'[u] # "idle" => mem'[u].op # mem'[v].op
  <2>1. CASE pc[v] = "idle"
    BY <1>1, <2>1 DEF Kept, Busy
  <2>2. CASE pc[v] # "idle"
    <3>1. mem[v].op \in Ops \ {o} /\ row'[mem'[v].op] = row[mem[v].op]
      BY <1>1, <1>2, <2>2 DEF Busy
    <3>2. ASSUME NEW u \in Workers \ {v}, pc'[u] # "idle" PROVE mem'[u].op # mem'[v].op
      <4>1. CASE u = w
        BY <1>1, <3>1, <3>2, <4>1
      <4>2. CASE u # w
        BY <1>1, <2>2, <3>2, <4>2 DEF Kept, Busy
      <4> QED
        BY <4>1, <4>2
    <3>3. /\ Holds(v, row[mem[v].op], now[v]) /\ clock <= now[v] + ClaimTimeout
          /\ seen[v] \in {"none", row[mem[v].op].state}
      BY <2>2 DEF Kept, Busy
    <3> QED
      BY <1>1, <2>2, <3>1, <3>2, <3>3
  <2> QED
    BY <2>1, <2>2
<1>4. /\ pc'[w] = "idle" => seen'[w] = "none"
      /\ pc'[w] # "idle" =>
           /\ Holds(w, row'[mem'[w].op], now'[w])
           /\ clock' <= now'[w] + ClaimTimeout
           /\ seen'[w] \in {"none", row'[mem'[w].op].state}
           /\ \A u \in Workers \ {w} : pc'[u] # "idle" => mem'[u].op # mem'[w].op
  <2>1. \A u \in Workers \ {w} : pc'[u] # "idle" => mem'[u].op # o
    BY <1>1, <1>2 DEF Busy
  <2> QED
    BY <1>1, <2>1
<1>5. \A v \in Workers :
        /\ pc'[v] = "idle" => seen'[v] = "none"
        /\ pc'[v] # "idle" =>
             /\ Holds(v, row'[mem'[v].op], now'[v])
             /\ clock' <= now'[v] + ClaimTimeout
             /\ seen'[v] \in {"none", row'[mem'[v].op].state}
             /\ \A u \in Workers \ {v} : pc'[u] # "idle" => mem'[u].op # mem'[v].op
  BY <1>3, <1>4
<1> QED
  BY <1>5 DEF Kept, Busy, Holds

\* No busy worker holds an operation that may be claimed.
LEMMA ClaimableIsFree ==
    ASSUME Inv, Kept, NEW o \in Ops, Claimable(o), NEW v \in Workers, Busy(v)
    PROVE  mem[v].op # o
<1> SUFFICES ASSUME mem[v].op = o PROVE FALSE
  OBVIOUS
<1>1. Holds(v, row[o], now[v]) /\ clock <= now[v] + ClaimTimeout
  BY DEF Kept
<1>2. now[v] \in Nat /\ clock \in Nat
  BY DEF Inv, TypeOK
<1>3. ~Stale(o)
  BY <1>1, <1>2, BoundsType DEF Stale, Holds
<1> QED
  BY <1>1, <1>3, Sentinels DEF Claimable, Holds

LEMMA RunOnceKept == ASSUME Inv, Kept, NEW w \in Workers, RunOnce(w) PROVE Kept'
<1> USE DEF envVars
<1>1. ASSUME NEW o \in Ops, ClaimNext(w, o) PROVE Kept'
  <2>1. \A v \in Workers \ {w} : Busy(v) => mem[v].op # o
    BY <1>1, ClaimableIsFree DEF ClaimNext
  <2>2. row[o] \in RowType /\ clock \in Nat /\ clock <= clock + ClaimTimeout
    BY BoundsType DEF Inv, TypeOK
  <2>3. Holds(w, ClaimedRow(w, o), clock)
    BY <2>2 DEF ClaimedRow, RowType, Holds
  <2>4. seen' = [seen EXCEPT ![w] = "none"]
    BY <1>1 DEF ClaimNext, Kept, Busy, Inv, TypeOK
  <2> QED
    BY <1>1, <2>1, <2>2, <2>3, <2>4, KeptStep DEF ClaimNext
<1>2. ASSUME pc[w] # "idle" PROVE Kept'
  <2>1. PICK o \in Ops : o = mem[w].op
    BY <1>2 DEF Inv, HandsFull, Busy
  <2>2. /\ \A v \in Workers \ {w} : Busy(v) => mem[v].op # o
        /\ Holds(w, row[o], now[w]) /\ clock <= now[w] + ClaimTimeout
        /\ seen[w] \in {"none", row[o].state}
        /\ mem[w] \in MemType /\ row[o] \in RowType
    BY <1>2, <2>1 DEF Kept, Busy, Inv, TypeOK, MemType
  <2>3. /\ row = [row EXCEPT ![o] = row[o]] /\ mem = [mem EXCEPT ![w] = mem[w]]
        /\ now = [now EXCEPT ![w] = now[w]] /\ seen = [seen EXCEPT ![w] = seen[w]]
        /\ pc = [pc EXCEPT ![w] = pc[w]]
    BY DEF Inv, TypeOK
  <2>4. \A x : LET q == [mem[w] EXCEPT !.state = x] IN
            q.op = o /\ [mem EXCEPT ![w].state = x] = [mem EXCEPT ![w] = q]
    BY <2>1, <2>2 DEF MemType
  <2>0. \A r, p, m, t, x :
            /\ row' = [row EXCEPT ![o] = r] /\ seen' = [seen EXCEPT ![w] = x]
            /\ pc' = [pc EXCEPT ![w] = p] /\ mem' = [mem EXCEPT ![w] = m]
            /\ now' = [now EXCEPT ![w] = t] /\ clock' = clock
            /\ p # "idle" /\ m.op = o /\ Holds(w, r, t) /\ x \in {"none", r.state}
            /\ clock <= t + ClaimTimeout
            => Kept'
    <3>1. \A v \in Workers \ {w} : Busy(v) => mem[v].op # o
      BY <2>2
    <3> SUFFICES ASSUME NEW r, NEW p, NEW m, NEW t, NEW x,
                        row' = [row EXCEPT ![o] = r], seen' = [seen EXCEPT ![w] = x],
                        pc' = [pc EXCEPT ![w] = p], mem' = [mem EXCEPT ![w] = m],
                        now' = [now EXCEPT ![w] = t], clock' = clock,
                        p # "idle", m.op = o, Holds(w, r, t), x \in {"none", r.state},
                        clock <= t + ClaimTimeout
                 PROVE  Kept'
      OBVIOUS
    <3> QED
      BY <3>1, KeptStep
  <2>5. ASSUME NEW x, NEW y, NEW p, row' = row, now' = now, clock' = clock, y \in {"none", row[o].state},
               pc' = [pc EXCEPT ![w] = p], p # "idle", mem' = [mem EXCEPT ![w].state = x],
               seen' = [seen EXCEPT ![w] = y]
        PROVE  Kept'
    <3>1. PICK q : q.op = o /\ mem' = [mem EXCEPT ![w] = q]
      BY <2>4, <2>5
    <3>2. row' = [row EXCEPT ![o] = row[o]] /\ now' = [now EXCEPT ![w] = now[w]]
      BY <2>3, <2>5
    <3>3. Holds(w, row[o], now[w]) /\ clock <= now[w] + ClaimTimeout
      BY <2>2
    <3> QED
      BY <2>5, <2>0, <3>1, <3>2, <3>3
  <2>6. mem = [mem EXCEPT ![w].state = mem[w].state]
    BY DEF Inv, TypeOK
  <2>7. CASE LoadClaimed(w)
    BY <2>1, <2>2, <2>3, <2>5, <2>7 DEF LoadClaimed
  <2>8. CASE ReadRow(w)
    BY <1>2, <2>1, <2>3, <2>5, <2>6, <2>8 DEF ReadRow
  <2>9. CASE Validate(w)
    BY <2>2, <2>3, <2>5, <2>6, <2>9 DEF Validate
  <2>10. CASE StepRaises(w)
    BY <2>5, <2>6, <2>10 DEF StepRaises, Forget
  <2>11. ASSUME NEW step \in Advances, CommitAdvance(w, step), NEW x, NEW p,
                pc' = [pc EXCEPT ![w] = p], p # "idle", mem' = [mem EXCEPT ![w].state = x],
                Forget(w), now' = now, clock' = clock
         PROVE  Kept'
    <3> DEFINE s == Written(w, step.target)
               r == [row[o] EXCEPT !.state = s]
               q == [mem[w] EXCEPT !.state = x]
    <3>1. row' = [row EXCEPT ![o] = r]
      BY <2>1, <2>11 DEF CommitAdvance
    <3>2. s = "queued" => row[o].state = "queued"
      BY <2>1 DEF Written, Advances
    <3> HIDE DEF s
    <3>3. r.state = s /\ r.claimedBy = row[o].claimedBy /\ r.claimedAt = row[o].claimedAt
      BY <2>2 DEF RowType
    <3>4. Holds(w, r, now[w])
      BY <2>2, <3>2, <3>3 DEF Holds
    <3>5. q.op = o /\ mem' = [mem EXCEPT ![w] = q]
      BY <2>4, <2>11
    <3> HIDE DEF r, q
    <3>6. now' = [now EXCEPT ![w] = now[w]] /\ seen' = [seen EXCEPT ![w] = "none"]
      BY <2>3, <2>11 DEF Forget
    <3>7. /\ \A v \in Workers \ {w} : Busy(v) => mem[v].op # o
          /\ clock <= now[w] + ClaimTimeout
      BY <2>2
    <3>8. "none" \in {"none", r.state}
      OBVIOUS
    <3> QED
      BY <2>11, <2>0, <3>1, <3>4, <3>5, <3>6, <3>7, <3>8
  <2>12. CASE Advance(w)
    <3>1. PICK step \in Advances :
              /\ CommitAdvance(w, step)
              /\ mem' = [mem EXCEPT ![w].state = step.target]
              /\ pc' = [pc EXCEPT ![w] = step.next]
              /\ Forget(w)
              /\ UNCHANGED <<call, now, clock, crashes>>
      BY <2>12 DEF Advance
    <3>2. step.next # "idle"
      BY DEF Advances
    <3> QED
      BY <2>11, <3>1, <3>2
  <2>13. ASSUME CommitPublish(w), NEW m, NEW p, NEW t, Forget(w),
                pc' = [pc EXCEPT ![w] = p], mem' = [mem EXCEPT ![w] = m], now' = [now EXCEPT ![w] = t],
                clock' = clock, p # "idle" => m.op = o /\ t = now[w]
         PROVE  Kept'
    <3>1. row' = [row EXCEPT ![o] = PublishedRow(o)]
      BY <2>1, <2>13 DEF CommitPublish
    <3>2. PublishedRow(o).claimedBy = NoWorker /\ PublishedRow(o).state = "published"
      BY <2>2 DEF PublishedRow, Released, RowType
    <3>3. Holds(w, PublishedRow(o), t)
      BY <3>2 DEF Holds
    <3>4. seen' = [seen EXCEPT ![w] = "none"]
      BY <2>13 DEF Forget
    <3> QED
      BY <2>2, <2>13, <3>1, <3>3, <3>4, KeptStep
  <2>14. CASE Publish(w)
    BY <2>13, <2>14 DEF Publish, Leave
  <2>15. CASE LostAck(w)
    <3>1. /\ pc' = [pc EXCEPT ![w] = "fail"] /\ mem' = mem /\ now' = now /\ clock' = clock /\ Forget(w)
      BY <2>15 DEF LostAck
    <3>2. CASE CommitPublish(w)
      BY <2>1, <2>3, <2>13, <3>1, <3>2
    <3>3. ASSUME NEW step \in Advances, CommitAdvance(w, step) PROVE Kept'
      BY <2>6, <2>11, <3>1, <3>3
    <3> QED
      BY <2>15, <3>2, <3>3 DEF LostAck
  <2>16. ASSUME NEW r, row' = [row EXCEPT ![o] = r], Leave(w), clock' = clock PROVE Kept'
    BY <2>2, <2>16, KeptStep DEF Leave, Forget
  <2>17. CASE Fail(w)
    BY <2>1, <2>16, <2>17 DEF Fail
  <2>18. CASE FailRaises(w)
    BY <2>3, <2>16, <2>18 DEF FailRaises
  <2>19. ASSUME NEW q \in Ops, ClaimNext(w, q) PROVE FALSE
    BY <1>2, <2>19 DEF ClaimNext
  <2> QED
    BY <2>7, <2>8, <2>9, <2>10, <2>12, <2>14, <2>15, <2>17, <2>18, <2>19 DEF RunOnce
<1> QED
  <2>1. pc[w] = "idle" => \E o \in Ops : ClaimNext(w, o)
    BY DEF RunOnce, LoadClaimed, ReadRow, Advance, CommitAdvance, Advances, Validate, Publish, CommitPublish,
           StepRaises, LostAck, Fail, FailRaises
  <2> QED
    BY <1>1, <1>2, <2>1

LEMMA NextKept ==
    ASSUME "overrun" \notin Faults
    PROVE  Inv /\ Kept /\ [Next]_vars => Kept'
<1> SUFFICES ASSUME Inv, Kept, [Next]_vars PROVE Kept'
  OBVIOUS
<1>1. ASSUME NEW w \in Workers, RunOnce(w) PROVE Kept'
  BY <1>1, RunOnceKept
<1>2. ASSUME UNCHANGED <<pc, mem, seen, now>>,
             \A o \in Ops : Exists(o) => row'[o] = row[o],
             \A w \in Workers : Busy(w) => clock' <= now[w] + ClaimTimeout
      PROVE  Kept'
  <2>1. \A w \in Workers : Busy(w) => row'[mem[w].op] = row[mem[w].op]
    BY <1>2 DEF Inv, HandsFull
  <2> QED
    BY <1>2, <2>1 DEF Kept, Busy, Holds
<1>3. ASSUME NEW c \in Clients, ClientNext(c) PROVE Kept'
  <2>1. CASE UNCHANGED <<pc, mem, seen, now, clock, row>>
    BY <1>2, <2>1 DEF Kept
  <2>2. ASSUME NEW o \in Ops, ~Exists(o), UNCHANGED <<pc, mem, seen, now, clock>>, NEW r,
               row' = [row EXCEPT ![o] = r]
        PROVE  Kept'
    <3>1. \A q \in Ops : Exists(q) => row'[q] = row[q]
      BY <2>2 DEF Inv, TypeOK
    <3> QED
      BY <1>2, <2>2, <3>1 DEF Kept
  <2> QED
    BY <1>3, <2>1, <2>2 DEF ClientNext, Refuse, LookUp, Insert, workerVars, envVars
<1>4. ASSUME NEW w \in Workers, Crash(w) PROVE Kept'
  <2>1. PICK o \in Ops : o = mem[w].op
    BY <1>4 DEF Crash, Inv, HandsFull
  <2>2. /\ \A v \in Workers \ {w} : Busy(v) => mem[v].op # o
        /\ row = [row EXCEPT ![o] = row[o]]
    BY <1>4, <2>1 DEF Crash, Kept, Inv, TypeOK
  <2> QED
    BY <1>4, <2>2, KeptStep DEF Crash, Leave, Forget
<1>5. CASE Tick
  <2>1. /\ UNCHANGED <<row, pc, mem, seen, now>> /\ clock' = clock + 1
        /\ \A w \in Workers : Busy(w) => clock < now[w] + ClaimTimeout
    BY <1>5 DEF Tick, workerVars
  <2>2. clock \in Nat /\ \A w \in Workers : now[w] \in Nat
    BY DEF Inv, TypeOK
  <2>3. \A w \in Workers : Busy(w) => clock' <= now[w] + ClaimTimeout
    BY <2>1, <2>2, BoundsType
  <2> QED
    BY <1>2, <2>1, <2>3
<1>6. CASE UNCHANGED vars
  BY <1>2, <1>6 DEF vars, Kept
<1> QED
  BY <1>1, <1>3, <1>4, <1>5, <1>6 DEF Next, NothingToClaim

LEMMA InitKept == Init => Kept
BY DEF Init, Kept, Busy

\* So a step writes the state it announces, whether or not its UPDATE names the column.
LEMMA WritesTarget ==
    ASSUME Kept, NEW w \in Workers, seen[w] # "none", NEW s
    PROVE  Written(w, s) = s
BY DEF Kept, Written

-----------------------------------------------------------------------------
(* Claims, when every run ends before its claim can be taken over and no   *)
(* acknowledgement is lost                                                 *)

\* A busy worker holds the claim its row names, the claim cannot be stale yet,
\* and what the worker believes of its operation is true.
Live ==
    \A w \in Workers : Busy(w) =>
        /\ row[mem[w].op].claimedBy = w
        /\ row[mem[w].op].claimedAt = now[w]
        /\ clock <= now[w] + ClaimTimeout
        /\ pc[w] = "load" => row[mem[w].op].state = "queued"
        /\ pc[w] # "load" => mem[w].state = row[mem[w].op].state

\* A finished row is claimed by nobody.
Unclaimed == \A o \in Ops : row[o].state \in Terminal => row[o].claimedBy = NoWorker

TimelyInv == Inv /\ Kept /\ Live /\ Unclaimed

LEMMA OwnOperation ==
    ASSUME TimelyInv, NEW v \in Workers, NEW w \in Workers \ {v}, Busy(v), Busy(w)
    PROVE  mem[v].op # mem[w].op
BY DEF TimelyInv, Live

\* A step of w that writes only row o, an operation no other worker holds.
LEMMA LiveStep ==
    ASSUME TimelyInv, Inv', Kept', NEW w \in Workers, NEW o \in Ops, NEW r, NEW p, NEW m, NEW t,
           \A v \in Workers \ {w} : Busy(v) => mem[v].op # o,
           r.state \in Terminal => r.claimedBy = NoWorker,
           row' = [row EXCEPT ![o] = r],
           pc' = [pc EXCEPT ![w] = p], mem' = [mem EXCEPT ![w] = m], now' = [now EXCEPT ![w] = t],
           clock' = clock,
           p # "idle" => /\ m.op = o /\ r.claimedBy = w /\ r.claimedAt = t
                         /\ clock <= t + ClaimTimeout
                         /\ p = "load" => r.state = "queued"
                         /\ p # "load" => m.state = r.state
    PROVE  TimelyInv'
<1>1. /\ row'[o] = r /\ \A q \in Ops \ {o} : row'[q] = row[q]
      /\ pc'[w] = p /\ mem'[w] = m /\ now'[w] = t
      /\ \A v \in Workers \ {w} : pc'[v] = pc[v] /\ mem'[v] = mem[v] /\ now'[v] = now[v]
  BY DEF TimelyInv, Inv, TypeOK
<1>2. \A v \in Workers \ {w} : Busy(v) => mem[v].op \in Ops \ {o}
  BY DEF TimelyInv, Inv, HandsFull
<1>3. ASSUME NEW v \in Workers \ {w}, pc'[v] # "idle"
      PROVE  /\ row'[mem'[v].op].claimedBy = v
             /\ row'[mem'[v].op].claimedAt = now'[v]
             /\ clock' <= now'[v] + ClaimTimeout
             /\ pc'[v] = "load" => row'[mem'[v].op].state = "queued"
             /\ pc'[v] # "load" => mem'[v].state = row'[mem'[v].op].state
  BY <1>1, <1>2, <1>3 DEF TimelyInv, Live, Busy
<1>4. pc'[w] # "idle" =>
             /\ row'[mem'[w].op].claimedBy = w
             /\ row'[mem'[w].op].claimedAt = now'[w]
             /\ clock' <= now'[w] + ClaimTimeout
             /\ pc'[w] = "load" => row'[mem'[w].op].state = "queued"
             /\ pc'[w] # "load" => mem'[w].state = row'[mem'[w].op].state
  BY <1>1
<1>5. Live'
  BY <1>3, <1>4 DEF Live, Busy
<1>6. Unclaimed'
  BY <1>1 DEF TimelyInv, Unclaimed
<1> QED
  BY <1>5, <1>6 DEF TimelyInv

LEMMA RunOnceTimely ==
    ASSUME TimelyInv, Inv', Kept', "lost_ack" \notin Faults, NEW w \in Workers, RunOnce(w)
    PROVE  TimelyInv'
<1> USE DEF envVars
<1>1. ASSUME NEW o \in Ops, ClaimNext(w, o) PROVE TimelyInv'
  <2>1. \A v \in Workers \ {w} : Busy(v) => mem[v].op # o
    BY <1>1, ClaimableIsFree DEF ClaimNext, TimelyInv
  <2>2. row[o] \in RowType /\ clock \in Nat /\ clock <= clock + ClaimTimeout
    BY BoundsType DEF TimelyInv, Inv, TypeOK
  <2>3. ClaimedRow(w, o).state = "queued" /\ ClaimedRow(w, o).claimedBy = w /\ ClaimedRow(w, o).claimedAt = clock
    BY <2>2 DEF ClaimedRow, RowType
  <2> QED
    BY <1>1, <2>1, <2>2, <2>3, LiveStep DEF ClaimNext, Terminal
<1>2. ASSUME pc[w] # "idle" PROVE TimelyInv'
  <2>1. PICK o \in Ops : o = mem[w].op
    BY <1>2 DEF TimelyInv, Inv, HandsFull, Busy
  <2>2. /\ \A v \in Workers \ {w} : Busy(v) => mem[v].op # o
        /\ row[o].claimedBy = w /\ row[o].claimedAt = now[w] /\ clock <= now[w] + ClaimTimeout
        /\ pc[w] = "load" => row[o].state = "queued"
        /\ pc[w] # "load" => mem[w].state = row[o].state
        /\ row[o].state \notin Terminal
        /\ mem[w] \in MemType /\ row[o] \in RowType
    BY <1>2, <2>1, OwnOperation, Sentinels DEF TimelyInv, Live, Unclaimed, Busy, Inv, TypeOK, MemType
  <2>3. row = [row EXCEPT ![o] = row[o]] /\ mem = [mem EXCEPT ![w] = mem[w]] /\ now = [now EXCEPT ![w] = now[w]]
    BY DEF TimelyInv, Inv, TypeOK
  <2>4. \A x \in States \cup {"none"} : LET q == [mem[w] EXCEPT !.state = x] IN
            q.op = o /\ q.state = x /\ [mem EXCEPT ![w].state = x] = [mem EXCEPT ![w] = q]
    BY <2>1, <2>2 DEF MemType
  <2>5. CASE LoadClaimed(w)
    <3>1. row[o].state \in States \cup {"none"}
      BY <2>2 DEF RowType
    <3> DEFINE q == [mem[w] EXCEPT !.state = row[o].state]
    <3>2. q.op = o /\ q.state = row[o].state /\ [mem EXCEPT ![w].state = row[o].state] = [mem EXCEPT ![w] = q]
      BY <2>4, <3>1
    <3>3. /\ row' = [row EXCEPT ![o] = row[o]] /\ now' = [now EXCEPT ![w] = now[w]] /\ clock' = clock
          /\ pc' = [pc EXCEPT ![w] = "resolve"] /\ mem' = [mem EXCEPT ![w] = q]
      BY <2>1, <2>3, <2>5, <3>2 DEF LoadClaimed
    <3> HIDE DEF q
    <3> QED
      BY <2>2, <3>2, <3>3, LiveStep
  <2>r. CASE ReadRow(w)
    <3>1. /\ row' = [row EXCEPT ![o] = row[o]] /\ now' = [now EXCEPT ![w] = now[w]] /\ clock' = clock
          /\ pc' = [pc EXCEPT ![w] = pc[w]] /\ mem' = [mem EXCEPT ![w] = mem[w]] /\ pc[w] # "load"
      BY <2>3, <2>r DEF ReadRow, Advances, TimelyInv, Inv, TypeOK
    <3> QED
      BY <1>2, <2>1, <2>2, <3>1, LiveStep
  <2>6. CASE Advance(w)
    <3>1. PICK step \in Advances :
              /\ CommitAdvance(w, step)
              /\ mem' = [mem EXCEPT ![w].state = step.target]
              /\ pc' = [pc EXCEPT ![w] = step.next]
              /\ UNCHANGED <<call, now, clock, crashes>>
      BY <2>6 DEF Advance
    <3> DEFINE r == [row[o] EXCEPT !.state = step.target]
    <3>2. r.state = step.target /\ r.claimedBy = w /\ r.claimedAt = now[w]
      BY <2>2 DEF RowType
    <3>3. row' = [row EXCEPT ![o] = r]
      BY <3>1, <2>1, WritesTarget DEF CommitAdvance, TimelyInv
    <3>4. step.target \in States \cup {"none"} /\ step.target \notin Terminal /\ step.next # "load"
      BY DEF Advances, States, InFlight, Terminal
    <3> DEFINE q == [mem[w] EXCEPT !.state = step.target]
    <3>5. q.op = o /\ q.state = step.target /\ mem' = [mem EXCEPT ![w] = q]
      BY <2>4, <3>1, <3>4
    <3>6. now' = [now EXCEPT ![w] = now[w]] /\ clock' = clock /\ pc' = [pc EXCEPT ![w] = step.next]
      BY <2>3, <3>1
    <3> HIDE DEF r, q
    <3> QED
      BY <2>2, <3>2, <3>3, <3>4, <3>5, <3>6, LiveStep
  <2>7. CASE Validate(w)
    <3>1. /\ row' = [row EXCEPT ![o] = row[o]] /\ now' = [now EXCEPT ![w] = now[w]] /\ clock' = clock
          /\ pc' = [pc EXCEPT ![w] = "verify"] /\ mem' = [mem EXCEPT ![w] = mem[w]] /\ pc[w] # "load"
      BY <2>3, <2>7 DEF Validate
    <3> QED
      BY <2>1, <2>2, <3>1, LiveStep
  <2>8. CASE Publish(w)
    <3>1. /\ row' = [row EXCEPT ![o] = PublishedRow(o)]
          /\ pc' = [pc EXCEPT ![w] = "idle"] /\ mem' = [mem EXCEPT ![w] = Nothing]
          /\ now' = [now EXCEPT ![w] = 0] /\ clock' = clock
      BY <2>1, <2>8 DEF Publish, CommitPublish, Leave
    <3>2. PublishedRow(o).claimedBy = NoWorker
      BY <2>2 DEF PublishedRow, Released, RowType
    <3> QED
      BY <2>2, <3>1, <3>2, LiveStep
  <2>9. CASE StepRaises(w)
    <3>1. /\ row' = [row EXCEPT ![o] = row[o]] /\ now' = [now EXCEPT ![w] = now[w]] /\ clock' = clock
          /\ pc' = [pc EXCEPT ![w] = "fail"] /\ mem' = [mem EXCEPT ![w] = mem[w]] /\ pc[w] # "load"
      BY <2>3, <2>9 DEF StepRaises
    <3> QED
      BY <2>1, <2>2, <3>1, LiveStep
  <2>10. CASE Fail(w)
    <3>1. /\ row' = [row EXCEPT ![o] = Released(o, "failed")]
          /\ pc' = [pc EXCEPT ![w] = "idle"] /\ mem' = [mem EXCEPT ![w] = Nothing]
          /\ now' = [now EXCEPT ![w] = 0] /\ clock' = clock
      BY <2>1, <2>10, WritesTarget DEF Fail, Leave, TimelyInv
    <3>2. Released(o, "failed").claimedBy = NoWorker
      BY <2>2 DEF Released, RowType
    <3> QED
      BY <2>2, <3>1, <3>2, LiveStep
  <2>11. CASE FailRaises(w)
    <3>1. /\ row' = [row EXCEPT ![o] = row[o]] /\ clock' = clock
          /\ pc' = [pc EXCEPT ![w] = "idle"] /\ mem' = [mem EXCEPT ![w] = Nothing]
          /\ now' = [now EXCEPT ![w] = 0]
      BY <2>3, <2>11 DEF FailRaises, Leave
    <3> QED
      BY <2>2, <3>1, LiveStep
  <2>12. ASSUME NEW q \in Ops, ClaimNext(w, q) PROVE FALSE
    BY <1>2, <2>12 DEF ClaimNext
  <2> QED
    BY <2>5, <2>r, <2>6, <2>7, <2>8, <2>9, <2>10, <2>11, <2>12 DEF RunOnce, LostAck
<1> QED
  <2>1. pc[w] = "idle" => \E o \in Ops : ClaimNext(w, o)
    BY DEF RunOnce, LoadClaimed, ReadRow, Advance, CommitAdvance, Advances, Validate, Publish, CommitPublish,
           StepRaises, LostAck, Fail, FailRaises
  <2> QED
    BY <1>1, <1>2, <2>1

LEMMA NextTimely ==
    ASSUME "overrun" \notin Faults, "lost_ack" \notin Faults
    PROVE  TimelyInv /\ [Next]_vars => TimelyInv'
<1> SUFFICES ASSUME TimelyInv, [Next]_vars PROVE TimelyInv'
  OBVIOUS
<1>1. Inv' /\ Kept'
  BY NextInv, NextKept DEF TimelyInv
<1>2. ASSUME NEW w \in Workers, RunOnce(w) PROVE TimelyInv'
  BY <1>1, <1>2, RunOnceTimely
<1>3. ASSUME UNCHANGED <<pc, mem, now, clock>>,
             \A o \in Ops : Exists(o) => row'[o] = row[o],
             \A o \in Ops : row'[o].state \in Terminal => row'[o].claimedBy = NoWorker
      PROVE  TimelyInv'
  <2>1. \A w \in Workers : Busy(w) => row'[mem[w].op] = row[mem[w].op]
    BY <1>3 DEF TimelyInv, Inv, HandsFull
  <2>2. Live'
    BY <1>3, <2>1 DEF TimelyInv, Live, Busy
  <2> QED
    BY <1>1, <1>3, <2>2 DEF TimelyInv, Unclaimed
<1>4. ASSUME NEW c \in Clients, ClientNext(c) PROVE TimelyInv'
  <2>1. CASE UNCHANGED <<pc, mem, now, clock, row>>
    BY <1>3, <2>1 DEF TimelyInv, Unclaimed
  <2>2. ASSUME NEW o \in Ops, ~Exists(o), UNCHANGED <<pc, mem, now, clock>>,
               row' = [row EXCEPT ![o] = [NoRow EXCEPT !.state = "queued", !.key = call[c].key,
                                             !.request = call[c].request, !.createdAt = clock]]
        PROVE  TimelyInv'
    <3>1. row'[o].state = "queued" /\ \A q \in Ops \ {o} : row'[q] = row[q]
      BY <2>2 DEF TimelyInv, Inv, TypeOK, NoRow
    <3> QED
      BY <1>3, <2>2, <3>1 DEF TimelyInv, Unclaimed, Terminal
  <2> QED
    BY <1>4, <2>1, <2>2 DEF ClientNext, Refuse, LookUp, Insert, workerVars, envVars
<1>5. ASSUME NEW w \in Workers, Crash(w) PROVE TimelyInv'
  <2>1. PICK o \in Ops : o = mem[w].op
    BY <1>5 DEF Crash, TimelyInv, Inv, HandsFull
  <2>2. /\ \A v \in Workers \ {w} : Busy(v) => mem[v].op # o
        /\ row[o].state \in Terminal => row[o].claimedBy = NoWorker
        /\ row = [row EXCEPT ![o] = row[o]]
    BY <1>5, <2>1, OwnOperation DEF Crash, TimelyInv, Unclaimed, Inv, TypeOK
  <2> QED
    BY <1>1, <1>5, <2>2, LiveStep DEF Crash, Leave
<1>6. CASE Tick
  <2>1. /\ UNCHANGED <<row, pc, mem, now>> /\ clock' = clock + 1
        /\ \A w \in Workers : Busy(w) => clock < now[w] + ClaimTimeout
    BY <1>6 DEF Tick, workerVars
  <2>2. clock \in Nat /\ \A w \in Workers : now[w] \in Nat
    BY DEF TimelyInv, Inv, TypeOK
  <2>3. \A w \in Workers : Busy(w) => clock' <= now[w] + ClaimTimeout
    BY <2>1, <2>2, BoundsType
  <2>4. Live'
    BY <2>1, <2>3 DEF TimelyInv, Live, Busy
  <2> QED
    BY <1>1, <2>1, <2>4 DEF TimelyInv, Unclaimed
<1>7. CASE UNCHANGED vars
  BY <1>3, <1>7 DEF vars, TimelyInv, Unclaimed
<1> QED
  BY <1>2, <1>4, <1>5, <1>6, <1>7 DEF Next, NothingToClaim

LEMMA InitTimely == Init => TimelyInv
<1> SUFFICES ASSUME Init PROVE TimelyInv
  OBVIOUS
<1>1. Live /\ Unclaimed
  BY DEF Init, Live, Unclaimed, Busy, NoRow, Terminal
<1> QED
  BY <1>1, InitInv, InitKept DEF TimelyInv

\* No step ever gives one operation to two workers, and a busy worker holds the
\* claim its row names: the fixed claim timeout excludes what no step checks.
THEOREM ClaimsAreExclusive ==
    ASSUME "overrun" \notin Faults, "lost_ack" \notin Faults
    PROVE  Spec => [](ClaimIsExclusive /\ MemoryIsCurrent)
<1>1. TimelyInv => ClaimIsExclusive
  BY OwnOperation DEF TimelyInv, Live, ClaimIsExclusive
<1>2. TimelyInv => MemoryIsCurrent
  BY DEF TimelyInv, Live, MemoryIsCurrent, Busy
<1> QED
  BY InitTimely, NextTimely, <1>1, <1>2, PTL DEF Spec

LEMMA StepKeepsTerminal ==
    ASSUME TimelyInv, "lost_ack" \notin Faults, [Next]_vars,
           NEW o \in Ops, row[o].state \in Terminal
    PROVE  row'[o] = row[o] /\ log'[o] = log[o]
<1>1. row[o].claimedBy = NoWorker /\ Exists(o)
  BY DEF TimelyInv, Unclaimed, Exists, Terminal
<1>2. ASSUME NEW q \in Ops \ {o}, NEW r, NEW l, row' = [row EXCEPT ![q] = r], log' = [log EXCEPT ![q] = l]
      PROVE  row'[o] = row[o] /\ log'[o] = log[o]
  BY <1>2 DEF TimelyInv, Inv, TypeOK
<1>3. ASSUME NEW w \in Workers, Busy(w)
      PROVE  mem[w].op \in Ops \ {o}
  BY <1>1, <1>3, Sentinels DEF TimelyInv, Live, Inv, HandsFull
<1>4. ASSUME NEW c \in Clients, ClientNext(c) PROVE row'[o] = row[o] /\ log'[o] = log[o]
  BY <1>1, <1>2, <1>4 DEF ClientNext, Refuse, LookUp, Insert
<1>5. ASSUME NEW w \in Workers, RunOnce(w) PROVE row'[o] = row[o] /\ log'[o] = log[o]
  <2>1. ASSUME NEW q \in Ops, ClaimNext(w, q) PROVE row'[o] = row[o] /\ log'[o] = log[o]
    <3>1. q # o
      BY <1>1, <2>1 DEF ClaimNext, Claimable, Stale, Terminal, InFlight
    <3> QED
      BY <1>2, <2>1, <3>1 DEF ClaimNext
  <2>2. ASSUME NEW step \in Advances, CommitAdvance(w, step) PROVE row'[o] = row[o] /\ log'[o] = log[o]
    <3>1. mem[w].op \in Ops \ {o}
      BY <1>3, <2>2 DEF CommitAdvance, Advances, Busy
    <3> QED
      BY <2>2, <3>1 DEF CommitAdvance, TimelyInv, Inv, TypeOK
  <2>3. CASE Publish(w)
    <3>1. mem[w].op \in Ops \ {o}
      BY <1>3, <2>3 DEF Publish, CommitPublish, Busy
    <3> QED
      BY <2>3, <3>1 DEF Publish, CommitPublish, TimelyInv, Inv, TypeOK
  <2>4. CASE Fail(w)
    <3>1. mem[w].op \in Ops \ {o}
      BY <1>3, <2>4 DEF Fail, Busy
    <3> QED
      BY <2>4, <3>1 DEF Fail, TimelyInv, Inv, TypeOK
  <2> QED
    BY <1>5, <2>1, <2>2, <2>3, <2>4
       DEF RunOnce, LoadClaimed, ReadRow, Advance, Validate, StepRaises, LostAck, FailRaises
<1> QED
  BY <1>4, <1>5 DEF Next, NothingToClaim, Crash, Tick, vars

\* A published or failed operation is never written again, by whichever worker.
THEOREM TerminalStaysFinal ==
    ASSUME "overrun" \notin Faults, "lost_ack" \notin Faults
    PROVE  Spec => TerminalIsFinal
<1>1. TimelyInv /\ [Next]_vars =>
        [\A o \in Ops : row[o].state \in Terminal => row'[o] = row[o] /\ log'[o] = log[o]]_vars
  BY StepKeepsTerminal
<1> QED
  BY InitTimely, NextTimely, <1>1, PTL DEF Spec, TerminalIsFinal

-----------------------------------------------------------------------------
(* Rows and their events, when no run outlasts its claim                   *)

\* What a step may do to operation o and its log: nothing, insert it, start it over,
\* or move it on, as a worker that holds it believes it may.
Silent(o) == row'[o].state = row[o].state /\ log'[o] = log[o]
Opens(o) == ~Exists(o) /\ row'[o].state = "queued" /\ log'[o] = <<"operation.queued">>
Reopens(o) ==
    /\ row[o].state \in InFlight /\ row'[o].state = "queued"
    /\ log'[o] = Append(log[o], "operation.queued")
Moves(o) ==
    \E w \in Workers, e \in EventNames :
        /\ mem[w].op = o /\ pc[w] \notin {"idle", "load"}
        /\ Announces(e) \in Successors(mem[w].state)
        /\ row'[o].state = Announces(e) /\ log'[o] = Append(log[o], e)
Story(o) == Silent(o) \/ Opens(o) \/ Reopens(o) \/ Moves(o)

LEMMA Announcements ==
    /\ Announces("operation.queued") = "queued"
    /\ Announces("operation.resolving") = "resolving"
    /\ Announces("validation.progress") = "verifying"
    /\ Announces("operation.committing") = "committing"
    /\ Announces("operation.published") = "published"
    /\ Announces("operation.failed") = "failed"
    /\ \A step \in Advances : step.event \in EventNames /\ Announces(step.event) = step.target
<1>1. /\ Announces("operation.queued") = "queued"
      /\ Announces("operation.resolving") = "resolving"
      /\ Announces("validation.progress") = "verifying"
  BY DEF Announces
<1>2. /\ Announces("operation.committing") = "committing"
      /\ Announces("operation.published") = "published"
      /\ Announces("operation.failed") = "failed"
  BY DEF Announces
<1> QED
  BY <1>1, <1>2 DEF Advances, EventNames

\* A step that writes row q with state s, and appends e, or leaves all as it is.
LEMMA MoveStory ==
    ASSUME Inv, NEW w \in Workers, pc[w] \notin {"idle", "load"}, NEW e \in EventNames, NEW r,
           MayBecome(w, Announces(e)), r.state = Announces(e),
           row' = [row EXCEPT ![mem[w].op] = r],
           log' = [log EXCEPT ![mem[w].op] = Append(log[mem[w].op], e)],
           NEW o \in Ops
    PROVE  Story(o)
<1>1. mem[w].op \in Ops
  BY DEF Inv, HandsFull, Busy
<1>2. CASE mem[w].op # o
  BY <1>1, <1>2 DEF Story, Silent, Inv, TypeOK
<1>3. CASE mem[w].op = o
  <2>1. row'[o] = r /\ log'[o] = Append(log[o], e)
    BY <1>3 DEF Inv, TypeOK
  <2>2. Announces(e) \in Successors(mem[w].state)
    BY DEF MayBecome
  <2> QED
    BY <1>3, <2>1, <2>2 DEF Story, Moves
<1> QED
  BY <1>2, <1>3

LEMMA AdvanceStory ==
    ASSUME Inv, Kept, NEW w \in Workers, NEW step \in Advances, CommitAdvance(w, step), NEW o \in Ops
    PROVE  Story(o)
<1>1. mem[w].op \in Ops /\ pc[w] \notin {"idle", "load"}
  BY DEF CommitAdvance, Advances, Inv, HandsFull, Busy
<1> DEFINE r == [row[mem[w].op] EXCEPT !.state = step.target]
<1>2. r.state = step.target
  BY <1>1 DEF Inv, TypeOK, RowType
<1>3. /\ row' = [row EXCEPT ![mem[w].op] = r] /\ MayBecome(w, step.target)
      /\ log' = [log EXCEPT ![mem[w].op] = Append(log[mem[w].op], step.event)]
  BY <1>1, WritesTarget DEF CommitAdvance
<1> HIDE DEF r
<1> QED
  BY <1>1, <1>2, <1>3, Announcements, MoveStory

LEMMA PublishStory ==
    ASSUME Inv, NEW w \in Workers, CommitPublish(w), NEW o \in Ops PROVE Story(o)
<1> DEFINE p == mem[w].op
<1>1. p \in Ops /\ pc[w] \notin {"idle", "load"}
  BY DEF CommitPublish, Inv, HandsFull, Busy
<1> DEFINE n == LastSequence(Family(p)) + 1
<1>2. PublishedRow(p).state = "published"
  <2>1. Released(p, "published") \in RowType /\ Released(p, "published").state = "published"
    BY <1>1, ReleasedRow DEF States, Terminal
  <2>2. PublishedRow(p) = [Released(p, "published") EXCEPT !.version = n]
    BY DEF PublishedRow
  <2>3. \A q \in RowType : [q EXCEPT !.version = n].state = q.state
    BY DEF RowType
  <2> QED
    BY <2>1, <2>2, <2>3
<1>3. /\ row' = [row EXCEPT ![mem[w].op] = PublishedRow(p)] /\ MayBecome(w, "published")
      /\ log' = [log EXCEPT ![mem[w].op] = Append(log[mem[w].op], "operation.published")]
  BY <1>1 DEF CommitPublish
<1>4. "operation.published" \in EventNames
  BY DEF EventNames
<1> QED
  BY <1>1, <1>2, <1>3, <1>4, Announcements, MoveStory

LEMMA FailStory ==
    ASSUME Inv, Kept, NEW w \in Workers, Fail(w), NEW o \in Ops PROVE Story(o)
<1> DEFINE p == mem[w].op
<1>1. p \in Ops /\ pc[w] \notin {"idle", "load"}
  BY DEF Fail, Inv, HandsFull, Busy
<1>2. Released(p, "failed").state = "failed"
  BY <1>1, ReleasedRow DEF States, Terminal
<1>3. /\ row' = [row EXCEPT ![mem[w].op] = Released(p, "failed")] /\ MayBecome(w, "failed")
      /\ log' = [log EXCEPT ![mem[w].op] = Append(log[mem[w].op], "operation.failed")]
  BY <1>1, WritesTarget DEF Fail
<1>4. "operation.failed" \in EventNames
  BY DEF EventNames
<1> QED
  BY <1>1, <1>2, <1>3, <1>4, Announcements, MoveStory

LEMMA ClaimStory ==
    ASSUME Inv, NEW w \in Workers, NEW p \in Ops, ClaimNext(w, p), NEW o \in Ops PROVE Story(o)
<1>1. row' = [row EXCEPT ![p] = ClaimedRow(w, p)] /\ log' = [log EXCEPT ![p] = ClaimedLog(p)]
  BY DEF ClaimNext
<1>2. ClaimedRow(w, p).state = "queued"
  BY DEF ClaimedRow, Inv, TypeOK, RowType
<1>3. CASE o # p
  BY <1>1, <1>3 DEF Story, Silent, Inv, TypeOK
<1>4. CASE o = p
  <2>1. row'[o].state = "queued" /\ log'[o] = ClaimedLog(o)
    BY <1>1, <1>2, <1>4 DEF Inv, TypeOK
  <2>2. row[o].state = "queued" \/ row[o].state \in InFlight
    BY <1>4 DEF ClaimNext, Claimable
  <2> QED
    BY <2>1, <2>2 DEF Story, Silent, Reopens, ClaimedLog, InFlight
<1> QED
  BY <1>3, <1>4

LEMMA InsertStory ==
    ASSUME Inv, NEW c \in Clients, Insert(c), NEW o \in Ops PROVE Story(o)
<1>1. CASE UNCHANGED <<row, log>>
  BY <1>1 DEF Story, Silent
<1>2. ASSUME NEW p \in Ops, ~Exists(p),
             row' = [row EXCEPT ![p] = [NoRow EXCEPT !.state = "queued", !.key = call[c].key,
                                             !.request = call[c].request, !.createdAt = clock]],
             log' = [log EXCEPT ![p] = <<"operation.queued">>]
      PROVE  Story(o)
  <2>1. CASE o # p
    BY <1>2, <2>1 DEF Story, Silent, Inv, TypeOK
  <2>2. CASE o = p
    <3>1. row'[o].state = "queued"
      BY <1>2, <2>2 DEF NoRow, Inv, TypeOK
    <3>2. log'[o] = <<"operation.queued">>
      BY <1>2, <2>2 DEF Inv, TypeOK
    <3> QED
      BY <1>2, <2>2, <3>1, <3>2 DEF Story, Opens
  <2> QED
    BY <2>1, <2>2
<1> QED
  BY <1>1, <1>2 DEF Insert

\* Each step of the queue tells one of these stories of every operation.
LEMMA StepTellsStory ==
    ASSUME Inv, Kept, [Next]_vars, NEW o \in Ops PROVE Story(o)
<1>1. ASSUME UNCHANGED <<row, log>> PROVE Story(o)
  BY <1>1 DEF Story, Silent
<1>2. ASSUME NEW c \in Clients, ClientNext(c) PROVE Story(o)
  BY <1>1, <1>2, InsertStory DEF ClientNext, Refuse, LookUp
<1>3. ASSUME NEW w \in Workers, RunOnce(w) PROVE Story(o)
  <2>1. ASSUME LoadClaimed(w) \/ ReadRow(w) \/ Validate(w) \/ StepRaises(w) \/ FailRaises(w)
        PROVE  Story(o)
    BY <1>1, <2>1 DEF LoadClaimed, ReadRow, Validate, StepRaises, FailRaises
  <2>2. ASSUME Advance(w) \/ Publish(w) \/ LostAck(w) PROVE Story(o)
    BY <2>2, AdvanceStory, PublishStory DEF Advance, Publish, LostAck
  <2> QED
    BY <1>3, <2>1, <2>2, ClaimStory, FailStory DEF RunOnce
<1> QED
  BY <1>1, <1>2, <1>3 DEF Next, NothingToClaim, Crash, Tick, vars

\* The last event of an operation announces its state.
LEMMA TellsKept == ASSUME Inv, Kept, LogTellsState, [Next]_vars PROVE LogTellsState'
<1> SUFFICES ASSUME NEW o \in Ops, Exists(o)'
             PROVE  Len(log'[o]) > 0 /\ Announces(log'[o][Len(log'[o])]) = row'[o].state
  BY DEF LogTellsState
<1>1. Story(o) /\ log[o] \in Seq(EventNames)
  BY StepTellsStory DEF Inv, TypeOK
<1>2. ASSUME NEW e \in EventNames, log'[o] = Append(log[o], e), row'[o].state = Announces(e)
      PROVE  Len(log'[o]) > 0 /\ Announces(log'[o][Len(log'[o])]) = row'[o].state
  <2>1. Len(log'[o]) = Len(log[o]) + 1 /\ log'[o][Len(log'[o])] = e
    BY <1>1, <1>2
  <2>2. Len(log[o]) \in Nat
    BY <1>1
  <2> QED
    BY <1>2, <2>1, <2>2
<1>3. CASE Silent(o)
  BY <1>3 DEF Silent, LogTellsState, Exists
<1>4. CASE Opens(o)
  BY <1>4, Announcements DEF Opens
<1>5. CASE Reopens(o)
  <2>1. "operation.queued" \in EventNames
    BY DEF EventNames
  <2> QED
    BY <1>2, <1>5, <2>1, Announcements DEF Reopens
<1>6. CASE Moves(o)
  BY <1>2, <1>6 DEF Moves
<1> QED
  BY <1>1, <1>3, <1>4, <1>5, <1>6 DEF Story

LEMMA InitTells == Init => LogTellsState
BY DEF Init, LogTellsState, Exists, NoRow

\* The last event that a reader can see announces the state of the operation, whatever
\* dies or loses its acknowledgement, while no run outlasts its claim: what advance and
\* fail read without a lock, and so leave out of their UPDATE, is then still so.
THEOREM LogTellsStateSafety ==
    ASSUME "overrun" \notin Faults
    PROVE  Spec => []LogTellsState
<1>1. Inv /\ Kept /\ LogTellsState /\ [Next]_vars => LogTellsState'
  BY TellsKept
<1> QED
  BY InitInv, NextInv, InitKept, NextKept, InitTells, <1>1, PTL DEF Spec

\* An event appended to a legal log keeps it legal when it may follow the last one.
LEMMA LegalAppend ==
    ASSUME NEW s \in Seq(EventNames), NEW e \in EventNames,
           \A n \in 1..(Len(s) - 1) : MayFollow(s[n], s[n + 1]),
           Len(s) > 0 => MayFollow(s[Len(s)], e)
    PROVE  LET t == Append(s, e)
           IN  \A n \in 1..(Len(t) - 1) : MayFollow(t[n], t[n + 1])
<1> DEFINE t == Append(s, e)
<1>1. Len(s) \in Nat /\ Len(t) = Len(s) + 1
  OBVIOUS
<1>2. ASSUME NEW n \in 1..(Len(t) - 1) PROVE MayFollow(t[n], t[n + 1])
  <2>1. CASE n = Len(s)
    <3>1. t[n] = s[n] /\ t[n + 1] = e /\ Len(s) > 0
      BY <1>1, <2>1
    <3> QED
      BY <2>1, <3>1
  <2>2. CASE n # Len(s)
    <3>1. n \in 1..(Len(s) - 1) /\ t[n] = s[n] /\ t[n + 1] = s[n + 1]
      BY <1>1, <2>2
    <3> QED
      BY <3>1
  <2> QED
    BY <2>1, <2>2
<1> QED
  BY <1>2

LEMMA LegalKept ==
    ASSUME TimelyInv, LogTellsState, LogIsLegal, [Next]_vars
    PROVE  LogIsLegal'
<1> SUFFICES ASSUME NEW o \in Ops
             PROVE  \A n \in 1..(Len(log'[o]) - 1) : MayFollow(log'[o][n], log'[o][n + 1])
  BY DEF LogIsLegal
<1>1. Inv /\ Story(o) /\ log[o] \in Seq(EventNames)
  BY StepTellsStory DEF TimelyInv, Inv, TypeOK
<1>2. ASSUME NEW e \in EventNames, Exists(o), log'[o] = Append(log[o], e),
             \/ Announces(e) \in Successors(row[o].state)
             \/ e = "operation.queued" /\ row[o].state \in InFlight
      PROVE  \A n \in 1..(Len(log'[o]) - 1) : MayFollow(log'[o][n], log'[o][n + 1])
  <2>1. Announces(log[o][Len(log[o])]) = row[o].state
    BY <1>2 DEF LogTellsState
  <2>2. MayFollow(log[o][Len(log[o])], e)
    BY <1>2, <2>1 DEF MayFollow
  <2>3. \A n \in 1..(Len(log[o]) - 1) : MayFollow(log[o][n], log[o][n + 1])
    BY DEF LogIsLegal
  <2> QED
    BY <1>1, <1>2, <2>2, <2>3, LegalAppend
<1>3. CASE Silent(o)
  BY <1>3 DEF Silent, LogIsLegal
<1>4. CASE Opens(o)
  BY <1>4 DEF Opens
<1>5. CASE Reopens(o)
  <2>1. "operation.queued" \in EventNames /\ Exists(o)
    BY <1>5 DEF EventNames, Reopens, InFlight, Exists
  <2> QED
    BY <1>2, <1>5, <2>1 DEF Reopens
<1>6. CASE Moves(o)
  <2>1. PICK w \in Workers, e \in EventNames :
            /\ mem[w].op = o /\ pc[w] \notin {"idle", "load"}
            /\ Announces(e) \in Successors(mem[w].state)
            /\ log'[o] = Append(log[o], e)
    BY <1>6 DEF Moves
  <2>2. mem[w].state = row[o].state /\ Exists(o)
    BY <1>1, <2>1 DEF TimelyInv, Live, Busy, Inv, HandsFull
  <2> QED
    BY <1>2, <2>1, <2>2
<1> QED
  BY <1>1, <1>3, <1>4, <1>5, <1>6 DEF Story

LEMMA InitLegal == Init => LogIsLegal
BY DEF Init, LogIsLegal

\* While no run outlasts its claim and no acknowledgement is lost, the events of an
\* operation tell a legal life, crashes and recoveries included: the steps of a worker
\* compare nothing with the row, and still none is told out of order or after the end.
THEOREM LogIsLegalSafety ==
    ASSUME "overrun" \notin Faults, "lost_ack" \notin Faults
    PROVE  Spec => []LogIsLegal
<1>1. Inv /\ Kept /\ LogTellsState /\ [Next]_vars => LogTellsState'
  BY TellsKept
<1>2. TimelyInv => Inv /\ Kept
  BY DEF TimelyInv
<1>3. TimelyInv /\ LogTellsState /\ LogIsLegal /\ [Next]_vars => LogIsLegal'
  BY LegalKept
<1> QED
  BY InitTimely, NextTimely, InitTells, InitLegal, <1>1, <1>2, <1>3, PTL DEF Spec

-----------------------------------------------------------------------------
(* Idempotency keys, whatever faults occur                                 *)

\* No two rows have one key, and a call that was answered with an operation has one with
\* its own key and request.
KeysAreUnique ==
    /\ \A o, p \in Ops : Exists(o) /\ Exists(p) /\ row[o].key = row[p].key => o = p
    /\ \A c \in Clients : call[c].pc \in Acked =>
          /\ call[c].op \in Ops /\ Exists(call[c].op)
          /\ row[call[c].op].key = call[c].key /\ row[call[c].op].request = call[c].request

\* A row that is there keeps its key and request; at most one is new.
LEMMA WorkersKeepKeys ==
    ASSUME Inv, KeysAreUnique, UNCHANGED call,
           \A o \in Ops : /\ Exists(o)' <=> Exists(o)
                          /\ row'[o].key = row[o].key /\ row'[o].request = row[o].request
    PROVE  KeysAreUnique'
<1>1. \A o, p \in Ops : (Exists(o) /\ Exists(p) /\ row[o].key = row[p].key => o = p)'
  BY DEF KeysAreUnique
<1>2. ASSUME NEW c \in Clients, call[c].pc \in Acked
      PROVE  /\ call[c].op \in Ops /\ Exists(call[c].op)'
             /\ row'[call[c].op].key = call[c].key /\ row'[call[c].op].request = call[c].request
  BY <1>2 DEF KeysAreUnique
<1> QED
  BY <1>1, <1>2, Zenon DEF KeysAreUnique

\* What a transaction of a worker writes is about a row that is there.
LEMMA WorkersKeepColumns ==
    ASSUME Inv, NEW w \in Workers, RunOnce(w), NEW o \in Ops
    PROVE  /\ Exists(o)' <=> Exists(o)
           /\ row'[o].key = row[o].key /\ row'[o].request = row[o].request
<1>1. ASSUME NEW p \in Ops, Exists(p), NEW r, row' = [row EXCEPT ![p] = r],
             r.state # "none", r.key = row[p].key, r.request = row[p].request
      PROVE  /\ Exists(o)' <=> Exists(o)
             /\ row'[o].key = row[o].key /\ row'[o].request = row[o].request
  <2>1. row' \in [Ops -> {row[x] : x \in Ops} \cup {r}] /\ row'[p] = r
        /\ \A q \in Ops \ {p} : row'[q] = row[q]
    BY <1>1 DEF Inv, TypeOK
  <2>2. CASE o = p
    BY <1>1, <2>1, <2>2 DEF Exists
  <2>3. CASE o # p
    BY <2>1, <2>3 DEF Exists
  <2> QED
    BY <2>2, <2>3
<1>2. ASSUME row' = row PROVE /\ Exists(o)' <=> Exists(o)
                              /\ row'[o].key = row[o].key /\ row'[o].request = row[o].request
  BY <1>2 DEF Exists
<1>3. ASSUME NEW p \in Ops, ClaimNext(w, p)
      PROVE  /\ Exists(o)' <=> Exists(o)
             /\ row'[o].key = row[o].key /\ row'[o].request = row[o].request
  <2>1. Exists(p) /\ row' = [row EXCEPT ![p] = ClaimedRow(w, p)]
    BY <1>3 DEF ClaimNext, Claimable, Exists, InFlight
  <2>2. /\ ClaimedRow(w, p).state # "none" /\ ClaimedRow(w, p).key = row[p].key
        /\ ClaimedRow(w, p).request = row[p].request
    BY DEF ClaimedRow, Inv, TypeOK, RowType
  <2> QED
    BY <1>1, <2>1, <2>2
<1>4. ASSUME NEW step \in Advances, CommitAdvance(w, step)
      PROVE  /\ Exists(o)' <=> Exists(o)
             /\ row'[o].key = row[o].key /\ row'[o].request = row[o].request
  <2> DEFINE p == mem[w].op
             s == Written(w, step.target)
             r == [row[p] EXCEPT !.state = s]
  <2>1. p \in Ops /\ Exists(p) /\ row[p] \in RowType /\ step.target \in States
    BY <1>4, CommitAdvanceWrites DEF Inv, TypeOK
  <2>2. row' = [row EXCEPT ![p] = r] /\ s # "none"
    BY <1>4, <2>1, WrittenType DEF CommitAdvance, States, InFlight, Terminal
  <2> HIDE DEF s
  <2>3. r.state # "none" /\ r.key = row[p].key /\ r.request = row[p].request
    BY <2>1, <2>2 DEF RowType
  <2> HIDE DEF r, p
  <2> QED
    BY <1>1, <2>1, <2>2, <2>3
<1>5. ASSUME CommitPublish(w)
      PROVE  /\ Exists(o)' <=> Exists(o)
             /\ row'[o].key = row[o].key /\ row'[o].request = row[o].request
  <2> DEFINE p == mem[w].op
             n == LastSequence(Family(p)) + 1
  <2>1. p \in Ops /\ Exists(p) /\ row' = [row EXCEPT ![p] = PublishedRow(p)]
    BY <1>5, PublishWrites DEF CommitPublish
  <2>2. \A q \in RowType : /\ [q EXCEPT !.version = n].state = q.state
                           /\ [q EXCEPT !.version = n].key = q.key
                           /\ [q EXCEPT !.version = n].request = q.request
    BY DEF RowType
  <2>3. PublishedRow(p) = [Released(p, "published") EXCEPT !.version = n]
    BY DEF PublishedRow
  <2>4. /\ PublishedRow(p).state # "none" /\ PublishedRow(p).key = row[p].key
        /\ PublishedRow(p).request = row[p].request
    BY <2>1, <2>2, <2>3, ReleasedRow DEF States, Terminal
  <2> HIDE DEF p
  <2> QED
    BY <1>1, <2>1, <2>4
<1>6. ASSUME Fail(w)
      PROVE  /\ Exists(o)' <=> Exists(o)
             /\ row'[o].key = row[o].key /\ row'[o].request = row[o].request
  <2> DEFINE p == mem[w].op
             s == Written(w, "failed")
  <2>1. p \in Ops /\ Exists(p) /\ row' = [row EXCEPT ![p] = Released(p, s)]
    BY <1>6 DEF Fail, Inv, HandsFull, Busy
  <2>s. s \in States /\ s # "none"
    BY <2>1, WrittenType DEF States, InFlight, Terminal
  <2> HIDE DEF s
  <2>2. /\ Released(p, s).state # "none" /\ Released(p, s).key = row[p].key
        /\ Released(p, s).request = row[p].request
    BY <2>1, <2>s, ReleasedRow
  <2> HIDE DEF p
  <2> QED
    BY <1>1, <2>1, <2>2
<1>7. ASSUME LoadClaimed(w) \/ ReadRow(w) \/ Validate(w) \/ StepRaises(w) \/ FailRaises(w)
      PROVE  row' = row
  BY <1>7 DEF LoadClaimed, ReadRow, Validate, StepRaises, FailRaises
<1> QED
  BY <1>2, <1>3, <1>4, <1>5, <1>6, <1>7 DEF RunOnce, Advance, Publish, LostAck

\* A call that is answered: with no operation, or with one of its key and request.
LEMMA CallKeepsKeys ==
    ASSUME Inv, KeysAreUnique, NEW c \in Clients, NEW d \in CallType,
           call' = [call EXCEPT ![c] = d], UNCHANGED row,
           d.pc \in Acked => /\ d.op \in Ops /\ Exists(d.op)
                             /\ row[d.op].key = d.key /\ row[d.op].request = d.request
    PROVE  KeysAreUnique'
<1>1. call'[c] = d /\ \A e \in Clients \ {c} : call'[e] = call[e]
  BY DEF Inv, TypeOK
<1>2. \A o \in Ops : Exists(o)' <=> Exists(o)
  BY DEF Exists
<1>3. \A o, p \in Ops : (Exists(o) /\ Exists(p) /\ row[o].key = row[p].key => o = p)'
  BY <1>2 DEF KeysAreUnique
<1>4. ASSUME NEW e \in Clients, call'[e].pc \in Acked
      PROVE  /\ call'[e].op \in Ops /\ row'[call'[e].op].state # "none"
             /\ row'[call'[e].op].key = call'[e].key
             /\ row'[call'[e].op].request = call'[e].request
  <2>1. CASE e = c
    BY <1>1, <1>4, <2>1 DEF Exists
  <2>2. CASE e # c
    BY <1>1, <1>4, <2>2 DEF KeysAreUnique, Exists
  <2> QED
    BY <2>1, <2>2
<1> QED
  BY <1>3, <1>4 DEF KeysAreUnique, Exists

LEMMA InsertKeepsKeys ==
    ASSUME Inv, KeysAreUnique, NEW c \in Clients, Insert(c) PROVE KeysAreUnique'
<1>1. call[c] \in CallType
  BY DEF Inv, TypeOK
<1>2. ASSUME call' = [call EXCEPT ![c].pc = "error"], UNCHANGED row PROVE KeysAreUnique'
  <2> DEFINE d == [call[c] EXCEPT !.pc = "error"]
  <2>1. d \in CallType /\ d.pc \notin Acked
    BY <1>1 DEF CallType, CallPCs, Acked
  <2>2. call' = [call EXCEPT ![c] = d]
    BY <1>2
  <2> HIDE DEF d
  <2> QED
    BY <1>2, <2>1, <2>2, CallKeepsKeys
<1>3. ASSUME NEW o \in Ops, ~Exists(o), KeyIsFree(call[c].key),
             row' = [row EXCEPT ![o] = [NoRow EXCEPT !.state = "queued", !.key = call[c].key,
                                             !.request = call[c].request, !.createdAt = clock]],
             call' = [call EXCEPT ![c].pc = "created", ![c].op = o]
      PROVE  KeysAreUnique'
  <2>1. /\ row'[o].state = "queued" /\ row'[o].key = call[c].key
        /\ row'[o].request = call[c].request
        /\ \A p \in Ops \ {o} : row'[p] = row[p]
    BY <1>3 DEF NoRow, Inv, TypeOK
  <2>2. /\ call'[c].pc = "created" /\ call'[c].op = o /\ call'[c].key = call[c].key
        /\ call'[c].request = call[c].request
        /\ \A e \in Clients \ {c} : call'[e] = call[e]
    BY <1>1, <1>3 DEF CallType, Inv, TypeOK
  <2>3. \A p \in Ops : Exists(p) => row[p].key # call[c].key
    BY <1>3 DEF KeyIsFree, Holder
  <2>4. ASSUME NEW p \in Ops, NEW q \in Ops, row'[p].state # "none", row'[q].state # "none",
               row'[p].key = row'[q].key
        PROVE  p = q
    <3>1. CASE p # o /\ q # o
      BY <2>1, <2>4, <3>1 DEF KeysAreUnique, Exists
    <3>2. CASE p = o /\ q # o
      BY <2>1, <2>3, <2>4, <3>2 DEF Exists
    <3>3. CASE p # o /\ q = o
      BY <2>1, <2>3, <2>4, <3>3 DEF Exists
    <3> QED
      BY <3>1, <3>2, <3>3
  <2>5. ASSUME NEW e \in Clients, call'[e].pc \in Acked
        PROVE  /\ call'[e].op \in Ops /\ row'[call'[e].op].state # "none"
               /\ row'[call'[e].op].key = call'[e].key
               /\ row'[call'[e].op].request = call'[e].request
    <3>1. CASE e = c
      BY <2>1, <2>2, <3>1
    <3>2. CASE e # c
      <4>1. call[e].op \in Ops /\ call[e].op # o
        BY <1>3, <2>2, <2>5, <3>2 DEF KeysAreUnique
      <4> QED
        BY <2>1, <2>2, <2>5, <3>2, <4>1 DEF KeysAreUnique, Exists
    <3> QED
      BY <3>1, <3>2
  <2> QED
    BY <2>4, <2>5 DEF KeysAreUnique, Exists
<1> QED
  BY <1>2, <1>3 DEF Insert

LEMMA KeysKept == ASSUME Inv, KeysAreUnique, [Next]_vars PROVE KeysAreUnique'
<1>1. ASSUME UNCHANGED <<call, row>> PROVE KeysAreUnique'
  BY <1>1 DEF KeysAreUnique, Exists
<1>2. ASSUME NEW c \in Clients, Refuse(c) PROVE KeysAreUnique'
  <2> DEFINE d == [call[c] EXCEPT !.pc = "refused"]
  <2>1. d \in CallType /\ d.pc \notin Acked
    BY DEF CallType, CallPCs, Acked, Inv, TypeOK
  <2>2. call' = [call EXCEPT ![c] = d] /\ UNCHANGED row
    BY <1>2 DEF Refuse
  <2> HIDE DEF d
  <2> QED
    BY <2>1, <2>2, CallKeepsKeys
<1>3. ASSUME NEW c \in Clients, NEW k \in Keys, NEW r \in Requests, LookUp(c, k, r)
      PROVE  KeysAreUnique'
  <2>1. UNCHANGED row
    BY <1>3 DEF LookUp
  <2>2. PICK d \in CallType :
            /\ call' = [call EXCEPT ![c] = d]
            /\ d.pc \in Acked => /\ d.op \in Ops /\ Exists(d.op)
                                 /\ row[d.op].key = d.key /\ row[d.op].request = d.request
    <3> DEFINE d(p, o) == [pc |-> p, key |-> k, request |-> r, op |-> o]
    <3>1. \A p \in CallPCs, o \in Ops \cup {NoOp} :
              /\ d(p, o) \in CallType /\ d(p, o).pc = p /\ d(p, o).key = k
              /\ d(p, o).request = r /\ d(p, o).op = o
      BY DEF CallType
    <3>2. \/ call' = [call EXCEPT ![c] = d("insert", NoOp)]
          \/ call' = [call EXCEPT ![c] = d("conflict", NoOp)]
          \/ \E o \in Holder(k) : row[o].request = r /\ call' = [call EXCEPT ![c] = d("replayed", o)]
      BY <1>3 DEF LookUp
    <3>3. {"insert", "conflict", "replayed"} \subseteq CallPCs
          /\ "insert" \notin Acked /\ "conflict" \notin Acked
      BY DEF CallPCs, Acked
    <3> HIDE DEF d
    <3>4. CASE \E o \in Holder(k) : row[o].request = r /\ call' = [call EXCEPT ![c] = d("replayed", o)]
      <4>1. PICK o \in Holder(k) :
                row[o].request = r /\ call' = [call EXCEPT ![c] = d("replayed", o)]
        BY <3>4
      <4>2. o \in Ops /\ Exists(o) /\ row[o].key = k
        BY DEF Holder
      <4>3. /\ d("replayed", o) \in CallType /\ d("replayed", o).op = o
            /\ d("replayed", o).key = k /\ d("replayed", o).request = r
        BY <3>1, <3>3, <4>2
      <4> QED
        BY <4>1, <4>2, <4>3
    <3>5. CASE call' = [call EXCEPT ![c] = d("insert", NoOp)]
      <4>1. d("insert", NoOp) \in CallType /\ d("insert", NoOp).pc \notin Acked
        BY <3>1, <3>3
      <4> QED
        BY <3>5, <4>1
    <3>6. CASE call' = [call EXCEPT ![c] = d("conflict", NoOp)]
      <4>1. d("conflict", NoOp) \in CallType /\ d("conflict", NoOp).pc \notin Acked
        BY <3>1, <3>3
      <4> QED
        BY <3>6, <4>1
    <3> QED
      BY <3>2, <3>4, <3>5, <3>6
  <2> QED
    BY <2>1, <2>2, CallKeepsKeys
<1>4. ASSUME NEW w \in Workers, RunOnce(w) PROVE KeysAreUnique'
  <2>1. UNCHANGED call
    BY <1>4 DEF RunOnce, ClaimNext, LoadClaimed, ReadRow, Advance, Validate, Publish, StepRaises, LostAck,
                Fail, FailRaises
  <2> QED
    BY <1>4, <2>1, WorkersKeepColumns, WorkersKeepKeys
<1> QED
  BY <1>1, <1>2, <1>3, <1>4, InsertKeepsKeys
     DEF Next, ClientNext, NothingToClaim, Crash, Tick, vars

LEMMA InitKeys == Init => KeysAreUnique
BY DEF Init, KeysAreUnique, Exists, NoRow, Acked

\* Concurrent calls with one idempotency key never get two operations: the read before
\* the insert decides nothing, the unique key does.
THEOREM IdempotentCreateSafety == Spec => []IdempotentCreate
<1>1. Inv /\ KeysAreUnique /\ [Next]_vars => KeysAreUnique'
  BY KeysKept
<1>2. KeysAreUnique => IdempotentCreate
  BY DEF KeysAreUnique, IdempotentCreate
<1> QED
  BY InitInv, NextInv, InitKeys, <1>1, <1>2, PTL DEF Spec

-----------------------------------------------------------------------------
(* The promise to a contributor                                            *)

\* Rows that keep what the promise speaks of: outcome, family and version.
SameToContributors(o) ==
    /\ Outcome(o)' = Outcome(o) /\ Exists(o)' = Exists(o)
    /\ Exists(o) => Family(o)' = Family(o)
    /\ row'[o].version = row[o].version

LEMMA InitPromise == Init => Promise!Init
<1> SUFFICES ASSUME Init PROVE Promise!Init
  OBVIOUS
<1>1. \A o \in Ops : row[o].state = "none" /\ row[o].version = 0
  BY DEF Init, NoRow
<1>2. \A o \in Ops : Outcome(o) = "none" /\ ~Exists(o) /\ ~HasVersion(o)
  BY <1>1 DEF Outcome, Exists, HasVersion
<1>3. \A a \in Artifacts : LastSequence(a) = 0
  <2>1. \A a \in Artifacts : SequencesOf(a) = 1..0
    BY <1>2 DEF SequencesOf
  <2> QED
    BY <2>1, LastOfNumbered
<1> QED
  BY <1>1, <1>2, <1>3 DEF Promise!Init

\* Where no version is added and no request changes, families are as long as before.
LEMMA FamiliesKept ==
    ASSUME Inv, \A o \in Ops : /\ row'[o].version = row[o].version
                               /\ Exists(o) => Family(o)' = Family(o)
    PROVE  \A a \in Artifacts : LastSequence(a)' = LastSequence(a)
<1>1. \A o \in Ops : HasVersion(o)' <=> HasVersion(o)
  BY DEF HasVersion
<1>2. \A o \in Ops : HasVersion(o) => Family(o)' = Family(o)
  BY DEF HasVersion, Inv, RowsFilled, NoRow
<1>3. \A a \in Artifacts : SequencesOf(a)' = SequencesOf(a)
  BY <1>1, <1>2 DEF SequencesOf
<1> QED
  BY <1>3 DEF LastSequence

LEMMA PromiseStutters ==
    ASSUME Inv, \A o \in Ops : SameToContributors(o)
    PROVE  UNCHANGED Promise!vars
<1>1. \A a \in Artifacts : LastSequence(a)' = LastSequence(a)
  BY FamiliesKept DEF SameToContributors
<1>2. [o \in Ops |-> Outcome(o)]' = [o \in Ops |-> Outcome(o)]
  BY DEF SameToContributors
<1>3. [o \in Ops |-> IF Exists(o) THEN Family(o) ELSE NoRequest]'
          = [o \in Ops |-> IF Exists(o) THEN Family(o) ELSE NoRequest]
  BY DEF SameToContributors
<1>4. [o \in Ops |-> row[o].version]' = [o \in Ops |-> row[o].version]
  BY DEF SameToContributors
<1>5. [a \in Artifacts |-> LastSequence(a)]' = [a \in Artifacts |-> LastSequence(a)]
  BY <1>1
<1> QED
  BY <1>2, <1>3, <1>4, <1>5 DEF Promise!vars

LEMMA PromiseAccepts ==
    ASSUME Inv, NEW o \in Ops, NEW a \in Artifacts,
           Outcome(o) = "none", ~Exists(o), Outcome(o)' = "pending", Exists(o)', Family(o)' = a,
           row'[o].version = row[o].version,
           \A p \in Ops \ {o} : SameToContributors(p)
    PROVE  Promise!Accept(o, a)
<1>1. \A b \in Artifacts : LastSequence(b)' = LastSequence(b)
  BY FamiliesKept DEF SameToContributors
<1>2. [p \in Ops |-> Outcome(p)]' = [[p \in Ops |-> Outcome(p)] EXCEPT ![o] = "pending"]
  BY DEF SameToContributors
<1>3. [p \in Ops |-> IF Exists(p) THEN Family(p) ELSE NoRequest]'
          = [[p \in Ops |-> IF Exists(p) THEN Family(p) ELSE NoRequest] EXCEPT ![o] = a]
  BY DEF SameToContributors
<1>4. [p \in Ops |-> row[p].version]' = [p \in Ops |-> row[p].version]
  BY DEF SameToContributors
<1>5. [b \in Artifacts |-> LastSequence(b)]' = [b \in Artifacts |-> LastSequence(b)]
  BY <1>1
<1>6. [p \in Ops |-> Outcome(p)][o] = "none"
  OBVIOUS
<1> QED
  BY <1>2, <1>3, <1>4, <1>5, <1>6 DEF Promise!Accept

LEMMA PromiseRejects ==
    ASSUME Inv, NEW o \in Ops,
           Outcome(o) = "pending", Outcome(o)' = "failed", Exists(o), Exists(o)',
           Family(o)' = Family(o), row'[o].version = row[o].version,
           \A p \in Ops \ {o} : SameToContributors(p)
    PROVE  Promise!Reject(o)
<1>1. \A b \in Artifacts : LastSequence(b)' = LastSequence(b)
  BY FamiliesKept DEF SameToContributors
<1>2. [p \in Ops |-> Outcome(p)]' = [[p \in Ops |-> Outcome(p)] EXCEPT ![o] = "failed"]
  BY DEF SameToContributors
<1>3. [p \in Ops |-> IF Exists(p) THEN Family(p) ELSE NoRequest]'
          = [p \in Ops |-> IF Exists(p) THEN Family(p) ELSE NoRequest]
  BY DEF SameToContributors
<1>4. [p \in Ops |-> row[p].version]' = [p \in Ops |-> row[p].version]
  BY DEF SameToContributors
<1>5. [b \in Artifacts |-> LastSequence(b)]' = [b \in Artifacts |-> LastSequence(b)]
  BY <1>1
<1>6. [p \in Ops |-> Outcome(p)][o] = "pending"
  OBVIOUS
<1> QED
  BY <1>2, <1>3, <1>4, <1>5, <1>6 DEF Promise!Reject

LEMMA PromisePublishes ==
    ASSUME NEW o \in Ops, Family(o) \in Artifacts,
           Outcome(o) = "pending", Outcome(o)' = "published", Exists(o), Exists(o)',
           Family(o)' = Family(o), row'[o].version = LastSequence(Family(o)) + 1,
           \A p \in Ops \ {o} : SameToContributors(p),
           \A b \in Artifacts :
               LastSequence(b)' = IF b = Family(o) THEN LastSequence(b) + 1 ELSE LastSequence(b)
    PROVE  Promise!Publish(o)
<1> DEFINE fam == [p \in Ops |-> IF Exists(p) THEN Family(p) ELSE NoRequest]
           last == [b \in Artifacts |-> LastSequence(b)]
<1>1. fam[o] = Family(o) /\ last[Family(o)] = LastSequence(Family(o))
  OBVIOUS
<1>2. [p \in Ops |-> Outcome(p)]' = [[p \in Ops |-> Outcome(p)] EXCEPT ![o] = "published"]
  BY DEF SameToContributors
<1>3. fam' = fam
  BY DEF SameToContributors
<1>4. [p \in Ops |-> row[p].version]'
          = [[p \in Ops |-> row[p].version] EXCEPT ![o] = last[fam[o]] + 1]
  BY <1>1 DEF SameToContributors
<1>5. last' = [last EXCEPT ![fam[o]] = last[fam[o]] + 1]
  BY <1>1
<1>6. [p \in Ops |-> Outcome(p)][o] = "pending"
  OBVIOUS
<1> QED
  BY <1>2, <1>3, <1>4, <1>5, <1>6 DEF Promise!Publish

\* A write that leaves an operation under way, of the same request and version.
LEMMA WriteIsSilent ==
    ASSUME Inv, NEW p \in Ops, NEW r, row' = [row EXCEPT ![p] = r],
           row[p].state \notin Terminal \cup {"none"}, r.state \notin Terminal \cup {"none"},
           r.request = row[p].request, r.version = row[p].version
    PROVE  \A o \in Ops : SameToContributors(o)
<1>1. row'[p] = r /\ \A o \in Ops \ {p} : row'[o] = row[o]
  BY DEF Inv, TypeOK
<1>2. SameToContributors(p)
  BY <1>1 DEF SameToContributors, Outcome, Exists, Family
<1>3. \A o \in Ops \ {p} : SameToContributors(o)
  BY <1>1 DEF SameToContributors, Outcome, Exists, Family
<1> QED
  BY <1>2, <1>3

LEMMA OthersAreSame ==
    ASSUME Inv, NEW p \in Ops, NEW r, row' = [row EXCEPT ![p] = r]
    PROVE  row'[p] = r /\ \A o \in Ops \ {p} : SameToContributors(o)
<1>1. row'[p] = r /\ \A o \in Ops \ {p} : row'[o] = row[o]
  BY DEF Inv, TypeOK
<1> QED
  BY <1>1 DEF SameToContributors, Outcome, Exists, Family

\* What a busy worker holds is under way.
LEMMA HeldIsPending ==
    ASSUME TimelyInv, NEW w \in Workers, Busy(w)
    PROVE  /\ mem[w].op \in Ops /\ Exists(mem[w].op) /\ row[mem[w].op] \in RowType
           /\ row[mem[w].op].state \notin Terminal \cup {"none"}
           /\ Outcome(mem[w].op) = "pending"
           /\ Family(mem[w].op) \in Artifacts
<1>1. mem[w].op \in Ops /\ Exists(mem[w].op) /\ row[mem[w].op].claimedBy = w
  BY DEF TimelyInv, Inv, HandsFull, Live
<1>2. row[mem[w].op].state \notin Terminal \cup {"none"}
  BY <1>1, Sentinels DEF TimelyInv, Unclaimed, Exists
<1>3. Outcome(mem[w].op) = "pending"
  BY <1>2 DEF Outcome
<1>4. row[mem[w].op] \in RowType /\ row[mem[w].op].request \in Requests
  BY <1>1 DEF TimelyInv, Inv, TypeOK, RowsFilled
<1> QED
  BY <1>1, <1>2, <1>3, <1>4, ArtifactOfType DEF Family

LEMMA InsertIsPromised ==
    ASSUME Inv, NEW c \in Clients, Insert(c) PROVE Promise!Next \/ UNCHANGED Promise!vars
<1>1. ASSUME UNCHANGED row PROVE UNCHANGED Promise!vars
  <2>1. \A o \in Ops : SameToContributors(o)
    BY <1>1 DEF SameToContributors, Outcome, Exists, Family
  <2> QED
    BY <2>1, PromiseStutters
<1>2. ASSUME NEW o \in Ops, ~Exists(o),
             row' = [row EXCEPT ![o] = [NoRow EXCEPT !.state = "queued", !.key = call[c].key,
                                             !.request = call[c].request, !.createdAt = clock]],
             call[c].request \in Requests
      PROVE  Promise!Next
  <2> DEFINE r == [NoRow EXCEPT !.state = "queued", !.key = call[c].key,
                                !.request = call[c].request, !.createdAt = clock]
             a == ArtifactOf[call[c].request]
  <2>1. r.state = "queued" /\ r.request = call[c].request /\ r.version = 0
    BY DEF NoRow
  <2>2. a \in Artifacts
    BY <1>2, ArtifactOfType
  <2>3. row[o].state = "none" /\ row[o].version = 0
    BY <1>2 DEF Inv, RowsFilled, NoRow, Exists
  <2>4. row' = [row EXCEPT ![o] = r]
    BY <1>2
  <2> HIDE DEF r
  <2>5. row'[o] = r /\ \A p \in Ops \ {o} : SameToContributors(p)
    BY <2>4, OthersAreSame
  <2>6. Outcome(o) = "none" /\ Outcome(o)' = "pending"
    BY <2>1, <2>3, <2>5 DEF Outcome, Terminal
  <2>7. Exists(o)' /\ Family(o)' = a /\ row'[o].version = row[o].version
    BY <2>1, <2>3, <2>5 DEF Exists, Family
  <2> HIDE DEF a
  <2>8. Promise!Accept(o, a)
    BY <1>2, <2>2, <2>5, <2>6, <2>7, PromiseAccepts
  <2> QED
    BY <2>2, <2>8 DEF Promise!Next
<1>3. call[c].pc = "insert" => call[c].request \in Requests
  BY DEF Inv, HandsFull
<1> QED
  BY <1>1, <1>2, <1>3 DEF Insert

LEMMA RunIsPromised ==
    ASSUME TimelyInv, "lost_ack" \notin Faults, NEW w \in Workers, RunOnce(w)
    PROVE  Promise!Next \/ UNCHANGED Promise!vars
<1>0. Inv
  BY DEF TimelyInv
<1>1. ASSUME UNCHANGED row PROVE UNCHANGED Promise!vars
  <2>1. \A o \in Ops : SameToContributors(o)
    BY <1>1 DEF SameToContributors, Outcome, Exists, Family
  <2> QED
    BY <1>0, <2>1, PromiseStutters
<1>2. ASSUME NEW p \in Ops, ClaimNext(w, p) PROVE UNCHANGED Promise!vars
  <2>1. row' = [row EXCEPT ![p] = ClaimedRow(w, p)] /\ row[p].state \notin Terminal \cup {"none"}
    BY <1>2 DEF ClaimNext, Claimable, InFlight, Terminal
  <2>2. /\ ClaimedRow(w, p).state = "queued" /\ ClaimedRow(w, p).request = row[p].request
        /\ ClaimedRow(w, p).version = row[p].version
    BY <1>0 DEF ClaimedRow, Inv, TypeOK, RowType
  <2>3. \A o \in Ops : SameToContributors(o)
    BY <1>0, <2>1, <2>2, WriteIsSilent DEF Terminal
  <2> QED
    BY <1>0, <2>3, PromiseStutters
<1>3. ASSUME NEW step \in Advances, CommitAdvance(w, step) PROVE UNCHANGED Promise!vars
  <2> DEFINE p == mem[w].op
             r == [row[p] EXCEPT !.state = step.target]
  <2>1. Busy(w)
    BY <1>3 DEF CommitAdvance, Advances, Busy
  <2>2. p \in Ops /\ row[p] \in RowType /\ row[p].state \notin Terminal \cup {"none"}
    BY <2>1, HeldIsPending
  <2>w. Written(w, step.target) = step.target
    BY <1>3, WritesTarget DEF CommitAdvance, TimelyInv
  <2>3. row' = [row EXCEPT ![p] = r] /\ step.target \notin Terminal \cup {"none"}
    BY <1>3, <2>w DEF CommitAdvance, Advances, Terminal
  <2>4. r.state = step.target /\ r.request = row[p].request /\ r.version = row[p].version
    BY <2>2 DEF RowType
  <2> HIDE DEF p, r
  <2>5. \A o \in Ops : SameToContributors(o)
    BY <1>0, <2>2, <2>3, <2>4, WriteIsSilent
  <2> QED
    BY <1>0, <2>5, PromiseStutters
<1>4. ASSUME CommitPublish(w) PROVE Promise!Next
  <2>1. Busy(w)
    BY <1>4 DEF CommitPublish, Busy
  <2>2. PICK p \in Ops : p = mem[w].op
    BY <2>1, HeldIsPending
  <2> DEFINE n == LastSequence(Family(p)) + 1
  <2>3. /\ p \in Ops /\ Exists(p) /\ Outcome(p) = "pending" /\ Family(p) \in Artifacts
    BY <2>2, <2>1, HeldIsPending
  <2>4. \A b \in Artifacts :
            LastSequence(b)' = IF b = Family(p) THEN LastSequence(b) + 1 ELSE LastSequence(b)
    BY <1>0, <1>4, <2>2, PublishWrites
  <2>5. row' = [row EXCEPT ![p] = PublishedRow(p)]
    BY <1>4, <2>2 DEF CommitPublish
  <2>6. LastSequence(Family(p)) \in Nat
    <3>1. PICK k \in Nat : SequencesOf(Family(p)) = 1..k
      BY <1>0, <2>3 DEF Inv, Numbered
    <3> QED
      BY <3>1, LastOfNumbered
  <2>7. /\ PublishedRow(p).state = "published" /\ PublishedRow(p).request = row[p].request
        /\ PublishedRow(p).version = n
    <3>1. \A q \in RowType : /\ [q EXCEPT !.version = n].state = q.state
                             /\ [q EXCEPT !.version = n].request = q.request
                             /\ [q EXCEPT !.version = n].version = n
      BY DEF RowType
    <3>2. PublishedRow(p) = [Released(p, "published") EXCEPT !.version = n]
      BY DEF PublishedRow
    <3> QED
      BY <1>0, <2>3, <3>1, <3>2, ReleasedRow DEF States, Terminal
  <2>8. row'[p] = PublishedRow(p) /\ \A o \in Ops \ {p} : SameToContributors(o)
    BY <1>0, <2>3, <2>5, OthersAreSame
  <2>9. Outcome(p)' = "published" /\ Exists(p)' /\ Family(p)' = Family(p) /\ row'[p].version = n
    BY <2>7, <2>8 DEF Outcome, Terminal, Exists, Family
  <2>10. Promise!Publish(p)
    BY <2>3, <2>4, <2>8, <2>9, PromisePublishes
  <2> QED
    BY <2>3, <2>10 DEF Promise!Next
<1>5. ASSUME Fail(w) PROVE Promise!Next
  <2>1. Busy(w)
    BY <1>5 DEF Fail, Busy
  <2>2. PICK p \in Ops : p = mem[w].op
    BY <2>1, HeldIsPending
  <2>3. p \in Ops /\ Exists(p) /\ Outcome(p) = "pending"
    BY <2>2, <2>1, HeldIsPending
  <2>4. row' = [row EXCEPT ![p] = Released(p, "failed")]
    BY <1>5, <2>2, WritesTarget DEF Fail, TimelyInv
  <2>5. /\ Released(p, "failed").state = "failed"
        /\ Released(p, "failed").request = row[p].request
        /\ Released(p, "failed").version = row[p].version
    BY <1>0, <2>3, ReleasedRow DEF States, Terminal
  <2>6. row'[p] = Released(p, "failed") /\ \A o \in Ops \ {p} : SameToContributors(o)
    BY <1>0, <2>3, <2>4, OthersAreSame
  <2>7. Outcome(p)' = "failed" /\ Exists(p)' /\ Family(p)' = Family(p)
        /\ row'[p].version = row[p].version
    BY <2>5, <2>6 DEF Outcome, Terminal, Exists, Family
  <2>8. Promise!Reject(p)
    BY <1>0, <2>3, <2>6, <2>7, PromiseRejects
  <2> QED
    BY <2>3, <2>8 DEF Promise!Next
<1>6. ASSUME LoadClaimed(w) \/ ReadRow(w) \/ Validate(w) \/ StepRaises(w) \/ FailRaises(w)
      PROVE  UNCHANGED Promise!vars
  BY <1>1, <1>6 DEF LoadClaimed, ReadRow, Validate, StepRaises, FailRaises
<1> QED
  BY <1>2, <1>3, <1>4, <1>5, <1>6 DEF RunOnce, Advance, Publish, LostAck

LEMMA StepIsPromised ==
    ASSUME TimelyInv, "lost_ack" \notin Faults, [Next]_vars
    PROVE  Promise!Next \/ UNCHANGED Promise!vars
<1>1. ASSUME UNCHANGED row PROVE UNCHANGED Promise!vars
  <2>1. \A o \in Ops : SameToContributors(o)
    BY <1>1 DEF SameToContributors, Outcome, Exists, Family
  <2> QED
    BY <2>1, PromiseStutters DEF TimelyInv
<1>2. ASSUME NEW c \in Clients, Insert(c) PROVE Promise!Next \/ UNCHANGED Promise!vars
  BY <1>2, InsertIsPromised DEF TimelyInv
<1>3. ASSUME NEW w \in Workers, RunOnce(w) PROVE Promise!Next \/ UNCHANGED Promise!vars
  BY <1>3, RunIsPromised
<1> QED
  BY <1>1, <1>2, <1>3 DEF Next, ClientNext, Refuse, LookUp, NothingToClaim, Crash, Tick, vars

\* The queue with its claims, retries, crashes and event log implements the promise to a
\* contributor, when no run outlasts its claim and no acknowledgement is lost: each step
\* is one of accepting, publishing or rejecting an operation, or none of their business.
THEOREM PromiseIsKept ==
    ASSUME "overrun" \notin Faults, "lost_ack" \notin Faults
    PROVE  Spec => KeepsPromise
<1>1. TimelyInv /\ [Next]_vars => [Promise!Next]_Promise!vars
  BY StepIsPromised
<1> QED
  BY InitTimely, NextTimely, InitPromise, <1>1, PTL DEF Spec, KeepsPromise, Promise!Spec

=============================================================================
