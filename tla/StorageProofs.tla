---------------------------- MODULE StorageProofs ---------------------------
(***************************************************************************)
(* Theorems about Storage: a published version keeps its bytes, the rows   *)
(* of the attachments agree with their objects, and the quota of a Run is  *)
(* kept.                                                                   *)
(*                                                                         *)
(* The first two inductive invariants are about what the retention of a   *)
(* worker has in its hands: for the versions, the keys it has read or      *)
(* listed, which it works through while publications go on; for the        *)
(* attachments, the rows it has taken up and the objects it has deleted,   *)
(* which the one COMMIT of its whole run marks much later. The third is    *)
(* about an upload that has met no other one.                              *)
(***************************************************************************)
EXTENDS Storage, FiniteSetTheorems, TLAPS

-----------------------------------------------------------------------------
(* Types                                                                   *)

\* What a verification, an upload and a retention under way refer to.
Working ==
    /\ \A p \in Publications :
          publication[p].pc \in {"verifying", "published"} => publication[p].output \in Outputs
    /\ \A u \in Uploads :
          upload[u].pc # "new" => upload[u].path \in Paths /\ upload[u].content \in Contents

TypeInv == TypeOK /\ Working

-----------------------------------------------------------------------------
(* Published bytes                                                         *)

Sound(k) == object[k] # "absent" /\ k \notin corrupt

\* A verification starts with the output itself and then takes the files it lists. What it
\* has read is sound, unless it races with the retention.
VerifiedIsSound ==
    \A p \in Publications : publication[p].pc = "verifying" =>
        /\ publication[p].verified = 0 => publication[p].left = {publication[p].output}
        /\ publication[p].verified # 0 /\ ~publication[p].raced =>
              \A k \in Bytes(publication[p].output) \ publication[p].left : Sound(k)

\* A verification that does not race has the bucket to itself.
RaceIsNoticed ==
    \A p \in Publications :
        publication[p].pc = "verifying" /\ ~publication[p].raced => Deleting = {}

\* The bytes of a version that did not race are protected first, and then spared.
PublishedIsProtected ==
    \A p \in Published : ~publication[p].raced =>
        \A w \in Pruners :
            /\ prune[w].pc = "objects" => Bytes(publication[p].output) \subseteq prune[w].keys
            /\ prune[w].pc = "deleting" => Bytes(publication[p].output) \cap prune[w].keys = {}

BytesInv ==
    TypeInv /\ VerifiedIsSound /\ RaceIsNoticed /\ PublishedIsProtected /\ PublishedBytesStay

-----------------------------------------------------------------------------
(* Rows and objects                                                        *)

\* Each content is in one row at most, and only a row is marked as purged.
OneRowPerContent ==
    /\ \A f, g \in Rows : attachment[f].content = attachment[g].content => f = g
    /\ \A f \in Paths : attachment[f].purged => f \in Rows

\* Rows the retention has taken up are old; what it has deleted stays away, unless an
\* upload that cannot end well brought it back.
Stray(c) == \E u \in Uploads : upload[u].content = c /\ upload[u].pc \in {"commit", "broken"}
DeletedStaysAway ==
    \A w \in Pruners :
        /\ prune[w].todo \cup prune[w].done \subseteq Rows \cap expired
        /\ \A f \in prune[w].done : attachment[f].content \in stored => Stray(attachment[f].content)

\* What an upload is about to commit is stored, or has a row already.
PutBeforeCommit ==
    \A u \in Uploads : upload[u].pc = "commit" =>
        upload[u].content \in stored \/ \E f \in Rows : attachment[f].content = upload[u].content

RowsInv ==
    TypeInv /\ OneRowPerContent /\ DeletedStaysAway /\ PutBeforeCommit /\ RowsMatchObjects

-----------------------------------------------------------------------------
(* The records of publications, uploads and workers                        *)

Verified(q, left, n) == [q EXCEPT !.left = left, !.verified = n]
Done(q) == [q EXCEPT !.pc = "published", !.verified = 0]
Raced(q, raced) == [q EXCEPT !.raced = raced]

LEMMA VerifiedType ==
    ASSUME NEW q \in PublicationType, NEW left \in SUBSET Keys, NEW n \in Nat
    PROVE  /\ Verified(q, left, n) \in PublicationType
           /\ Verified(q, left, n).pc = q.pc /\ Verified(q, left, n).output = q.output
           /\ Verified(q, left, n).left = left /\ Verified(q, left, n).verified = n
           /\ Verified(q, left, n).raced <=> q.raced
BY DEF Verified, PublicationType

LEMMA DoneType ==
    ASSUME NEW q \in PublicationType
    PROVE  /\ Done(q) \in PublicationType
           /\ Done(q).pc = "published" /\ Done(q).output = q.output
           /\ Done(q).raced <=> q.raced
BY DEF Done, PublicationType

LEMMA RacedType ==
    ASSUME NEW q \in PublicationType, NEW raced \in BOOLEAN
    PROVE  /\ Raced(q, raced) \in PublicationType
           /\ Raced(q, raced).pc = q.pc /\ Raced(q, raced).output = q.output
           /\ Raced(q, raced).left = q.left /\ Raced(q, raced).verified = q.verified
           /\ Raced(q, raced).raced <=> raced
BY DEF Raced, PublicationType

LEMMA FailedType == Failed \in PublicationType /\ Failed.pc = "failed"
<1>1. PICK q \in PublicationType : q = NoPublication
  BY DEF NoPublication, PublicationType
<1>2. Failed = [q EXCEPT !.pc = "failed"]
  BY <1>1 DEF Failed
<1> QED
  BY <1>2 DEF PublicationType

Moved(q, pc) == [q EXCEPT !.pc = pc]
Crowded(q) == [q EXCEPT !.crowded = TRUE]

LEMMA MovedType ==
    ASSUME NEW q \in UploadType, NEW pc \in {"new", "put", "commit", "acked", "refused", "broken"}
    PROVE  /\ Moved(q, pc) \in UploadType /\ Moved(q, pc).pc = pc
           /\ Moved(q, pc).path = q.path /\ Moved(q, pc).content = q.content
BY DEF Moved, UploadType

LEMMA CrowdedType ==
    ASSUME NEW q \in UploadType
    PROVE  /\ Crowded(q) \in UploadType /\ Crowded(q).pc = q.pc
           /\ Crowded(q).path = q.path /\ Crowded(q).content = q.content
BY DEF Crowded, UploadType

Taking(todo) == [NoPrune EXCEPT !.pc = "attachments", !.todo = todo]
Dropped(q, f) == [q EXCEPT !.todo = q.todo \ {f}, !.done = q.done \cup {f}]
Holding(q, pc, keys) == [q EXCEPT !.pc = pc, !.keys = keys]
Freed(q, keys, n) == [q EXCEPT !.keys = keys, !.removed = n]

LEMMA NoPruneType ==
    /\ NoPrune \in PruneType
    /\ NoPrune.pc = "idle" /\ NoPrune.todo = {} /\ NoPrune.done = {} /\ NoPrune.keys = {}
BY DEF NoPrune, PruneType

LEMMA TakingType ==
    ASSUME NEW todo \in SUBSET Paths
    PROVE  /\ Taking(todo) \in PruneType
           /\ Taking(todo).pc = "attachments" /\ Taking(todo).todo = todo
           /\ Taking(todo).done = {}
<1>1. PICK q \in PruneType : q = NoPrune /\ q.done = {}
  BY NoPruneType
<1> QED
  BY <1>1 DEF Taking, PruneType

LEMMA DroppedType ==
    ASSUME NEW q \in PruneType, NEW f \in Paths
    PROVE  /\ Dropped(q, f) \in PruneType /\ Dropped(q, f).pc = q.pc
           /\ Dropped(q, f).todo = q.todo \ {f} /\ Dropped(q, f).done = q.done \cup {f}
           /\ Dropped(q, f).keys = q.keys
BY DEF Dropped, PruneType

LEMMA HoldingType ==
    ASSUME NEW q \in PruneType, NEW pc \in {"objects", "deleting", "commit"},
           NEW keys \in SUBSET Keys
    PROVE  /\ Holding(q, pc, keys) \in PruneType /\ Holding(q, pc, keys).pc = pc
           /\ Holding(q, pc, keys).todo = q.todo /\ Holding(q, pc, keys).done = q.done
           /\ Holding(q, pc, keys).keys = keys
BY DEF Holding, PruneType

LEMMA FreedType ==
    ASSUME NEW q \in PruneType, NEW keys \in SUBSET Keys, NEW n \in Nat
    PROVE  /\ Freed(q, keys, n) \in PruneType /\ Freed(q, keys, n).pc = q.pc
           /\ Freed(q, keys, n).todo = q.todo /\ Freed(q, keys, n).done = q.done
           /\ Freed(q, keys, n).keys = keys
BY DEF Freed, PruneType

-----------------------------------------------------------------------------
(* What the steps do to these records                                      *)

\* One publication, one worker goes on; the others stay as they are.
PublicationGoes(p, q) ==
    /\ q \in PublicationType /\ publication' \in [Publications -> PublicationType]
    /\ publication'[p] = q
    /\ \A z \in Publications \ {p} : publication'[z] = publication[z]

PruneGoes(w, q) ==
    /\ q \in PruneType /\ prune' \in [Pruners -> PruneType]
    /\ prune'[w] = q
    /\ \A z \in Pruners \ {w} : prune'[z] = prune[z]

UploadGoes(u, q) ==
    /\ q \in UploadType /\ upload' \in [Uploads -> UploadType]
    /\ upload'[u] = q
    /\ \A z \in Uploads \ {u} : /\ upload'[z].pc = upload[z].pc
                                /\ upload'[z].path = upload[z].path
                                /\ upload'[z].content = upload[z].content

LEMMA GoesOn ==
    ASSUME TypeOK
    PROVE  /\ \A p \in Publications, q \in PublicationType :
                 publication' = [publication EXCEPT ![p] = q] => PublicationGoes(p, q)
           /\ \A w \in Pruners, q \in PruneType :
                 prune' = [prune EXCEPT ![w] = q] => PruneGoes(w, q)
           /\ \A u \in Uploads, q \in UploadType :
                 upload' = [upload EXCEPT ![u] = q] => UploadGoes(u, q)
<1>1. ASSUME NEW p \in Publications, NEW q \in PublicationType,
             publication' = [publication EXCEPT ![p] = q]
      PROVE  PublicationGoes(p, q)
  BY <1>1 DEF TypeOK, PublicationGoes
<1>2. ASSUME NEW w \in Pruners, NEW q \in PruneType, prune' = [prune EXCEPT ![w] = q]
      PROVE  PruneGoes(w, q)
  BY <1>2 DEF TypeOK, PruneGoes
<1>3. ASSUME NEW u \in Uploads, NEW q \in UploadType, upload' = [upload EXCEPT ![u] = q]
      PROVE  UploadGoes(u, q)
  BY <1>3 DEF TypeOK, UploadGoes
<1> QED
  BY <1>1, <1>2, <1>3

\* A new validation, or one refused at once.
LEMMA StartValidationStep ==
    ASSUME TypeInv, NEW p \in Publications, NEW o \in Outputs, NEW d \in Defects \cup {None},
           StartValidation(p, o, d)
    PROVE  \E q \in PublicationType :
               /\ PublicationGoes(p, q)
               /\ \/ q.pc = "failed"
                  \/ /\ q.pc = "verifying" /\ q.output = o /\ q.left = {o} /\ q.verified = 0
                     /\ q.raced <=> Deleting # {}
<1> DEFINE new == [pc |-> "verifying", output |-> o, defect |-> d, left |-> {o}, verified |-> 0,
                   raced |-> Deleting # {}]
<1>1. new \in PublicationType
  BY OutputsType DEF PublicationType
<1>2. publication' = [publication EXCEPT ![p] = IF d = "source" THEN Failed ELSE new]
  BY DEF StartValidation
<1>3. new.pc = "verifying" /\ new.output = o /\ new.left = {o} /\ new.verified = 0
      /\ (new.raced <=> Deleting # {})
  OBVIOUS
<1> HIDE DEF new
<1> QED
  BY <1>1, <1>2, <1>3, FailedType, GoesOn DEF TypeInv

\* An object is read in full.
LEMMA VerifyStep ==
    ASSUME TypeInv, NEW p \in Publications, NEW k \in Keys, Verify(p, k)
    PROVE  /\ publication[p].pc = "verifying" /\ publication[p].output \in Outputs
           /\ publication[p] \in PublicationType
           /\ k \in publication[p].left /\ Sound(k)
           /\ \E left \in SUBSET Keys, n \in Nat :
                 /\ n # 0
                 /\ left = IF publication[p].verified = 0 THEN Children[publication[p].output]
                           ELSE publication[p].left \ {k}
                 /\ PublicationGoes(p, Verified(publication[p], left, n))
<1> DEFINE n == publication[p].verified + 1
<1>1. publication[p].pc = "verifying" /\ k \in publication[p].left /\ Sound(k)
      /\ publication[p] \in PublicationType /\ publication[p].output \in Outputs
  BY DEF Verify, Verifies, Sound, TypeInv, TypeOK, Working
<1>2. PICK left : left = IF publication[p].verified = 0 THEN Children[publication[p].output]
                         ELSE publication[p].left \ {k}
  OBVIOUS
<1>3. left \in SUBSET Keys
  BY <1>1, <1>2, OutputsType DEF PublicationType
<1>4. publication' = [publication EXCEPT ![p].left = left, ![p].verified = n]
  BY <1>1, <1>2 DEF Verify
<1>5. n \in Nat /\ n # 0
  <2>1. publication[p].verified \in Nat
    BY <1>1 DEF PublicationType
  <2> QED
    BY <2>1
<1> HIDE DEF n
<1>6. publication' = [publication EXCEPT ![p] = Verified(publication[p], left, n)]
  BY <1>1, <1>4 DEF Verified, TypeInv, TypeOK, PublicationType
<1>7. Verified(publication[p], left, n) \in PublicationType
  BY <1>1, <1>3, <1>5, VerifiedType
<1>8. PublicationGoes(p, Verified(publication[p], left, n))
  BY <1>6, <1>7, GoesOn DEF TypeInv
<1> QED
  BY <1>1, <1>2, <1>3, <1>5, <1>8

\* The version is committed.
LEMMA PublishStep ==
    ASSUME TypeInv, NEW p \in Publications, Publish(p)
    PROVE  /\ publication[p].pc = "verifying" /\ publication[p].left = {}
           /\ publication[p] \in PublicationType
           /\ PublicationGoes(p, Done(publication[p]))
<1>1. publication[p].pc = "verifying" /\ publication[p].left = {} /\ publication[p] \in PublicationType
  BY DEF Publish, TypeInv, TypeOK
<1>2. publication' = [publication EXCEPT ![p] = Done(publication[p])]
  BY <1>1 DEF Publish, Done, TypeInv, TypeOK, PublicationType
<1> QED
  BY <1>1, <1>2, DoneType, GoesOn DEF TypeInv

LEMMA StartUploadStep ==
    ASSUME TypeInv, NEW u \in Uploads, NEW f \in Paths, NEW c \in Contents, StartUpload(u, f, c)
    PROVE  /\ upload[u].pc = "new"
           /\ \E q \in UploadType :
                 /\ UploadGoes(u, q)
                 /\ q.pc \in {"refused", "acked", "put"} /\ q.path = f /\ q.content = c
<1> DEFINE outcome == CASE ~running \/ attachment[f].content \notin {None, c} -> "refused"
                        [] attachment[f].content = c -> "acked"
                        [] ~Fits(c) -> "refused"
                        [] OTHER -> "put"
           q == [pc |-> outcome, path |-> f, content |-> c, crowded |-> Uploading # {}]
<1>1. outcome \in {"refused", "acked", "put"}
  <2>1. \/ ~running \/ attachment[f].content \notin {None, c} \/ attachment[f].content = c
        \/ attachment[f].content = None
    OBVIOUS
  <2> QED
    BY Zenon
<1>2. upload' = [v \in Uploads |->
             CASE v = u -> q
               [] v \in Uploading /\ outcome = "put" -> Crowded(upload[v])
               [] OTHER -> upload[v]]
  BY Zenon DEF StartUpload, Crowded
<1> HIDE DEF outcome
<1>3. q \in UploadType /\ q.pc = outcome /\ q.path = f /\ q.content = c
  BY <1>1 DEF UploadType
<1> HIDE DEF q
<1>4. \A v \in Uploads \ {u} : upload'[v] = upload[v] \/ upload'[v] = Crowded(upload[v])
  BY <1>2
<1>5. upload'[u] = q
  <2>1. upload'[u] = CASE u = u -> q
                       [] u \in Uploading /\ outcome = "put" -> Crowded(upload[u])
                       [] OTHER -> upload[u]
    BY <1>2
  <2>2. u \notin Uploading
    BY DEF Uploading, StartUpload
  <2> QED
    BY <2>1, <2>2
<1>6. \A v \in Uploads : upload[v] \in UploadType
  BY DEF TypeInv, TypeOK
<1>7. \A v \in Uploads \ {u} : /\ upload'[v] \in UploadType
                               /\ upload'[v].pc = upload[v].pc
                               /\ upload'[v].path = upload[v].path
                               /\ upload'[v].content = upload[v].content
  BY <1>4, <1>6, CrowdedType
<1>8. DOMAIN upload' = Uploads /\ upload' = [v \in Uploads |-> upload'[v]]
  BY <1>2
<1>9. upload' \in [Uploads -> UploadType]
  BY <1>3, <1>5, <1>7, <1>8
<1>10. UploadGoes(u, q)
  BY <1>3, <1>5, <1>7, <1>9 DEF UploadGoes
<1>11. upload[u].pc = "new"
  BY DEF StartUpload
<1> QED
  BY <1>1, <1>3, <1>10, <1>11

\* The object is put, and the request goes on to its INSERT.
LEMMA PutObjectStep ==
    ASSUME TypeInv, NEW u \in Uploads, PutObject(u)
    PROVE  /\ upload[u].pc = "put" /\ upload[u] \in UploadType
           /\ upload[u].path \in Paths /\ upload[u].content \in Contents
           /\ UploadGoes(u, Moved(upload[u], "commit"))
<1>1. upload[u].pc = "put" /\ upload[u] \in UploadType
      /\ upload[u].path \in Paths /\ upload[u].content \in Contents
  BY DEF PutObject, TypeInv, TypeOK, Working
<1>2. upload' = [upload EXCEPT ![u] = Moved(upload[u], "commit")]
  BY DEF PutObject, Moved, TypeInv, TypeOK, UploadType
<1> QED
  BY <1>1, <1>2, MovedType, GoesOn DEF TypeInv

\* The request dies.
LEMMA LoseUploadStep ==
    ASSUME TypeInv, NEW u \in Uploads, LoseUpload(u)
    PROVE  /\ upload[u].pc # "new" /\ upload[u] \in UploadType
           /\ upload[u].path \in Paths /\ upload[u].content \in Contents
           /\ UploadGoes(u, Moved(upload[u], "broken"))
<1>1. upload[u].pc # "new" /\ upload[u] \in UploadType
      /\ upload[u].path \in Paths /\ upload[u].content \in Contents
  BY DEF LoseUpload, Uploading, TypeInv, TypeOK, Working
<1>2. upload' = [upload EXCEPT ![u] = Moved(upload[u], "broken")]
  BY DEF LoseUpload, Moved, TypeInv, TypeOK, UploadType
<1> QED
  BY <1>1, <1>2, MovedType, GoesOn DEF TypeInv

\* The row is inserted, if its path and its content are free.
Free(u) == upload[u].path \notin Rows /\ \A f \in Rows : attachment[f].content # upload[u].content

LEMMA CommitUploadStep ==
    ASSUME TypeInv, NEW u \in Uploads, CommitUpload(u)
    PROVE  /\ upload[u].pc = "commit" /\ upload[u] \in UploadType
           /\ upload[u].path \in Paths /\ upload[u].content \in Contents
           /\ attachment' \in [Paths -> RowType]
           /\ \A f \in Paths : attachment'[f].purged <=> attachment[f].purged
           /\ \/ /\ Free(u)
                 /\ UploadGoes(u, Moved(upload[u], "acked"))
                 /\ attachment'[upload[u].path].content = upload[u].content
                 /\ \A f \in Paths \ {upload[u].path} : attachment'[f] = attachment[f]
              \/ /\ ~Free(u)
                 /\ UploadGoes(u, Moved(upload[u], "broken"))
                 /\ attachment' = attachment
<1>1. upload[u].pc = "commit" /\ upload[u] \in UploadType
      /\ upload[u].path \in Paths /\ upload[u].content \in Contents
      /\ attachment \in [Paths -> RowType] /\ upload \in [Uploads -> UploadType]
  BY DEF CommitUpload, TypeInv, TypeOK, Working
<1>2. /\ attachment' = IF Free(u)
                       THEN [attachment EXCEPT ![upload[u].path].content = upload[u].content]
                       ELSE attachment
      /\ upload' = [upload EXCEPT ![u].pc = IF Free(u) THEN "acked" ELSE "broken"]
  BY DEF CommitUpload, Free
<1>3. CASE Free(u)
  <2>1. attachment' = [attachment EXCEPT ![upload[u].path].content = upload[u].content]
        /\ upload' = [upload EXCEPT ![u].pc = "acked"]
    BY <1>2, <1>3
  <2>2. upload' = [upload EXCEPT ![u] = Moved(upload[u], "acked")]
    BY <1>1, <2>1 DEF Moved, UploadType
  <2>3. UploadGoes(u, Moved(upload[u], "acked"))
    BY <1>1, <2>2, MovedType, GoesOn DEF TypeInv
  <2>4. /\ attachment' \in [Paths -> RowType]
        /\ \A f \in Paths : attachment'[f].purged <=> attachment[f].purged
        /\ attachment'[upload[u].path].content = upload[u].content
        /\ \A f \in Paths \ {upload[u].path} : attachment'[f] = attachment[f]
    BY <1>1, <2>1 DEF RowType
  <2> QED
    BY <1>1, <1>3, <2>3, <2>4
<1>4. CASE ~Free(u)
  <2>1. attachment' = attachment /\ upload' = [upload EXCEPT ![u].pc = "broken"]
    BY <1>2, <1>4
  <2>2. upload' = [upload EXCEPT ![u] = Moved(upload[u], "broken")]
    BY <1>1, <2>1 DEF Moved, UploadType
  <2>3. UploadGoes(u, Moved(upload[u], "broken"))
    BY <1>1, <2>2, MovedType, GoesOn DEF TypeInv
  <2> QED
    BY <1>1, <1>4, <2>1, <2>3
<1> QED
  BY <1>3, <1>4

\* A worker takes up rows that have expired and are not purged.
LEMMA StartPruneStep ==
    ASSUME TypeInv, NEW w \in Pruners, StartPrune(w)
    PROVE  \E todo \in SUBSET Due : PruneGoes(w, Taking(todo))
<1>1. PICK todo \in SUBSET Due :
          prune' = [prune EXCEPT ![w] = [NoPrune EXCEPT !.pc = "attachments", !.todo = todo]]
  BY DEF StartPrune
<1>2. prune' = [prune EXCEPT ![w] = Taking(todo)]
  BY <1>1 DEF Taking
<1>3. todo \in SUBSET Paths
  BY DEF Due, Rows
<1> QED
  BY <1>2, <1>3, TakingType, GoesOn DEF TypeInv

\* An attachment is deleted.
LEMMA DeleteAttachmentStep ==
    ASSUME TypeInv, NEW w \in Pruners, NEW f \in Paths, DeleteAttachment(w, f)
    PROVE  /\ prune[w].pc = "attachments" /\ f \in prune[w].todo
           /\ prune[w] \in PruneType
           /\ PruneGoes(w, Dropped(prune[w], f))
<1>1. prune[w].pc = "attachments" /\ f \in prune[w].todo /\ prune[w] \in PruneType
  BY DEF DeleteAttachment, TypeInv, TypeOK
<1>2. prune' = [prune EXCEPT ![w] = Dropped(prune[w], f)]
  BY <1>1 DEF DeleteAttachment, Dropped, TypeInv, TypeOK, PruneType
<1> QED
  BY <1>1, <1>2, DroppedType, GoesOn DEF TypeInv

\* The protected keys are keys.
LEMMA ProtectedType ==
    ASSUME TypeInv
    PROVE  /\ PublishedObjectKeys \in SUBSET Keys
           /\ \A p \in Published : /\ publication[p].output \in Outputs
                                   /\ Bytes(publication[p].output) \subseteq PublishedObjectKeys
<1>1. \A p \in Published : publication[p].output \in Outputs
  BY DEF Published, TypeInv, Working
<1>2. \A o \in Outputs : Index(o) \subseteq Keys /\ o \in Keys
  BY OutputsType DEF Index
<1>3. \A p \in Published : Bytes(publication[p].output) \subseteq PublishedObjectKeys
  BY DEF Bytes, PublishedObjectKeys
<1>4. \A k \in PublishedObjectKeys : k \in Keys
  BY <1>1, <1>2 DEF PublishedObjectKeys
<1> QED
  BY <1>1, <1>3, <1>4

\* A worker reads what is protected; who verifies races with it from now on.
LEMMA ReadProtectedStep ==
    ASSUME TypeInv, NEW w \in Pruners, ReadProtected(w)
    PROVE  /\ prune[w].pc = "attachments" /\ prune[w] \in PruneType
           /\ \E pc \in {"objects", "commit"} :
                 PruneGoes(w, Holding(prune[w], pc, PublishedObjectKeys))
           /\ publication' \in [Publications -> PublicationType]
           /\ \A p \in Publications :
                 /\ publication'[p].pc = publication[p].pc
                 /\ publication'[p].output = publication[p].output
                 /\ publication'[p].left = publication[p].left
                 /\ publication'[p].verified = publication[p].verified
                 /\ publication[p].raced => publication'[p].raced
                 /\ publication[p].pc = "verifying" => publication'[p].raced
                 /\ publication'[p].raced => publication[p].raced \/ publication[p].pc = "verifying"
<1>1. /\ prune[w].pc = "attachments" /\ prune[w] \in PruneType
      /\ PublishedObjectKeys \in SUBSET Keys
      /\ \A p \in Publications : publication[p] \in PublicationType
  BY ProtectedType DEF ReadProtected, TypeInv, TypeOK
<1>2. PICK pc \in {"objects", "commit"} : pc = IF Removed(w) < Limit THEN "objects" ELSE "commit"
  OBVIOUS
<1>3. prune' = [prune EXCEPT ![w].pc = pc, ![w].keys = PublishedObjectKeys]
  BY <1>2 DEF ReadProtected
<1>4. prune' = [prune EXCEPT ![w] = Holding(prune[w], pc, PublishedObjectKeys)]
  BY <1>1, <1>3 DEF Holding, TypeInv, TypeOK, PruneType
<1>5. PruneGoes(w, Holding(prune[w], pc, PublishedObjectKeys))
  BY <1>1, <1>4, HoldingType, GoesOn DEF TypeInv
<1> DEFINE races(p) == publication[p].raced \/ publication[p].pc = "verifying"
<1>6. publication' = [p \in Publications |-> Raced(publication[p], races(p))]
  BY Zenon DEF ReadProtected, Raced
<1>7. \A p \in Publications : races(p) \in BOOLEAN
  BY <1>1 DEF PublicationType
<1>8. \A p \in Publications : /\ publication'[p] = Raced(publication[p], races(p))
                              /\ Raced(publication[p], races(p)) \in PublicationType
  BY <1>1, <1>6, <1>7, RacedType
<1>9. publication' \in [Publications -> PublicationType]
  BY <1>6, <1>8
<1>10. ASSUME NEW p \in Publications
       PROVE  /\ publication'[p].pc = publication[p].pc
              /\ publication'[p].output = publication[p].output
              /\ publication'[p].left = publication[p].left
              /\ publication'[p].verified = publication[p].verified
              /\ publication'[p].raced <=> races(p)
  <2>1. races(p) \in BOOLEAN
    BY <1>7
  <2>2. PICK now \in BOOLEAN : now <=> races(p)
    OBVIOUS
  <2>3. now = races(p)
    BY <2>1, <2>2
  <2>4. publication'[p] = Raced(publication[p], now)
    BY <1>8, <2>3
  <2>5. publication[p] \in PublicationType
    BY <1>1
  <2> HIDE DEF races
  <2> QED
    BY <2>2, <2>4, <2>5, RacedType
<1> QED
  BY <1>1, <1>5, <1>9, <1>10

\* The old objects that are not protected.
LEMMA ListObjectsStep ==
    ASSUME TypeInv, NEW w \in Pruners, ListObjects(w)
    PROVE  /\ prune[w].pc = "objects" /\ prune[w] \in PruneType
           /\ \E keys \in SUBSET (Keys \ prune[w].keys) :
                 PruneGoes(w, Holding(prune[w], "deleting", keys))
<1>1. prune[w].pc = "objects" /\ prune[w] \in PruneType
  BY DEF ListObjects, TypeInv, TypeOK
<1>2. PICK keys \in SUBSET (Keys \ prune[w].keys) :
          keys = {k \in Keys \ prune[w].keys : object[k] = "old"}
  OBVIOUS
<1>3. prune' = [prune EXCEPT ![w] = Holding(prune[w], "deleting", keys)]
  BY <1>1, <1>2 DEF ListObjects, Holding, TypeInv, TypeOK, PruneType
<1> QED
  BY <1>1, <1>2, <1>3, HoldingType, GoesOn DEF TypeInv

\* One of them is deleted.
LEMMA DeleteObjectStep ==
    ASSUME TypeInv, NEW w \in Pruners, NEW k \in Keys, DeleteObject(w, k)
    PROVE  /\ prune[w].pc = "deleting" /\ k \in prune[w].keys /\ prune[w] \in PruneType
           /\ \E keys \in SUBSET prune[w].keys, n \in Nat :
                 PruneGoes(w, Freed(prune[w], keys, n))
<1>1. prune[w].pc = "deleting" /\ k \in prune[w].keys /\ prune[w] \in PruneType
      /\ prune[w].keys \in SUBSET Keys /\ prune[w].removed \in Nat
  BY DEF DeleteObject, TypeInv, TypeOK, PruneType
<1>2. PICK n \in Nat : n = prune[w].removed + 1
  BY <1>1
<1>3. PICK keys \in SUBSET prune[w].keys : keys = prune[w].keys \ {k}
  OBVIOUS
<1>4. prune' = [prune EXCEPT ![w].keys = keys, ![w].removed = n]
  BY <1>1, <1>2, <1>3 DEF DeleteObject
<1>5. prune' = [prune EXCEPT ![w] = Freed(prune[w], keys, n)]
  BY <1>1, <1>4 DEF Freed, TypeInv, TypeOK, PruneType
<1> QED
  BY <1>1, <1>3, <1>5, FreedType, GoesOn DEF TypeInv

\* A run of the retention ends, with its COMMIT or without.
LEMMA EndPruneStep ==
    ASSUME TypeInv, NEW w \in Pruners, CommitPrune(w) \/ AbortPrune(w)
    PROVE  PruneGoes(w, NoPrune)
BY NoPruneType, GoesOn DEF TypeInv, CommitPrune, AbortPrune

LEMMA CommitPruneStep ==
    ASSUME TypeInv, NEW w \in Pruners, CommitPrune(w)
    PROVE  /\ attachment' \in [Paths -> RowType]
           /\ \A f \in Paths : /\ attachment'[f].content = attachment[f].content
                               /\ attachment'[f].purged <=> attachment[f].purged \/ f \in prune[w].done
<1> DEFINE purge(r) == [r EXCEPT !.purged = TRUE]
<1>1. \A r \in RowType : purge(r) \in RowType /\ purge(r).content = r.content /\ purge(r).purged
  BY DEF RowType
<1>2. attachment' = [f \in Paths |-> IF f \in prune[w].done THEN purge(attachment[f])
                                                            ELSE attachment[f]]
  BY DEF CommitPrune, Marked
<1>3. \A f \in Paths : attachment[f] \in RowType
  BY DEF TypeInv, TypeOK
<1> HIDE DEF purge
<1> QED
  BY <1>1, <1>2, <1>3

-----------------------------------------------------------------------------
(* Type correctness                                                        *)

\* Each action keeps the types of what it changes; what it does to a record is said by
\* its lemma above.
LEMMA BucketType ==
    ASSUME TypeInv, NEW k \in Keys, Push(k) \/ Grow(k)
    PROVE  TypeInv'
<1>1. object' \in [Keys -> {"absent", "fresh", "old"}] /\ corrupt' \subseteq Keys
      /\ begun' \in 0..MaxOperations
  BY BoundsType DEF Push, Grow, Begin, TypeInv, TypeOK
<1>2. UNCHANGED <<publication, stored, attachment, expired, running, upload, prune, failures>>
  BY DEF Push, Grow, fileVars
<1> QED
  BY <1>1, <1>2 DEF TypeInv, TypeOK, Working

\* A publication goes on to a record that names an output if it has to.
LEMMA PublicationGoesType ==
    ASSUME TypeInv, NEW p \in Publications, NEW q \in PublicationType, PublicationGoes(p, q),
           q.pc \in {"verifying", "published"} => q.output \in Outputs,
           begun' \in 0..MaxOperations,
           UNCHANGED <<dvcVars, fileVars, running, upload, prune, failures>>
    PROVE  TypeInv'
<1>1. /\ publication' \in [Publications -> PublicationType]
      /\ \A z \in Publications :
            publication'[z].pc \in {"verifying", "published"} => publication'[z].output \in Outputs
  BY DEF PublicationGoes, TypeInv, Working
<1> QED
  BY <1>1 DEF TypeInv, TypeOK, Working, dvcVars, fileVars

LEMMA ValidateType ==
    ASSUME TypeInv, NEW p \in Publications, Validate(p)
    PROVE  TypeInv'
<1>1. ASSUME NEW o \in Outputs, NEW d \in Defects \cup {None}, StartValidation(p, o, d)
      PROVE  TypeInv'
  <2>1. PICK q \in PublicationType : PublicationGoes(p, q) /\ (q.pc = "failed" \/ q.output = o)
    BY <1>1, StartValidationStep
  <2>2. begun' \in 0..MaxOperations
        /\ UNCHANGED <<dvcVars, fileVars, running, upload, prune, failures>>
    BY <1>1, BoundsType DEF StartValidation, Begin, TypeInv, TypeOK
  <2> QED
    BY <2>1, <2>2, PublicationGoesType
<1>2. ASSUME NEW k \in Keys, Verify(p, k)
      PROVE  TypeInv'
  <2>1. publication[p] \in PublicationType /\ publication[p].output \in Outputs
    BY <1>2, VerifyStep
  <2>2. PICK left \in SUBSET Keys, n \in Nat : PublicationGoes(p, Verified(publication[p], left, n))
    BY <1>2, VerifyStep
  <2>3. Verified(publication[p], left, n) \in PublicationType
        /\ Verified(publication[p], left, n).output \in Outputs
    BY <2>1, VerifiedType
  <2>4. begun' \in 0..MaxOperations
        /\ UNCHANGED <<dvcVars, fileVars, running, upload, prune, failures>>
    BY <1>2 DEF Verify, TypeInv, TypeOK
  <2> QED
    BY <2>2, <2>3, <2>4, PublicationGoesType
<1>3. CASE FailValidation(p)
  <2>1. PublicationGoes(p, Failed)
    BY <1>3, FailedType, GoesOn DEF FailValidation, TypeInv
  <2>2. begun' \in 0..MaxOperations
        /\ UNCHANGED <<dvcVars, fileVars, running, upload, prune, failures>>
    BY <1>3 DEF FailValidation, TypeInv, TypeOK
  <2> QED
    BY <2>1, <2>2, FailedType, PublicationGoesType
<1>4. CASE Publish(p)
  <2>1. PublicationGoes(p, Done(publication[p])) /\ publication[p] \in PublicationType
    BY <1>4, PublishStep
  <2>2. Done(publication[p]) \in PublicationType /\ Done(publication[p]).output \in Outputs
    BY <1>4, <2>1, DoneType, PublishStep DEF TypeInv, Working
  <2>3. begun' \in 0..MaxOperations
        /\ UNCHANGED <<dvcVars, fileVars, running, upload, prune, failures>>
    BY <1>4 DEF Publish, TypeInv, TypeOK
  <2> QED
    BY <2>1, <2>2, <2>3, PublicationGoesType
<1> QED
  BY <1>1, <1>2, <1>3, <1>4 DEF Validate

\* The same of a request.
LEMMA UploadGoesType ==
    ASSUME TypeInv, NEW u \in Uploads, NEW q \in UploadType, UploadGoes(u, q),
           q.path \in Paths, q.content \in Contents,
           stored' \subseteq Contents, attachment' \in [Paths -> RowType],
           begun' \in 0..MaxOperations, failures' \in 0..MaxFailures,
           UNCHANGED <<dvcVars, publication, expired, running, prune>>
    PROVE  TypeInv'
<1>1. /\ upload' \in [Uploads -> UploadType]
      /\ \A z \in Uploads :
            upload'[z].pc # "new" => upload'[z].path \in Paths /\ upload'[z].content \in Contents
  BY DEF UploadGoes, TypeInv, Working
<1> QED
  BY <1>1 DEF TypeInv, TypeOK, Working, dvcVars

LEMMA AttachType ==
    ASSUME TypeInv, NEW u \in Uploads, Attach(u)
    PROVE  TypeInv'
<1>1. ASSUME NEW f \in Paths, NEW c \in Contents, StartUpload(u, f, c)
      PROVE  TypeInv'
  <2>1. PICK q \in UploadType : UploadGoes(u, q) /\ q.path = f /\ q.content = c
    BY <1>1, StartUploadStep
  <2>2. /\ begun' \in 0..MaxOperations /\ failures' \in 0..MaxFailures
        /\ stored' \subseteq Contents /\ attachment' \in [Paths -> RowType]
        /\ UNCHANGED <<dvcVars, publication, expired, running, prune>>
    BY <1>1, BoundsType DEF StartUpload, Begin, TypeInv, TypeOK, fileVars
  <2> QED
    BY <2>1, <2>2, UploadGoesType
<1>2. CASE PutObject(u)
  <2>1. UploadGoes(u, Moved(upload[u], "commit")) /\ upload[u] \in UploadType
        /\ upload[u].path \in Paths /\ upload[u].content \in Contents
    BY <1>2, PutObjectStep
  <2>2. /\ begun' \in 0..MaxOperations /\ failures' \in 0..MaxFailures
        /\ stored' \subseteq Contents /\ attachment' \in [Paths -> RowType]
        /\ UNCHANGED <<dvcVars, publication, expired, running, prune>>
    BY <1>2, <2>1 DEF PutObject, TypeInv, TypeOK
  <2> QED
    BY <2>1, <2>2, MovedType, UploadGoesType
<1>3. CASE CommitUpload(u)
  <2>1. /\ UploadGoes(u, Moved(upload[u], "acked")) \/ UploadGoes(u, Moved(upload[u], "broken"))
        /\ upload[u] \in UploadType /\ attachment' \in [Paths -> RowType]
        /\ upload[u].path \in Paths /\ upload[u].content \in Contents
    BY <1>3, CommitUploadStep
  <2>2. /\ begun' \in 0..MaxOperations /\ failures' \in 0..MaxFailures /\ stored' \subseteq Contents
        /\ UNCHANGED <<dvcVars, publication, expired, running, prune>>
    BY <1>3 DEF CommitUpload, TypeInv, TypeOK
  <2> QED
    BY <2>1, <2>2, MovedType, UploadGoesType
<1>4. CASE LoseUpload(u)
  <2>1. UploadGoes(u, Moved(upload[u], "broken")) /\ upload[u] \in UploadType
        /\ upload[u].path \in Paths /\ upload[u].content \in Contents
    BY <1>4, LoseUploadStep
  <2>2. /\ begun' \in 0..MaxOperations /\ failures' \in 0..MaxFailures
        /\ stored' \subseteq Contents /\ attachment' \in [Paths -> RowType]
        /\ UNCHANGED <<dvcVars, publication, expired, running, prune>>
    BY <1>4, BoundsType DEF LoseUpload, TypeInv, TypeOK, fileVars
  <2> QED
    BY <2>1, <2>2, MovedType, UploadGoesType
<1> QED
  BY <1>1, <1>2, <1>3, <1>4 DEF Attach

\* The same of a worker.
LEMMA PruneGoesType ==
    ASSUME TypeInv, NEW w \in Pruners, NEW q \in PruneType, PruneGoes(w, q),
           object' \in [Keys -> {"absent", "fresh", "old"}], corrupt' \subseteq Keys,
           publication' \in [Publications -> PublicationType],
           \A p \in Publications : /\ publication'[p].pc = publication[p].pc
                                   /\ publication'[p].output = publication[p].output,
           stored' \subseteq Contents, attachment' \in [Paths -> RowType],
           failures' \in 0..MaxFailures,
           UNCHANGED <<expired, running, upload, begun>>
    PROVE  TypeInv'
<1>1. prune' \in [Pruners -> PruneType]
  BY DEF PruneGoes
<1> QED
  BY <1>1 DEF TypeInv, TypeOK, Working

LEMMA RetainType ==
    ASSUME TypeInv, NEW w \in Pruners, Retain(w) \/ AbortPrune(w)
    PROVE  TypeInv'
<1>0. /\ prune[w] \in PruneType /\ failures \in 0..MaxFailures
      /\ publication \in [Publications -> PublicationType]
      /\ stored \subseteq Contents /\ attachment \in [Paths -> RowType]
      /\ object \in [Keys -> {"absent", "fresh", "old"}] /\ corrupt \subseteq Keys
  BY DEF TypeInv, TypeOK
<1>1. CASE StartPrune(w)
  <2>1. PICK todo \in SUBSET Due : PruneGoes(w, Taking(todo))
    BY <1>1, StartPruneStep
  <2>2. Taking(todo) \in PruneType
    BY TakingType DEF Due, Rows
  <2>3. UNCHANGED <<dvcVars, publication, fileVars, running, upload, begun, failures>>
    BY <1>1 DEF StartPrune
  <2> QED
    BY <1>0, <2>1, <2>2, <2>3, PruneGoesType DEF dvcVars, fileVars
<1>2. ASSUME NEW f \in Paths, DeleteAttachment(w, f)
      PROVE  TypeInv'
  <2>1. PruneGoes(w, Dropped(prune[w], f)) /\ Dropped(prune[w], f) \in PruneType
    BY <1>0, <1>2, DeleteAttachmentStep, DroppedType
  <2>2. /\ UNCHANGED <<dvcVars, publication, attachment, expired, running, upload, begun, failures>>
        /\ stored' \subseteq stored
    BY <1>2 DEF DeleteAttachment
  <2> QED
    BY <1>0, <2>1, <2>2, PruneGoesType DEF dvcVars
<1>3. CASE ReadProtected(w)
  <2>1. PICK pc \in {"objects", "commit"} : PruneGoes(w, Holding(prune[w], pc, PublishedObjectKeys))
    BY <1>3, ReadProtectedStep
  <2>2. Holding(prune[w], pc, PublishedObjectKeys) \in PruneType
    BY <1>0, ProtectedType, HoldingType
  <2>3. /\ publication' \in [Publications -> PublicationType]
        /\ \A p \in Publications : /\ publication'[p].pc = publication[p].pc
                                   /\ publication'[p].output = publication[p].output
    BY <1>3, ReadProtectedStep
  <2>4. UNCHANGED <<dvcVars, fileVars, running, upload, begun, failures>>
    BY <1>3 DEF ReadProtected
  <2> QED
    BY <1>0, <2>1, <2>2, <2>3, <2>4, PruneGoesType DEF dvcVars, fileVars
<1>4. CASE ListObjects(w)
  <2>1. PICK keys \in SUBSET (Keys \ prune[w].keys) : PruneGoes(w, Holding(prune[w], "deleting", keys))
    BY <1>4, ListObjectsStep
  <2>2. Holding(prune[w], "deleting", keys) \in PruneType
    BY <1>0, HoldingType
  <2>3. UNCHANGED <<dvcVars, publication, fileVars, running, upload, begun, failures>>
    BY <1>4 DEF ListObjects
  <2> QED
    BY <1>0, <2>1, <2>2, <2>3, PruneGoesType DEF dvcVars, fileVars
<1>5. ASSUME NEW k \in Keys, DeleteObject(w, k)
      PROVE  TypeInv'
  <2>1. PICK keys \in SUBSET prune[w].keys, n \in Nat : PruneGoes(w, Freed(prune[w], keys, n))
    BY <1>5, DeleteObjectStep
  <2>2. keys \in SUBSET Keys
    BY <1>0 DEF PruneType
  <2>3. Freed(prune[w], keys, n) \in PruneType
    BY <1>0, <2>2, FreedType
  <2>4. /\ UNCHANGED <<publication, fileVars, running, upload, begun, failures>>
        /\ object' \in [Keys -> {"absent", "fresh", "old"}] /\ corrupt' \subseteq corrupt
    BY <1>0, <1>5 DEF DeleteObject
  <2> QED
    BY <1>0, <2>1, <2>3, <2>4, PruneGoesType DEF fileVars
<1>6. CASE CommitPrune(w)
  <2>1. PruneGoes(w, NoPrune) /\ attachment' \in [Paths -> RowType]
    BY <1>6, EndPruneStep, CommitPruneStep
  <2>2. UNCHANGED <<dvcVars, publication, stored, expired, running, upload, begun, failures>>
    BY <1>6 DEF CommitPrune
  <2> QED
    BY <1>0, <2>1, <2>2, NoPruneType, PruneGoesType DEF dvcVars
<1>7. CASE AbortPrune(w)
  <2>1. PruneGoes(w, NoPrune)
    BY <1>7, EndPruneStep
  <2>2. /\ UNCHANGED <<dvcVars, publication, fileVars, running, upload, begun>>
        /\ failures' \in 0..MaxFailures
    BY <1>0, <1>7, BoundsType DEF AbortPrune
  <2> QED
    BY <1>0, <2>1, <2>2, NoPruneType, PruneGoesType DEF dvcVars, fileVars
<1> QED
  BY <1>1, <1>2, <1>3, <1>4, <1>5, <1>6, <1>7 DEF Retain

LEMMA InitType == Init => TypeInv
<1> SUFFICES ASSUME Init PROVE TypeInv
  OBVIOUS
<1>1. NoPublication \in PublicationType /\ NoPublication.pc = "new"
  BY DEF NoPublication, PublicationType
<1>2. NoRow \in RowType
  BY DEF NoRow, RowType
<1>3. TypeOK
  BY <1>1, <1>2, NoPruneType, BoundsType DEF Init, TypeOK, UploadType
<1>4. Working
  BY <1>1 DEF Init, Working
<1> QED
  BY <1>3, <1>4 DEF TypeInv

LEMMA TypeStep == TypeInv /\ [Next]_vars => TypeInv'
<1> SUFFICES ASSUME TypeInv, [Next]_vars PROVE TypeInv'
  OBVIOUS
<1>1. ASSUME NEW f \in Paths, Expire(f)
      PROVE  TypeInv'
  BY <1>1 DEF Expire, TypeInv, TypeOK, Working, dvcVars
<1>2. CASE EndRun
  BY <1>2 DEF EndRun, TypeInv, TypeOK, Working, dvcVars, fileVars
<1>3. CASE UNCHANGED vars
  BY <1>3 DEF TypeInv, TypeOK, Working, vars, dvcVars, fileVars
<1> QED
  BY <1>1, <1>2, <1>3, BucketType, ValidateType, AttachType, RetainType DEF Next

-----------------------------------------------------------------------------
(* Published bytes stay                                                    *)

\* No step but DeleteObject takes a sound object away.
LEMMA SoundStays ==
    ASSUME UNCHANGED dvcVars \/ \E k \in Keys : Push(k) \/ Grow(k), TypeInv
    PROVE  \A k \in Keys : Sound(k) => object'[k] # "absent" /\ k \notin corrupt'
BY DEF Sound, Push, Grow, TypeInv, TypeOK, dvcVars

LEMMA BytesAreKeys == \A o \in Outputs : Bytes(o) \subseteq Keys
BY OutputsType DEF Bytes, Index

\* Where neither publications nor workers move, sound bytes are all that matters.
LEMMA QuietBytes ==
    ASSUME BytesInv, TypeInv', UNCHANGED <<publication, prune>>,
           \A k \in Keys : Sound(k) => object'[k] # "absent" /\ k \notin corrupt'
    PROVE  BytesInv'
<1>1. Published' = Published /\ Deleting' = Deleting
  BY DEF Published, Deleting
<1>2. RaceIsNoticed'
  BY <1>1 DEF BytesInv, RaceIsNoticed
<1>3. PublishedIsProtected'
  BY <1>1 DEF BytesInv, PublishedIsProtected
<1>4. \A p \in Publications : publication[p].pc \in {"verifying", "published"} =>
          Bytes(publication[p].output) \subseteq Keys
  BY BytesAreKeys DEF BytesInv, TypeInv, Working
<1>5. VerifiedIsSound'
  BY <1>4 DEF BytesInv, VerifiedIsSound, Sound
<1>6. PublishedBytesStay'
  BY <1>1, <1>4 DEF BytesInv, PublishedBytesStay, Sound, Published
<1> QED
  BY <1>2, <1>3, <1>5, <1>6 DEF BytesInv

\* What must be true of a publication that goes on to q, with the bucket and the workers
\* as they are.
SafeAs(q) ==
    /\ q.pc = "verifying" =>
          /\ q.verified = 0 => q.left = {q.output}
          /\ q.verified # 0 /\ ~q.raced => \A k \in Bytes(q.output) \ q.left : Sound(k)
          /\ ~q.raced => Deleting = {}
    /\ q.pc = "published" /\ ~q.raced => Deleting = {} /\ \A k \in Bytes(q.output) : Sound(k)

LEMMA ValidationBytes ==
    ASSUME BytesInv, TypeInv', NEW p \in Publications, NEW q \in PublicationType,
           PublicationGoes(p, q), SafeAs(q), UNCHANGED <<dvcVars, prune>>
    PROVE  BytesInv'
<1>1. /\ publication'[p] = q
      /\ \A z \in Publications \ {p} : publication'[z] = publication[z]
      /\ object' = object /\ corrupt' = corrupt /\ prune' = prune /\ Deleting' = Deleting
  BY DEF PublicationGoes, dvcVars, Deleting
<1>2. VerifiedIsSound'
  BY <1>1 DEF BytesInv, VerifiedIsSound, SafeAs, Sound
<1>3. RaceIsNoticed'
  BY <1>1 DEF BytesInv, RaceIsNoticed, SafeAs
<1>4. PublishedIsProtected'
  BY <1>1 DEF BytesInv, PublishedIsProtected, SafeAs, Published, Deleting
<1>5. PublishedBytesStay'
  BY <1>1 DEF BytesInv, PublishedBytesStay, SafeAs, Published, Sound
<1> QED
  BY <1>2, <1>3, <1>4, <1>5 DEF BytesInv

LEMMA ValidateBytes ==
    ASSUME BytesInv, TypeInv', NEW p \in Publications, Validate(p)
    PROVE  BytesInv'
<1>0. TypeInv
  BY DEF BytesInv
<1>1. ASSUME NEW o \in Outputs, NEW d \in Defects \cup {None}, StartValidation(p, o, d)
      PROVE  BytesInv'
  <2>1. PICK q \in PublicationType :
               /\ PublicationGoes(p, q)
               /\ \/ q.pc = "failed"
                  \/ /\ q.pc = "verifying" /\ q.output = o /\ q.left = {o} /\ q.verified = 0
                     /\ q.raced <=> Deleting # {}
    BY <1>0, <1>1, StartValidationStep
  <2>2. SafeAs(q)
    BY <2>1 DEF SafeAs
  <2>3. UNCHANGED <<dvcVars, prune>>
    BY <1>1 DEF StartValidation
  <2> QED
    BY <2>1, <2>2, <2>3, ValidationBytes
<1>2. ASSUME NEW k \in Keys, Verify(p, k)
      PROVE  BytesInv'
  <2>1. /\ publication[p].pc = "verifying" /\ publication[p].output \in Outputs
        /\ publication[p] \in PublicationType
        /\ k \in publication[p].left /\ Sound(k)
    BY <1>0, <1>2, VerifyStep
  <2>2. PICK left \in SUBSET Keys, n \in Nat :
                 /\ n # 0
                 /\ left = IF publication[p].verified = 0 THEN Children[publication[p].output]
                           ELSE publication[p].left \ {k}
                 /\ PublicationGoes(p, Verified(publication[p], left, n))
    BY <1>0, <1>2, VerifyStep
  <2>3. ASSUME ~publication[p].raced, NEW b \in Bytes(publication[p].output) \ left
        PROVE  Sound(b)
    <3>1. CASE publication[p].verified = 0
      <4>1. publication[p].left = {publication[p].output}
        BY <2>1, <3>1 DEF BytesInv, VerifiedIsSound
      <4>2. b = publication[p].output
        BY <2>2, <2>3, <3>1 DEF Bytes, Index
      <4> QED
        BY <2>1, <4>1, <4>2
    <3>2. CASE publication[p].verified # 0
      <4>1. b = k \/ b \in Bytes(publication[p].output) \ publication[p].left
        BY <2>2, <2>3, <3>2
      <4> QED
        BY <2>1, <2>3, <3>2, <4>1 DEF BytesInv, VerifiedIsSound
    <3> QED
      BY <3>1, <3>2
  <2>4. ~publication[p].raced => Deleting = {}
    BY <2>1 DEF BytesInv, RaceIsNoticed
  <2>5. PICK q \in PublicationType : q = Verified(publication[p], left, n)
    BY <2>1, VerifiedType
  <2>6. /\ q.pc = "verifying" /\ q.output = publication[p].output
        /\ q.left = left /\ q.verified = n /\ (q.raced <=> publication[p].raced)
    BY <2>1, <2>5, VerifiedType
  <2>7. SafeAs(q)
    BY <2>2, <2>3, <2>4, <2>6 DEF SafeAs
  <2>8. UNCHANGED <<dvcVars, prune>>
    BY <1>2 DEF Verify
  <2> QED
    BY <2>2, <2>5, <2>7, <2>8, ValidationBytes
<1>3. CASE FailValidation(p)
  <2>1. PublicationGoes(p, Failed)
    BY <1>0, <1>3, FailedType, GoesOn DEF FailValidation, TypeInv
  <2>2. SafeAs(Failed)
    BY FailedType DEF SafeAs
  <2>3. UNCHANGED <<dvcVars, prune>>
    BY <1>3 DEF FailValidation
  <2> QED
    BY <2>1, <2>2, <2>3, FailedType, ValidationBytes
<1>4. CASE Publish(p)
  <2>1. /\ publication[p].pc = "verifying" /\ publication[p].left = {}
        /\ publication[p] \in PublicationType
        /\ PublicationGoes(p, Done(publication[p]))
    BY <1>0, <1>4, PublishStep
  <2>2. publication[p].verified # 0
    BY <2>1 DEF BytesInv, VerifiedIsSound
  <2>3. ~publication[p].raced => /\ Deleting = {}
                                 /\ \A k \in Bytes(publication[p].output) : Sound(k)
    BY <2>1, <2>2 DEF BytesInv, VerifiedIsSound, RaceIsNoticed
  <2>4. PICK q \in PublicationType : q = Done(publication[p])
    BY <2>1, DoneType
  <2>5. q.pc = "published" /\ q.output = publication[p].output /\ (q.raced <=> publication[p].raced)
    BY <2>1, <2>4, DoneType
  <2>6. SafeAs(q)
    BY <2>3, <2>5 DEF SafeAs
  <2>7. UNCHANGED <<dvcVars, prune>>
    BY <1>4 DEF Publish
  <2> QED
    BY <2>1, <2>4, <2>6, <2>7, ValidationBytes
<1> QED
  BY <1>1, <1>2, <1>3, <1>4 DEF Validate

\* A worker goes on without the bucket in its hands.
LEMMA AwayBytes ==
    ASSUME BytesInv, TypeInv', NEW w \in Pruners, NEW q \in PruneType, PruneGoes(w, q),
           q.pc \in {"idle", "attachments", "commit"}, UNCHANGED <<dvcVars, publication>>
    PROVE  BytesInv'
<1>1. /\ prune'[w] = q
      /\ \A z \in Pruners \ {w} : prune'[z] = prune[z]
      /\ object' = object /\ corrupt' = corrupt
      /\ Published' = Published /\ Deleting' \subseteq Deleting
  BY DEF PruneGoes, dvcVars, Deleting, Published
<1>2. VerifiedIsSound'
  BY <1>1 DEF BytesInv, VerifiedIsSound, Sound
<1>3. RaceIsNoticed'
  BY <1>1 DEF BytesInv, RaceIsNoticed
<1>4. PublishedIsProtected'
  BY <1>1 DEF BytesInv, PublishedIsProtected, Published
<1>5. PublishedBytesStay'
  BY <1>1 DEF BytesInv, PublishedBytesStay
<1> QED
  BY <1>2, <1>3, <1>4, <1>5 DEF BytesInv

\* What it has read protects every version there is, and who verifies is marked.
LEMMA ReadProtectedBytes ==
    ASSUME BytesInv, TypeInv', NEW w \in Pruners, ReadProtected(w)
    PROVE  BytesInv'
<1>0. TypeInv
  BY DEF BytesInv
<1>1. /\ prune[w] \in PruneType
      /\ \A p \in Publications :
            /\ publication'[p].pc = publication[p].pc
            /\ publication'[p].output = publication[p].output
            /\ publication'[p].left = publication[p].left
            /\ publication'[p].verified = publication[p].verified
            /\ publication[p].raced => publication'[p].raced
            /\ publication[p].pc = "verifying" => publication'[p].raced
  BY <1>0, ReadProtectedStep
<1>2. PICK pc \in {"objects", "commit"} : PruneGoes(w, Holding(prune[w], pc, PublishedObjectKeys))
  BY <1>0, ReadProtectedStep
<1>3. PublishedObjectKeys \in SUBSET Keys
  BY <1>0, ProtectedType
<1>4. /\ prune'[w].pc = pc /\ prune'[w].keys = PublishedObjectKeys
      /\ \A z \in Pruners \ {w} : prune'[z] = prune[z]
  BY <1>1, <1>2, <1>3, HoldingType DEF PruneGoes
<1>5. object' = object /\ corrupt' = corrupt
  BY DEF ReadProtected, dvcVars
<1>6. Published' = Published
  BY <1>1 DEF Published
<1>7. VerifiedIsSound'
  BY <1>1, <1>5 DEF BytesInv, VerifiedIsSound, Sound
<1>8. RaceIsNoticed'
  BY <1>1 DEF RaceIsNoticed
<1>9. PublishedIsProtected'
  <2>1. \A p \in Published : Bytes(publication[p].output) \subseteq PublishedObjectKeys
    BY <1>0, ProtectedType
  <2>2. ASSUME NEW p \in Published, ~publication'[p].raced, NEW z \in Pruners
        PROVE  /\ prune'[z].pc = "objects" => Bytes(publication'[p].output) \subseteq prune'[z].keys
               /\ prune'[z].pc = "deleting" => Bytes(publication'[p].output) \cap prune'[z].keys = {}
    <3>1. ~publication[p].raced /\ publication'[p].output = publication[p].output
      BY <1>1, <2>2 DEF Published
    <3>2. CASE z = w
      BY <1>4, <2>1, <3>1, <3>2
    <3>3. CASE z # w
      BY <1>4, <3>1, <3>3 DEF BytesInv, PublishedIsProtected
    <3> QED
      BY <3>2, <3>3
  <2> QED
    BY <1>6, <2>2 DEF PublishedIsProtected
<1>10. PublishedBytesStay'
  BY <1>1, <1>5, <1>6 DEF BytesInv, PublishedBytesStay, Published
<1> QED
  BY <1>7, <1>8, <1>9, <1>10 DEF BytesInv

\* What it has listed spares every version that did not race.
LEMMA ListObjectsBytes ==
    ASSUME BytesInv, TypeInv', NEW w \in Pruners, ListObjects(w)
    PROVE  BytesInv'
<1>0. TypeInv
  BY DEF BytesInv
<1>1. prune[w].pc = "objects" /\ prune[w] \in PruneType
  BY <1>0, ListObjectsStep
<1>2. PICK keys \in SUBSET (Keys \ prune[w].keys) : PruneGoes(w, Holding(prune[w], "deleting", keys))
  BY <1>0, ListObjectsStep
<1>3. keys \in SUBSET Keys
  OBVIOUS
<1>4. /\ prune'[w].pc = "deleting" /\ prune'[w].keys = keys
      /\ \A z \in Pruners \ {w} : prune'[z] = prune[z]
  BY <1>1, <1>2, <1>3, HoldingType DEF PruneGoes
<1>5. object' = object /\ corrupt' = corrupt /\ publication' = publication
      /\ Published' = Published
  BY DEF ListObjects, dvcVars, Published
<1>6. Deleting' = Deleting
  BY <1>1, <1>4 DEF Deleting
<1>7. VerifiedIsSound'
  BY <1>5 DEF BytesInv, VerifiedIsSound, Sound
<1>8. RaceIsNoticed'
  BY <1>5, <1>6 DEF BytesInv, RaceIsNoticed
<1>9. PublishedIsProtected'
  <2>1. ASSUME NEW p \in Published, ~publication[p].raced
        PROVE  Bytes(publication[p].output) \cap keys = {}
    <3>1. Bytes(publication[p].output) \subseteq prune[w].keys
      BY <1>1, <2>1 DEF BytesInv, PublishedIsProtected
    <3> QED
      BY <3>1
  <2> QED
    BY <1>4, <1>5, <2>1 DEF BytesInv, PublishedIsProtected
<1>10. PublishedBytesStay'
  BY <1>5 DEF BytesInv, PublishedBytesStay
<1> QED
  BY <1>7, <1>8, <1>9, <1>10 DEF BytesInv

\* The object that goes is none of these versions', and nobody verifies unmarked.
LEMMA DeleteObjectBytes ==
    ASSUME BytesInv, TypeInv', NEW w \in Pruners, NEW k \in Keys, DeleteObject(w, k)
    PROVE  BytesInv'
<1>0. TypeInv
  BY DEF BytesInv
<1>1. prune[w].pc = "deleting" /\ k \in prune[w].keys /\ prune[w] \in PruneType
  BY <1>0, DeleteObjectStep
<1>2. PICK keys \in SUBSET prune[w].keys, n \in Nat : PruneGoes(w, Freed(prune[w], keys, n))
  BY <1>0, DeleteObjectStep
<1>3. keys \in SUBSET Keys
  BY <1>1 DEF PruneType
<1>4. /\ prune'[w].pc = "deleting" /\ prune'[w].keys = keys
      /\ \A z \in Pruners \ {w} : prune'[z] = prune[z]
  BY <1>1, <1>2, <1>3, FreedType DEF PruneGoes
<1>5. publication' = publication /\ Published' = Published
  BY DEF DeleteObject, Published
<1>6. \A b \in Keys \ {k} : Sound(b) => object'[b] # "absent" /\ b \notin corrupt'
  BY <1>0 DEF DeleteObject, Sound, TypeInv, TypeOK
<1>7. Deleting' = Deleting /\ w \in Deleting
  BY <1>1, <1>4 DEF Deleting
<1>8. \A p \in Publications : publication[p].pc = "verifying" => publication[p].raced
  BY <1>7 DEF BytesInv, RaceIsNoticed
<1>9. VerifiedIsSound'
  BY <1>5, <1>8 DEF BytesInv, VerifiedIsSound
<1>10. RaceIsNoticed'
  BY <1>5, <1>8 DEF RaceIsNoticed
<1>11. PublishedIsProtected'
  BY <1>1, <1>2, <1>4, <1>5 DEF BytesInv, PublishedIsProtected
<1>12. PublishedBytesStay'
  <2>1. ASSUME NEW p \in Published, ~publication[p].raced, NEW b \in Bytes(publication[p].output)
        PROVE  object'[b] # "absent" /\ b \notin corrupt'
    <3>1. b \in Keys
      BY <1>0, BytesAreKeys, ProtectedType
    <3>2. b # k
      BY <1>1, <2>1 DEF BytesInv, PublishedIsProtected
    <3>3. Sound(b)
      BY <2>1 DEF BytesInv, PublishedBytesStay, Sound
    <3> QED
      BY <1>6, <3>1, <3>2, <3>3
  <2> QED
    BY <1>5, <2>1 DEF PublishedBytesStay
<1> QED
  BY <1>9, <1>10, <1>11, <1>12 DEF BytesInv

LEMMA RetainBytes ==
    ASSUME BytesInv, TypeInv', NEW w \in Pruners, Retain(w) \/ AbortPrune(w)
    PROVE  BytesInv'
<1>0. TypeInv /\ prune[w] \in PruneType
  BY DEF BytesInv, TypeInv, TypeOK
<1>1. CASE StartPrune(w)
  <2>1. PICK todo \in SUBSET Due : PruneGoes(w, Taking(todo))
    BY <1>0, <1>1, StartPruneStep
  <2>2. Taking(todo) \in PruneType /\ Taking(todo).pc = "attachments"
    BY TakingType DEF Due, Rows
  <2>3. UNCHANGED <<dvcVars, publication>>
    BY <1>1 DEF StartPrune
  <2> QED
    BY <2>1, <2>2, <2>3, AwayBytes
<1>2. ASSUME NEW f \in Paths, DeleteAttachment(w, f)
      PROVE  BytesInv'
  <2>1. PruneGoes(w, Dropped(prune[w], f)) /\ prune[w].pc = "attachments"
    BY <1>0, <1>2, DeleteAttachmentStep
  <2>2. Dropped(prune[w], f) \in PruneType /\ Dropped(prune[w], f).pc = "attachments"
    BY <1>0, <2>1, DroppedType
  <2>3. UNCHANGED <<dvcVars, publication>>
    BY <1>2 DEF DeleteAttachment
  <2> QED
    BY <2>1, <2>2, <2>3, AwayBytes
<1>3. CASE CommitPrune(w) \/ AbortPrune(w)
  <2>1. PruneGoes(w, NoPrune)
    BY <1>0, <1>3, EndPruneStep
  <2>2. UNCHANGED <<dvcVars, publication>>
    BY <1>3 DEF CommitPrune, AbortPrune
  <2> QED
    BY <2>1, <2>2, NoPruneType, AwayBytes
<1> QED
  BY <1>1, <1>2, <1>3, ReadProtectedBytes, ListObjectsBytes, DeleteObjectBytes DEF Retain

LEMMA InitBytes == Init => BytesInv
<1> SUFFICES ASSUME Init PROVE BytesInv
  OBVIOUS
<1>1. \A p \in Publications : publication[p].pc = "new"
  BY DEF Init, NoPublication
<1>2. TypeInv
  BY InitType
<1> QED
  BY <1>1, <1>2 DEF BytesInv, VerifiedIsSound, RaceIsNoticed, PublishedIsProtected,
                    PublishedBytesStay, Published

LEMMA BytesStep == BytesInv /\ [Next]_vars => BytesInv'
<1> SUFFICES ASSUME BytesInv, [Next]_vars PROVE BytesInv'
  OBVIOUS
<1>0. TypeInv /\ TypeInv'
  BY TypeStep DEF BytesInv
<1>1. ASSUME NEW k \in Keys, Push(k) \/ Grow(k)
      PROVE  BytesInv'
  <2>1. UNCHANGED <<publication, prune>>
    BY <1>1 DEF Push, Grow
  <2> QED
    BY <1>0, <1>1, <2>1, SoundStays, QuietBytes
<1>2. ASSUME NEW u \in Uploads, Attach(u)
      PROVE  BytesInv'
  <2>1. UNCHANGED <<publication, prune>> /\ UNCHANGED dvcVars
    BY <1>2 DEF Attach, StartUpload, PutObject, CommitUpload, LoseUpload
  <2> QED
    BY <1>0, <2>1, SoundStays, QuietBytes
<1>3. CASE EndRun \/ (\E f \in Paths : Expire(f)) \/ UNCHANGED vars
  <2>1. UNCHANGED <<publication, prune>> /\ UNCHANGED dvcVars
    BY <1>3 DEF EndRun, Expire, vars
  <2> QED
    BY <1>0, <2>1, SoundStays, QuietBytes
<1> QED
  BY <1>0, <1>1, <1>2, <1>3, ValidateBytes, RetainBytes DEF Next

-----------------------------------------------------------------------------
(* Rows match objects                                                      *)

\* The invariant of the next state, clause by clause.
RowNext(f) == attachment'[f].content # None
StrayNext(c) == \E u \in Uploads : upload'[u].content = c /\ upload'[u].pc \in {"commit", "broken"}

OneRowNext ==
    /\ \A f, g \in Paths :
          RowNext(f) /\ RowNext(g) /\ attachment'[f].content = attachment'[g].content => f = g
    /\ \A f \in Paths : attachment'[f].purged => RowNext(f)
DeletedNext ==
    \A w \in Pruners :
        /\ \A f \in prune'[w].todo \cup prune'[w].done : f \in Paths /\ RowNext(f) /\ f \in expired'
        /\ \A f \in prune'[w].done :
              attachment'[f].content \in stored' => StrayNext(attachment'[f].content)
PutNext ==
    \A u \in Uploads : upload'[u].pc = "commit" =>
        \/ upload'[u].content \in stored'
        \/ \E f \in Paths : RowNext(f) /\ attachment'[f].content = upload'[u].content
MatchNext ==
    /\ \A f \in Paths : RowNext(f) /\ ~attachment'[f].purged =>
          attachment'[f].content \in stored' \/ f \in expired'
    /\ \A c \in stored' :
          \/ \E f \in Paths : RowNext(f) /\ attachment'[f].content = c /\ ~attachment'[f].purged
          \/ StrayNext(c)

LEMMA RowsNow ==
    ASSUME TypeInv', OneRowNext, DeletedNext, PutNext, MatchNext
    PROVE  RowsInv'
<1>1. OneRowPerContent'
  BY DEF OneRowPerContent, OneRowNext, Rows, RowNext
<1>2. DeletedStaysAway'
  BY DEF DeletedStaysAway, DeletedNext, Rows, RowNext, Stray, StrayNext
<1>3. PutBeforeCommit'
  BY DEF PutBeforeCommit, PutNext, Rows, RowNext
<1>4. RowsMatchObjects'
  BY DEF RowsMatchObjects, MatchNext, Rows, RowNext, StrayNext, TypeInv
<1> QED
  BY <1>1, <1>2, <1>3, <1>4 DEF RowsInv

\* No request comes to its INSERT, none that is stray is forgotten.
UploadsStay ==
    /\ \A u \in Uploads : upload'[u].pc = "commit" =>
          upload[u].pc = "commit" /\ upload'[u].content = upload[u].content
    /\ \A u \in Uploads : upload[u].pc \in {"commit", "broken"} =>
          upload'[u].pc \in {"commit", "broken"} /\ upload'[u].content = upload[u].content

\* What a worker has deleted, no row and no object that is not stray.
LEMMA QuietRows ==
    ASSUME RowsInv, TypeInv', UploadsStay, UNCHANGED <<stored, attachment>>, expired \subseteq expired',
           \A w \in Pruners : /\ prune'[w].todo \subseteq Rows \cap expired'
                              /\ prune'[w].done \subseteq prune[w].done
    PROVE  RowsInv'
<1>1. \A f \in Paths : RowNext(f) <=> f \in Rows
  BY DEF RowNext, Rows
<1>2. \A c : Stray(c) => StrayNext(c)
  BY DEF Stray, StrayNext, UploadsStay
<1>3. OneRowNext
  BY <1>1 DEF RowsInv, OneRowPerContent, OneRowNext
<1>4. DeletedNext
  <2>1. ASSUME NEW w \in Pruners, NEW f \in prune'[w].todo \cup prune'[w].done
        PROVE  f \in Paths /\ RowNext(f) /\ f \in expired'
    <3>1. f \in Rows /\ f \in expired'
      BY <2>1 DEF RowsInv, DeletedStaysAway
    <3>2. f \in Paths
      BY <3>1 DEF Rows
    <3> QED
      BY <1>1, <3>1, <3>2
  <2>2. ASSUME NEW w \in Pruners, NEW f \in prune'[w].done, attachment'[f].content \in stored'
        PROVE  StrayNext(attachment'[f].content)
    <3>1. f \in prune[w].done /\ attachment[f].content \in stored
      BY <2>2
    <3>2. Stray(attachment[f].content)
      BY <3>1 DEF RowsInv, DeletedStaysAway
    <3> QED
      BY <1>2, <3>2
  <2> QED
    BY <2>1, <2>2 DEF DeletedNext
<1>5. PutNext
  <2>1. ASSUME NEW u \in Uploads, upload'[u].pc = "commit"
        PROVE  \/ upload'[u].content \in stored'
               \/ \E f \in Paths : RowNext(f) /\ attachment'[f].content = upload'[u].content
    <3>1. upload[u].pc = "commit" /\ upload'[u].content = upload[u].content
      BY <2>1 DEF UploadsStay
    <3>2. upload[u].content \in stored \/ \E f \in Rows : attachment[f].content = upload[u].content
      BY <3>1 DEF RowsInv, PutBeforeCommit
    <3> QED
      BY <3>1, <3>2 DEF Rows, RowNext
  <2> QED
    BY <2>1 DEF PutNext
<1>6. MatchNext
  <2>1. \A f \in Rows : ~attachment[f].purged => attachment[f].content \in stored \/ f \in expired
    BY DEF RowsInv, RowsMatchObjects
  <2>2. \A c \in stored :
          (\E f \in Rows : attachment[f].content = c /\ ~attachment[f].purged) \/ Stray(c)
    BY DEF RowsInv, RowsMatchObjects, Stray
  <2> QED
    BY <1>1, <1>2, <2>1, <2>2 DEF MatchNext, Rows
<1> QED
  BY <1>3, <1>4, <1>5, <1>6, RowsNow

\* A request that has put its object is stray until its INSERT.
LEMMA PutObjectRows ==
    ASSUME RowsInv, TypeInv', NEW u \in Uploads, PutObject(u)
    PROVE  RowsInv'
<1> DEFINE c == upload[u].content
<1>0. TypeInv
  BY DEF RowsInv
<1>1. /\ upload[u].pc = "put" /\ upload'[u].pc = "commit" /\ upload'[u].content = c
      /\ \A z \in Uploads \ {u} : upload'[z].pc = upload[z].pc /\ upload'[z].content = upload[z].content
  BY <1>0, PutObjectStep, MovedType DEF UploadGoes
<1>2. stored' = stored \cup {c} /\ UNCHANGED <<attachment, expired, prune>>
  BY DEF PutObject
<1> HIDE DEF c
<1>3. \A f \in Paths : RowNext(f) <=> f \in Rows
  BY <1>2 DEF RowNext, Rows
<1>4. StrayNext(c) /\ \A d : Stray(d) => StrayNext(d)
  BY <1>1 DEF Stray, StrayNext
<1>5. OneRowNext
  BY <1>2, <1>3 DEF RowsInv, OneRowPerContent, OneRowNext
<1>6. DeletedNext
  <2>1. \A w \in Pruners : prune'[w] = prune[w]
    BY <1>2
  <2>2. ASSUME NEW w \in Pruners, NEW f \in prune[w].todo \cup prune[w].done
        PROVE  f \in Paths /\ f \in Rows /\ f \in expired
    BY <2>2 DEF RowsInv, DeletedStaysAway, Rows
  <2>3. ASSUME NEW w \in Pruners, NEW f \in prune[w].done, attachment[f].content \in stored'
        PROVE  StrayNext(attachment[f].content)
    <3>1. attachment[f].content \in stored => Stray(attachment[f].content)
      BY DEF RowsInv, DeletedStaysAway
    <3> QED
      BY <1>2, <1>4, <2>3, <3>1
  <2> QED
    BY <1>2, <1>3, <2>1, <2>2, <2>3 DEF DeletedNext
<1>7. PutNext
  <2>1. ASSUME NEW z \in Uploads, upload'[z].pc = "commit"
        PROVE  \/ upload'[z].content \in stored'
               \/ \E f \in Paths : RowNext(f) /\ attachment'[f].content = upload'[z].content
    <3>1. CASE z = u
      BY <1>1, <1>2, <3>1
    <3>2. CASE z # u
      <4>1. upload[z].pc = "commit" /\ upload'[z].content = upload[z].content
        BY <1>1, <2>1, <3>2
      <4>2. upload[z].content \in stored \/ \E f \in Rows : attachment[f].content = upload[z].content
        BY <4>1 DEF RowsInv, PutBeforeCommit
      <4> QED
        BY <1>2, <4>1, <4>2 DEF Rows, RowNext
    <3> QED
      BY <3>1, <3>2
  <2> QED
    BY <2>1 DEF PutNext
<1>8. MatchNext
  <2>1. \A f \in Rows : ~attachment[f].purged => attachment[f].content \in stored \/ f \in expired
    BY DEF RowsInv, RowsMatchObjects
  <2>2. \A d \in stored :
          (\E f \in Rows : attachment[f].content = d /\ ~attachment[f].purged) \/ Stray(d)
    BY DEF RowsInv, RowsMatchObjects, Stray
  <2> QED
    BY <1>2, <1>3, <1>4, <2>1, <2>2 DEF MatchNext, Rows
<1> QED
  BY <1>5, <1>6, <1>7, <1>8, RowsNow

\* The row comes where there is none for its path and none for its content, so that its
\* object is there; or the upload becomes one that stays stray.
LEMMA CommitUploadRows ==
    ASSUME RowsInv, TypeInv', NEW u \in Uploads, CommitUpload(u)
    PROVE  RowsInv'
<1> DEFINE c == upload[u].content
           at == upload[u].path
<1>0. TypeInv
  BY DEF RowsInv
<1>1. /\ upload[u].pc = "commit" /\ upload[u] \in UploadType /\ at \in Paths /\ c \in Contents
      /\ \A f \in Paths : attachment'[f].purged <=> attachment[f].purged
      /\ \/ /\ Free(u)
            /\ UploadGoes(u, Moved(upload[u], "acked"))
            /\ attachment'[at].content = c
            /\ \A f \in Paths \ {at} : attachment'[f] = attachment[f]
         \/ /\ ~Free(u)
            /\ UploadGoes(u, Moved(upload[u], "broken"))
            /\ attachment' = attachment
  BY <1>0, CommitUploadStep
<1>2. UNCHANGED <<stored, expired, prune>>
  BY DEF CommitUpload
<1>3. CASE Free(u)
  <2>1. /\ attachment'[at].content = c
        /\ \A f \in Paths \ {at} : attachment'[f] = attachment[f]
        /\ upload'[u].pc = "acked"
        /\ \A z \in Uploads \ {u} :
              upload'[z].pc = upload[z].pc /\ upload'[z].content = upload[z].content
    BY <1>1, <1>3, MovedType DEF UploadGoes
  <2>2. at \notin Rows /\ \A f \in Rows : attachment[f].content # c
    BY <1>3 DEF Free
  <2> HIDE DEF c, at
  <2>3. \A f \in Paths : RowNext(f) <=> f = at \/ f \in Rows
    BY <1>1, <2>1, Sentinel DEF RowNext, Rows
  <2>4. \A d : d # c /\ Stray(d) => StrayNext(d)
    BY <2>1 DEF Stray, StrayNext, c
  <2>5. c \in stored
    BY <1>1, <2>2 DEF RowsInv, PutBeforeCommit, c
  <2>6. ~attachment'[at].purged
    BY <1>1, <2>2 DEF RowsInv, OneRowPerContent
  <2>7. OneRowNext
    <3>1. \A f, g \in Rows : attachment[f].content = attachment[g].content => f = g
      BY DEF RowsInv, OneRowPerContent
    <3>2. \A f \in Paths : attachment[f].purged => f \in Rows
      BY DEF RowsInv, OneRowPerContent
    <3>3. \A f \in Rows : f \in Paths /\ f # at /\ attachment'[f] = attachment[f]
      BY <2>1, <2>2 DEF Rows
    <3>4. \A f \in Paths : attachment'[f].purged => RowNext(f)
      BY <1>1, <2>3, <3>2
    <3>5. ASSUME NEW f \in Paths, NEW g \in Paths, RowNext(f), RowNext(g),
                 attachment'[f].content = attachment'[g].content
          PROVE  f = g
      <4>1. CASE f = at \/ g = at
        BY <2>1, <2>2, <2>3, <3>3, <3>5, <4>1
      <4>2. CASE f # at /\ g # at
        BY <2>3, <3>1, <3>3, <3>5, <4>2
      <4> QED
        BY <4>1, <4>2
    <3> QED
      BY <3>4, <3>5 DEF OneRowNext
  <2>8. DeletedNext
    <3>1. \A w \in Pruners : prune'[w] = prune[w]
      BY <1>2
    <3>2. ASSUME NEW w \in Pruners, NEW f \in prune[w].todo \cup prune[w].done
          PROVE  f \in Paths /\ f \in Rows /\ f \in expired
      BY <3>2 DEF RowsInv, DeletedStaysAway, Rows
    <3>3. ASSUME NEW w \in Pruners, NEW f \in prune[w].done, attachment'[f].content \in stored
          PROVE  StrayNext(attachment'[f].content)
      <4>1. f \in Paths /\ f \in Rows
        BY <3>2, <3>3
      <4>2. attachment'[f] = attachment[f] /\ attachment[f].content # c
        BY <2>1, <2>2, <4>1
      <4>3. Stray(attachment[f].content)
        BY <3>3, <4>2 DEF RowsInv, DeletedStaysAway
      <4> QED
        BY <2>4, <4>2, <4>3
    <3> QED
      BY <1>2, <2>3, <3>1, <3>2, <3>3 DEF DeletedNext
  <2>9. PutNext
    <3>1. ASSUME NEW z \in Uploads, upload'[z].pc = "commit"
          PROVE  \/ upload'[z].content \in stored'
                 \/ \E f \in Paths : RowNext(f) /\ attachment'[f].content = upload'[z].content
      <4>1. upload[z].pc = "commit" /\ upload'[z].content = upload[z].content
        BY <2>1, <3>1
      <4>2. CASE upload[z].content \in stored
        BY <1>2, <4>1, <4>2
      <4>3. CASE \E f \in Rows : attachment[f].content = upload[z].content
        <5>1. PICK f \in Rows : attachment[f].content = upload[z].content
          BY <4>3
        <5>2. f \in Paths /\ RowNext(f) /\ attachment'[f] = attachment[f]
          BY <2>1, <2>2, <2>3 DEF Rows
        <5> QED
          BY <4>1, <5>1, <5>2
      <4> QED
        BY <4>1, <4>2, <4>3 DEF RowsInv, PutBeforeCommit
    <3> QED
      BY <3>1 DEF PutNext
  <2>10. MatchNext
    <3>1. \A f \in Rows : ~attachment[f].purged => attachment[f].content \in stored \/ f \in expired
      BY DEF RowsInv, RowsMatchObjects
    <3>2. \A d \in stored :
          (\E f \in Rows : attachment[f].content = d /\ ~attachment[f].purged) \/ Stray(d)
      BY DEF RowsInv, RowsMatchObjects, Stray
    <3>3. \A f \in Rows : f \in Paths /\ RowNext(f) /\ attachment'[f] = attachment[f]
      BY <2>1, <2>2, <2>3 DEF Rows
    <3>4. ASSUME NEW f \in Paths, RowNext(f), ~attachment'[f].purged
          PROVE  attachment'[f].content \in stored' \/ f \in expired'
      BY <1>2, <2>1, <2>3, <2>5, <3>1, <3>3, <3>4
    <3>5. ASSUME NEW d \in stored
          PROVE  \/ \E f \in Paths : RowNext(f) /\ attachment'[f].content = d /\ ~attachment'[f].purged
                 \/ StrayNext(d)
      <4>1. CASE d = c
        BY <1>1, <2>1, <2>3, <2>6, <4>1
      <4>2. CASE d # c
        BY <2>4, <3>2, <3>3, <4>2
      <4> QED
        BY <4>1, <4>2
    <3> QED
      BY <1>2, <3>4, <3>5 DEF MatchNext
  <2> QED
    BY <2>7, <2>8, <2>9, <2>10, RowsNow
<1>4. CASE ~Free(u)
  <2>1. /\ attachment' = attachment
        /\ upload'[u].pc = "broken" /\ upload'[u].content = upload[u].content
        /\ \A z \in Uploads \ {u} :
              upload'[z].pc = upload[z].pc /\ upload'[z].content = upload[z].content
    BY <1>1, <1>4, MovedType DEF UploadGoes
  <2>2. UploadsStay
    BY <2>1 DEF UploadsStay
  <2>3. \A w \in Pruners : prune[w].todo \subseteq Rows \cap expired
    BY DEF RowsInv, DeletedStaysAway
  <2>4. \A w \in Pruners : prune'[w].todo \subseteq Rows \cap expired' /\ prune'[w].done \subseteq prune[w].done
    BY <1>2, <2>3
  <2> QED
    BY <1>2, <2>1, <2>2, <2>4, QuietRows
<1> QED
  BY <1>3, <1>4

\* The object that goes is that of an old row; the other rows have contents of their own.
LEMMA DeleteAttachmentRows ==
    ASSUME RowsInv, TypeInv', NEW w \in Pruners, NEW f \in Paths, DeleteAttachment(w, f)
    PROVE  RowsInv'
<1> DEFINE c == attachment[f].content
<1>0. TypeInv
  BY DEF RowsInv
<1>1. f \in prune[w].todo /\ prune[w] \in PruneType /\ PruneGoes(w, Dropped(prune[w], f))
  BY <1>0, DeleteAttachmentStep
<1>2. /\ prune'[w].todo \subseteq prune[w].todo /\ prune'[w].done = prune[w].done \cup {f}
      /\ \A z \in Pruners \ {w} : prune'[z] = prune[z]
  BY <1>1, DroppedType DEF PruneGoes
<1>3. stored' = stored \ {c} /\ UNCHANGED <<attachment, expired, upload>>
  BY DEF DeleteAttachment
<1>4. f \in Rows /\ f \in expired
  BY <1>1 DEF RowsInv, DeletedStaysAway
<1> HIDE DEF c
<1>5. \A g \in Paths : RowNext(g) <=> g \in Rows
  BY <1>3 DEF RowNext, Rows
<1>6. \A d : Stray(d) => StrayNext(d)
  BY <1>3 DEF Stray, StrayNext
<1>7. OneRowNext
  BY <1>3, <1>5 DEF RowsInv, OneRowPerContent, OneRowNext
<1>8. DeletedNext
  <2>1. ASSUME NEW z \in Pruners, NEW g \in prune'[z].todo \cup prune'[z].done
        PROVE  g \in Paths /\ g \in Rows /\ g \in expired
    <3>1. g = f \/ g \in prune[z].todo \cup prune[z].done
      BY <1>2
    <3> QED
      BY <1>4, <3>1 DEF RowsInv, DeletedStaysAway, Rows
  <2>2. ASSUME NEW z \in Pruners, NEW g \in prune'[z].done, attachment[g].content \in stored'
        PROVE  StrayNext(attachment[g].content)
    <3>1. attachment[g].content \in stored /\ g # f
      BY <1>3, <2>2 DEF c
    <3>2. g \in prune[z].done
      BY <1>2, <3>1
    <3>3. Stray(attachment[g].content)
      BY <3>1, <3>2 DEF RowsInv, DeletedStaysAway
    <3> QED
      BY <1>6, <3>3
  <2> QED
    BY <1>3, <1>5, <2>1, <2>2 DEF DeletedNext
<1>9. PutNext
  <2>1. ASSUME NEW u \in Uploads, upload[u].pc = "commit"
        PROVE  \/ upload[u].content \in stored'
               \/ \E g \in Paths : g \in Rows /\ attachment[g].content = upload[u].content
    <3>1. upload[u].content \in stored \/ \E g \in Rows : attachment[g].content = upload[u].content
      BY <2>1 DEF RowsInv, PutBeforeCommit
    <3> QED
      BY <1>3, <1>4, <3>1 DEF Rows, c
  <2> QED
    BY <1>3, <1>5, <2>1 DEF PutNext
<1>10. MatchNext
  <2>1. ASSUME NEW g \in Paths, g \in Rows, ~attachment[g].purged
        PROVE  attachment[g].content \in stored' \/ g \in expired
    <3>1. CASE g = f
      BY <1>4, <3>1
    <3>2. CASE g # f
      <4>1. attachment[g].content # c
        BY <1>4, <2>1, <3>2 DEF RowsInv, OneRowPerContent, c
      <4> QED
        BY <1>3, <2>1, <4>1 DEF RowsInv, RowsMatchObjects
    <3> QED
      BY <3>1, <3>2
  <2>2. \A d \in stored :
          (\E g \in Rows : attachment[g].content = d /\ ~attachment[g].purged) \/ Stray(d)
    BY DEF RowsInv, RowsMatchObjects, Stray
  <2> QED
    BY <1>3, <1>5, <1>6, <2>1, <2>2 DEF MatchNext, Rows
<1> QED
  BY <1>7, <1>8, <1>9, <1>10, RowsNow

\* A row that is marked has lost its object, unless the object is stray.
LEMMA CommitPruneRows ==
    ASSUME RowsInv, TypeInv', NEW w \in Pruners, CommitPrune(w)
    PROVE  RowsInv'
<1>0. TypeInv
  BY DEF RowsInv
<1>1. \A f \in Paths : /\ attachment'[f].content = attachment[f].content
                       /\ attachment'[f].purged <=> attachment[f].purged \/ f \in prune[w].done
  BY <1>0, CommitPruneStep
<1>2. PruneGoes(w, NoPrune)
  BY <1>0, EndPruneStep
<1>3. /\ prune'[w].todo = {} /\ prune'[w].done = {}
      /\ \A z \in Pruners \ {w} : prune'[z] = prune[z]
  BY <1>2, NoPruneType DEF PruneGoes
<1>4. UNCHANGED <<stored, expired, upload>>
  BY DEF CommitPrune
<1>5. \A g \in Paths : RowNext(g) <=> g \in Rows
  BY <1>1 DEF RowNext, Rows
<1>6. \A d : Stray(d) => StrayNext(d)
  BY <1>4 DEF Stray, StrayNext
<1>7. \A f \in prune[w].done : f \in Paths /\ f \in Rows
  BY DEF RowsInv, DeletedStaysAway, Rows
<1>8. OneRowNext
  <2>1. \A f, g \in Paths :
          RowNext(f) /\ RowNext(g) /\ attachment'[f].content = attachment'[g].content => f = g
    BY <1>1, <1>5 DEF RowsInv, OneRowPerContent
  <2>2. \A f \in Paths : attachment[f].purged => f \in Rows
    BY DEF RowsInv, OneRowPerContent
  <2>3. \A f \in Paths : attachment'[f].purged => RowNext(f)
    BY <1>1, <1>5, <1>7, <2>2
  <2> QED
    BY <2>1, <2>3 DEF OneRowNext
<1>9. DeletedNext
  <2>1. ASSUME NEW z \in Pruners, NEW g \in prune'[z].todo \cup prune'[z].done
        PROVE  g \in Paths /\ g \in Rows /\ g \in expired
    <3>1. g \in prune[z].todo \cup prune[z].done
      BY <1>3
    <3> QED
      BY <3>1 DEF RowsInv, DeletedStaysAway, Rows
  <2>2. ASSUME NEW z \in Pruners, NEW g \in prune'[z].done, attachment'[g].content \in stored
        PROVE  StrayNext(attachment'[g].content)
    <3>1. g \in prune[z].done /\ attachment'[g].content = attachment[g].content
      BY <1>1, <1>3, <2>1
    <3>2. Stray(attachment[g].content)
      BY <2>2, <3>1 DEF RowsInv, DeletedStaysAway
    <3> QED
      BY <1>6, <3>1, <3>2
  <2> QED
    BY <1>4, <1>5, <2>1, <2>2 DEF DeletedNext
<1>10. PutNext
  <2>1. ASSUME NEW u \in Uploads, upload[u].pc = "commit"
        PROVE  \/ upload[u].content \in stored
               \/ \E g \in Paths : g \in Rows /\ attachment'[g].content = upload[u].content
    BY <1>1, <2>1 DEF RowsInv, PutBeforeCommit, Rows
  <2> QED
    BY <1>4, <1>5, <2>1 DEF PutNext
<1>11. MatchNext
  <2>1. \A f \in Rows : ~attachment[f].purged => attachment[f].content \in stored \/ f \in expired
    BY DEF RowsInv, RowsMatchObjects
  <2>2. ASSUME NEW d \in stored
        PROVE  \/ \E g \in Paths : RowNext(g) /\ attachment'[g].content = d /\ ~attachment'[g].purged
               \/ StrayNext(d)
    <3>1. CASE Stray(d)
      BY <1>6, <3>1
    <3>2. ASSUME NEW g \in Rows, attachment[g].content = d, ~attachment[g].purged
          PROVE  \/ \E e \in Paths : RowNext(e) /\ attachment'[e].content = d /\ ~attachment'[e].purged
                 \/ StrayNext(d)
      <4>1. g \in Paths
        BY DEF Rows
      <4>2. CASE g \in prune[w].done
        BY <1>6, <3>2, <4>2 DEF RowsInv, DeletedStaysAway
      <4>3. CASE g \notin prune[w].done
        BY <1>1, <1>5, <3>2, <4>1, <4>3
      <4> QED
        BY <4>2, <4>3
    <3> QED
      BY <3>1, <3>2 DEF RowsInv, RowsMatchObjects, Stray
  <2>3. \A f \in Paths : RowNext(f) /\ ~attachment'[f].purged =>
            attachment'[f].content \in stored' \/ f \in expired'
    BY <1>1, <1>4, <1>5, <2>1
  <2> QED
    BY <1>4, <2>2, <2>3 DEF MatchNext
<1> QED
  BY <1>8, <1>9, <1>10, <1>11, RowsNow

\* The other steps of a worker leave rows and objects alone.
LEMMA RetainRows ==
    ASSUME RowsInv, TypeInv', NEW w \in Pruners, Retain(w) \/ AbortPrune(w)
    PROVE  RowsInv'
<1>0. TypeInv /\ prune[w] \in PruneType
  BY DEF RowsInv, TypeInv, TypeOK
<1>1. \A z \in Pruners : prune[z].todo \subseteq Rows \cap expired
  BY DEF RowsInv, DeletedStaysAway
<1>2. ASSUME NEW q \in PruneType, PruneGoes(w, q), UNCHANGED <<fileVars, upload>>,
             q.todo \subseteq Rows \cap expired, q.done \subseteq prune[w].done
      PROVE  RowsInv'
  <2>1. UNCHANGED <<stored, attachment, expired>> /\ UploadsStay
    BY <1>2 DEF fileVars, UploadsStay
  <2>2. \A z \in Pruners : /\ prune'[z].todo \subseteq Rows \cap expired'
                           /\ prune'[z].done \subseteq prune[z].done
    BY <1>1, <1>2, <2>1 DEF PruneGoes
  <2> QED
    BY <2>1, <2>2, QuietRows
<1>3. CASE StartPrune(w)
  <2>1. PICK todo \in SUBSET Due : PruneGoes(w, Taking(todo))
    BY <1>0, <1>3, StartPruneStep
  <2>2. /\ Taking(todo) \in PruneType
        /\ Taking(todo).todo \subseteq Rows \cap expired /\ Taking(todo).done = {}
    BY TakingType DEF Due, Rows
  <2>3. UNCHANGED <<fileVars, upload>>
    BY <1>3 DEF StartPrune
  <2> QED
    BY <1>2, <2>1, <2>2, <2>3
<1>4. CASE ReadProtected(w)
  <2>1. PICK pc \in {"objects", "commit"} : PruneGoes(w, Holding(prune[w], pc, PublishedObjectKeys))
    BY <1>0, <1>4, ReadProtectedStep
  <2>2. PICK q \in PruneType : /\ PruneGoes(w, q)
                               /\ q.todo = prune[w].todo /\ q.done = prune[w].done
    BY <1>0, <2>1, ProtectedType, HoldingType
  <2>3. UNCHANGED <<fileVars, upload>>
    BY <1>4 DEF ReadProtected
  <2> QED
    BY <1>1, <1>2, <2>2, <2>3
<1>5. CASE ListObjects(w)
  <2>1. PICK keys \in SUBSET (Keys \ prune[w].keys) : PruneGoes(w, Holding(prune[w], "deleting", keys))
    BY <1>0, <1>5, ListObjectsStep
  <2>2. PICK q \in PruneType : /\ PruneGoes(w, q)
                               /\ q.todo = prune[w].todo /\ q.done = prune[w].done
    BY <1>0, <2>1, HoldingType
  <2>3. UNCHANGED <<fileVars, upload>>
    BY <1>5 DEF ListObjects
  <2> QED
    BY <1>1, <1>2, <2>2, <2>3
<1>6. ASSUME NEW k \in Keys, DeleteObject(w, k)
      PROVE  RowsInv'
  <2>1. PICK keys \in SUBSET prune[w].keys, n \in Nat : PruneGoes(w, Freed(prune[w], keys, n))
    BY <1>0, <1>6, DeleteObjectStep
  <2>2. keys \in SUBSET Keys
    BY <1>0 DEF PruneType
  <2>3. PICK q \in PruneType : /\ PruneGoes(w, q)
                               /\ q.todo = prune[w].todo /\ q.done = prune[w].done
    BY <1>0, <2>1, <2>2, FreedType
  <2>4. UNCHANGED <<fileVars, upload>>
    BY <1>6 DEF DeleteObject
  <2> QED
    BY <1>1, <1>2, <2>3, <2>4
<1>7. CASE AbortPrune(w)
  <2>1. PruneGoes(w, NoPrune)
    BY <1>0, <1>7, EndPruneStep
  <2>2. UNCHANGED <<fileVars, upload>>
    BY <1>7 DEF AbortPrune
  <2> QED
    BY <1>2, <2>1, <2>2, NoPruneType
<1> QED
  BY <1>3, <1>4, <1>5, <1>6, <1>7, DeleteAttachmentRows, CommitPruneRows DEF Retain

LEMMA AttachRows ==
    ASSUME RowsInv, TypeInv', NEW u \in Uploads, Attach(u)
    PROVE  RowsInv'
<1>0. TypeInv
  BY DEF RowsInv
<1>1. ASSUME UploadsStay, UNCHANGED <<fileVars, prune>>
      PROVE  RowsInv'
  <2>1. UNCHANGED <<stored, attachment, expired>>
    BY <1>1 DEF fileVars
  <2>2. \A w \in Pruners : /\ prune'[w].todo \subseteq Rows \cap expired'
                           /\ prune'[w].done \subseteq prune[w].done
    BY <1>1, <2>1 DEF RowsInv, DeletedStaysAway
  <2> QED
    BY <1>1, <2>1, <2>2, QuietRows
<1>2. ASSUME NEW f \in Paths, NEW c \in Contents, StartUpload(u, f, c)
      PROVE  RowsInv'
  <2>1. /\ upload[u].pc = "new"
        /\ upload'[u].pc \in {"refused", "acked", "put"}
        /\ \A z \in Uploads \ {u} :
              upload'[z].pc = upload[z].pc /\ upload'[z].content = upload[z].content
    BY <1>0, <1>2, StartUploadStep DEF UploadGoes
  <2>2. UploadsStay
    BY <2>1 DEF UploadsStay
  <2>3. UNCHANGED <<fileVars, prune>>
    BY <1>2 DEF StartUpload
  <2> QED
    BY <1>1, <2>2, <2>3
<1>3. CASE LoseUpload(u)
  <2>1. /\ upload'[u].pc = "broken" /\ upload'[u].content = upload[u].content
        /\ \A z \in Uploads \ {u} :
              upload'[z].pc = upload[z].pc /\ upload'[z].content = upload[z].content
    BY <1>0, <1>3, LoseUploadStep, MovedType DEF UploadGoes
  <2>2. UploadsStay
    BY <2>1 DEF UploadsStay
  <2>3. UNCHANGED <<fileVars, prune>>
    BY <1>3 DEF LoseUpload
  <2> QED
    BY <1>1, <2>2, <2>3
<1> QED
  BY <1>2, <1>3, PutObjectRows, CommitUploadRows DEF Attach

LEMMA InitRows == Init => RowsInv
<1> SUFFICES ASSUME Init PROVE RowsInv
  OBVIOUS
<1>1. /\ \A f \in Paths : attachment[f].content = None /\ ~attachment[f].purged
      /\ \A w \in Pruners : prune[w].todo = {} /\ prune[w].done = {}
      /\ \A u \in Uploads : upload[u].pc = "new"
      /\ stored = {}
  BY NoPruneType DEF Init, NoRow
<1>2. TypeInv /\ Rows = {}
  BY <1>1, InitType DEF Rows
<1> QED
  BY <1>1, <1>2 DEF RowsInv, TypeInv, OneRowPerContent, DeletedStaysAway, PutBeforeCommit,
                    RowsMatchObjects

LEMMA RowsStep == RowsInv /\ [Next]_vars => RowsInv'
<1> SUFFICES ASSUME RowsInv, [Next]_vars PROVE RowsInv'
  OBVIOUS
<1>0. TypeInv /\ TypeInv'
  BY TypeStep DEF RowsInv
<1>1. ASSUME UNCHANGED <<stored, attachment, upload, prune>>, expired \subseteq expired'
      PROVE  RowsInv'
  <2>1. UploadsStay
    BY <1>1 DEF UploadsStay
  <2>2. \A w \in Pruners : /\ prune'[w].todo \subseteq Rows \cap expired'
                           /\ prune'[w].done \subseteq prune[w].done
    BY <1>1 DEF RowsInv, DeletedStaysAway
  <2> QED
    BY <1>0, <1>1, <2>1, <2>2, QuietRows
<1>2. CASE \/ EndRun \/ (\E f \in Paths : Expire(f)) \/ UNCHANGED vars
           \/ \E k \in Keys : Push(k) \/ Grow(k)
  BY <1>1, <1>2 DEF EndRun, Expire, Push, Grow, vars, fileVars
<1>3. ASSUME NEW p \in Publications, Validate(p)
      PROVE  RowsInv'
  BY <1>1, <1>3 DEF Validate, StartValidation, Verify, FailValidation, Publish, fileVars
<1> QED
  BY <1>0, <1>2, <1>3, AttachRows, RetainRows DEF Next

-----------------------------------------------------------------------------
(* Sums over finite sets                                                   *)
(*                                                                         *)
(* The library adds up by recursion on the set, taking a chosen element    *)
(* out of it at each step. That the recursion is defined, and what it      *)
(* computes, is shown by a minimal counterexample: a set of numbers, or a  *)
(* set of subsets of a finite set, has a least element, by the library's   *)
(* theorem on well-founded orderings.                                      *)

\* The element the sum takes out of a set, one step of the sum, and all its steps.
Pick(s) == CHOOSE x \in s : TRUE
Step(f, g, s) == IF s = {} THEN 0 ELSE f[Pick(s)] + g[s \ {Pick(s)}]
Iter(f, S) == CHOOSE g : g = [s \in SUBSET S |-> Step(f, g, s)]

\* The sum is the value of its recursion at the whole set.
LEMMA Unfold ==
    ASSUME NEW f, NEW S
    PROVE SumFunctionOnSet(f, S) = Iter(f, S)[S]
BY DEF SumFunctionOnSet, FoldFunctionOnSet, MapThenFoldSet, Iter, Step, Pick

\* A set of numbers has a least one.
LEMMA NatMin ==
    ASSUME NEW T \in SUBSET Nat, T # {}
    PROVE  \E n \in T : \A m \in T : n <= m
<1>1. PICK n \in T : \A m \in T : <<m, n>> \notin OpToRel(<, Nat)
  BY NatLessThanWellFounded, WFMin
<1>2. \A m \in T : ~(m < n)
  BY <1>1 DEF OpToRel
<1> QED
  BY <1>2

\* A set of subsets of a finite set has a minimal one.
LEMMA SetMin ==
    ASSUME NEW U, IsFiniteSet(U), NEW B \in SUBSET (SUBSET U), B # {}
    PROVE  \E S \in B : \A T \in B : T \subseteq S => T = S
<1>1. IsWellFoundedOn(StrictSubsetOrdering(U), SUBSET U)
  BY FS_StrictSubsetOrderingWellFounded, FS_FiniteSubsetsOfFinite
<1>2. PICK S \in B : \A T \in B : <<T, S>> \notin StrictSubsetOrdering(U)
  BY <1>1, WFMin
<1> QED
  BY <1>2 DEF StrictSubsetOrdering

\* A step of the sum leaves a set that is smaller by one element.
LEMMA Smaller ==
    ASSUME NEW s, IsFiniteSet(s), s # {}
    PROVE  /\ Pick(s) \in s /\ IsFiniteSet(s \ {Pick(s)})
           /\ Cardinality(s) \in Nat /\ Cardinality(s \ {Pick(s)}) = Cardinality(s) - 1
           /\ Cardinality(s) # 0
<1>1. Pick(s) \in s
  BY DEF Pick
<1> QED
  BY <1>1, FS_RemoveElement, FS_CardinalityType, FS_EmptySet

\* The recursion is defined: for the subsets of up to n elements, for any n.
LEMMA IterDefined ==
    ASSUME NEW U, IsFiniteSet(U), NEW f, \A x \in U : f[x] \in Nat
    PROVE  Iter(f, U) = [s \in SUBSET U |-> Step(f, Iter(f, U), s)]
<1> DEFINE Upto(g, n) == \A s \in SUBSET U : Cardinality(s) <= n => g[s] = Step(f, g, s)
           Bad == {n \in Nat : ~\E g \in [SUBSET U -> Nat] : Upto(g, n)}
<1>0. \A s \in SUBSET U : IsFiniteSet(s) /\ Cardinality(s) \in Nat /\ (Cardinality(s) = 0 => s = {})
  BY FS_Subset, FS_CardinalityType, FS_EmptySet
<1>1. Bad = {}
  <2> SUFFICES ASSUME Bad # {} PROVE FALSE
    OBVIOUS
  <2>1. PICK n \in Bad : \A m \in Bad : n <= m
    BY NatMin
  <2>2. n \in Nat /\ ~\E g \in [SUBSET U -> Nat] : Upto(g, n)
    OBVIOUS
  <2>3. n # 0
    <3> SUFFICES ASSUME n = 0 PROVE FALSE
      OBVIOUS
    <3> DEFINE g == [s \in SUBSET U |-> 0]
    <3>1. g \in [SUBSET U -> Nat]
      OBVIOUS
    <3>2. ASSUME NEW s \in SUBSET U, Cardinality(s) <= n
          PROVE  g[s] = Step(f, g, s)
      <4>1. s = {}
        BY <1>0, <3>2
      <4> QED
        BY <4>1 DEF Step
    <3> QED
      BY <2>2, <3>1, <3>2
  <2>4. n - 1 \in Nat /\ n - 1 \notin Bad
    <3>1. n - 1 \in Nat
      BY <2>2, <2>3
    <3> HIDE DEF Bad
    <3>2. ~(n <= n - 1)
      BY <2>2
    <3> QED
      BY <2>1, <3>1, <3>2
  <2>5. PICK g \in [SUBSET U -> Nat] : Upto(g, n - 1)
    BY <2>4
  <2> DEFINE h == [s \in SUBSET U |-> IF Cardinality(s) <= n - 1 THEN g[s] ELSE Step(f, g, s)]
  <2>6. \A s \in SUBSET U : Step(f, g, s) \in Nat
    <3>1. \A s \in SUBSET U : s # {} => Pick(s) \in s
      BY DEF Pick
    <3> QED
      BY <3>1 DEF Step
  <2>7. h \in [SUBSET U -> Nat]
    BY <2>6
  <2>8. ASSUME NEW s \in SUBSET U, Cardinality(s) <= n
        PROVE  h[s] = Step(f, h, s)
    <3>1. h[s] = Step(f, g, s)
      BY <2>5
    <3>2. CASE s = {}
      BY <3>1, <3>2 DEF Step
    <3>3. CASE s # {}
      <4>1. s \ {Pick(s)} \in SUBSET U /\ Cardinality(s \ {Pick(s)}) <= n - 1
        BY <1>0, <2>2, <2>8, <3>3, Smaller
      <4>2. h[s \ {Pick(s)}] = g[s \ {Pick(s)}]
        BY <4>1
      <4> QED
        BY <3>1, <3>3, <4>2 DEF Step
    <3> QED
      BY <3>2, <3>3
  <2> QED
    BY <2>2, <2>7, <2>8
<1>2. PICK g \in [SUBSET U -> Nat] : Upto(g, Cardinality(U))
  BY <1>0, <1>1
<1>3. \A s \in SUBSET U : Cardinality(s) <= Cardinality(U)
  BY FS_Subset
<1>4. g = [s \in SUBSET U |-> Step(f, g, s)]
  BY <1>2, <1>3
<1> QED
  BY <1>4 DEF Iter

\* A sum of numbers is a number.
LEMMA IterNat ==
    ASSUME NEW U, IsFiniteSet(U), NEW f, \A x \in U : f[x] \in Nat
    PROVE  \A s \in SUBSET U : Iter(f, U)[s] \in Nat
<1> DEFINE G == Iter(f, U)
           Bad == {s \in SUBSET U : G[s] \notin Nat}
<1>0. G = [s \in SUBSET U |-> Step(f, G, s)]
  BY IterDefined
<1>1. \A s \in SUBSET U : G[s] = Step(f, G, s)
  <2> HIDE DEF G
  <2> QED
    BY <1>0
<1> HIDE DEF G
<1> SUFFICES ASSUME Bad # {} PROVE FALSE
  BY DEF G
<1>2. PICK s \in Bad : \A t \in Bad : t \subseteq s => t = s
  <2>1. Bad \in SUBSET (SUBSET U) /\ Bad # {}
    OBVIOUS
  <2> HIDE DEF Bad
  <2> QED
    BY <2>1, SetMin
<1>3. s \in SUBSET U /\ G[s] \notin Nat /\ G[s] = Step(f, G, s)
  BY <1>1
<1>4. s # {}
  BY <1>3 DEF Step
<1>5. PICK p \in s : p = Pick(s)
  BY <1>4 DEF Pick
<1>6. s \ {p} \in SUBSET U /\ s \ {p} \notin Bad
  BY <1>2, <1>3
<1>7. G[s \ {p}] \in Nat /\ f[p] \in Nat
  BY <1>3, <1>6
<1>8. G[s] = f[p] + G[s \ {p}]
  BY <1>3, <1>4, <1>5 DEF Step
<1> QED
  BY <1>3, <1>7, <1>8

\* The sum over a subset may be read off the recursion over the whole set.
LEMMA SumIsIter ==
    ASSUME NEW U, IsFiniteSet(U), NEW f, \A x \in U : f[x] \in Nat, NEW S \in SUBSET U
    PROVE  SumFunctionOnSet(f, S) = Iter(f, U)[S]
<1> DEFINE G == Iter(f, U)
           H == Iter(f, S)
           Bad == {s \in SUBSET S : G[s] # H[s]}
<1>0. G = [s \in SUBSET U |-> Step(f, G, s)]
  BY IterDefined
<1>1. \A s \in SUBSET U : G[s] = Step(f, G, s)
  <2> HIDE DEF G
  <2> QED
    BY <1>0
<1>2. IsFiniteSet(S)
  BY FS_Subset
<1>3. H = [s \in SUBSET S |-> Step(f, H, s)]
  BY <1>2, IterDefined
<1>6. \A s \in SUBSET S : H[s] = Step(f, H, s)
  <2> HIDE DEF H
  <2> QED
    BY <1>3
<1> HIDE DEF G, H
<1>4. Bad = {}
  <2> SUFFICES ASSUME Bad # {} PROVE FALSE
    OBVIOUS
  <2>1. PICK s \in Bad : \A t \in Bad : t \subseteq s => t = s
    <3>1. Bad \in SUBSET (SUBSET S) /\ Bad # {}
      OBVIOUS
    <3> HIDE DEF Bad
    <3> QED
      BY <1>2, <3>1, SetMin
  <2>2. s # {}
    BY <1>1, <1>6 DEF Step
  <2>3. Pick(s) \in s /\ s \ {Pick(s)} \in SUBSET S /\ s \ {Pick(s)} \notin Bad
    BY <2>1, <2>2 DEF Pick
  <2> QED
    BY <1>1, <1>6, <2>2, <2>3 DEF Step
<1>5. G[S] = H[S]
  BY <1>4
<1> QED
  BY <1>5, Unfold DEF G, H

\* An element of the set, whichever it is, adds its number to the sum of the others.
LEMMA SumAdd ==
    ASSUME NEW U, IsFiniteSet(U), NEW f, \A x \in U : f[x] \in Nat
    PROVE  /\ SumFunctionOnSet(f, {}) = 0
           /\ \A S \in SUBSET U :
                 /\ SumFunctionOnSet(f, S) \in Nat
                 /\ \A x \in S : SumFunctionOnSet(f, S) = f[x] + SumFunctionOnSet(f, S \ {x})
<1> DEFINE G == Iter(f, U)
           Bad == {S \in SUBSET U : \E x \in S : G[S] # f[x] + G[S \ {x}]}
<1>0. G = [s \in SUBSET U |-> Step(f, G, s)]
  BY IterDefined
<1>1. \A s \in SUBSET U : G[s] = Step(f, G, s)
  <2> HIDE DEF G
  <2> QED
    BY <1>0
<1>2. \A s \in SUBSET U : G[s] \in Nat
  BY IterNat
<1>3. \A S \in SUBSET U : SumFunctionOnSet(f, S) = G[S]
  BY SumIsIter
<1> HIDE DEF G
<1>4. Bad = {}
  <2> SUFFICES ASSUME Bad # {} PROVE FALSE
    OBVIOUS
  <2>1. PICK S \in Bad : \A T \in Bad : T \subseteq S => T = S
    <3>1. Bad \in SUBSET (SUBSET U) /\ Bad # {}
      OBVIOUS
    <3> HIDE DEF Bad
    <3> QED
      BY <3>1, SetMin
  <2>2. PICK x \in S : G[S] # f[x] + G[S \ {x}]
    OBVIOUS
  <2>3. PICK p \in S : p = Pick(S) /\ G[S] = f[p] + G[S \ {p}]
    BY <1>1, <2>2 DEF Step, Pick
  <2>4. p # x
    BY <2>2, <2>3
  <2>5. S \ {p} \in SUBSET U /\ S \ {x} \in SUBSET U /\ S \ {p} \notin Bad /\ S \ {x} \notin Bad
    BY <2>1, <2>2, <2>3
  <2>6. G[S \ {p}] = f[x] + G[(S \ {p}) \ {x}]
    BY <2>2, <2>4, <2>5
  <2>7. G[S \ {x}] = f[p] + G[(S \ {x}) \ {p}]
    BY <2>3, <2>4, <2>5
  <2>8. (S \ {p}) \ {x} = (S \ {x}) \ {p} /\ (S \ {p}) \ {x} \in SUBSET U
    OBVIOUS
  <2>9. f[x] \in Nat /\ f[p] \in Nat /\ G[(S \ {p}) \ {x}] \in Nat
    BY <1>2, <2>8
  <2>10. \A a, b, c \in Nat : a + (b + c) = b + (a + c)
    OBVIOUS
  <2>11. G[S] = f[p] + (f[x] + G[(S \ {p}) \ {x}])
    BY <2>3, <2>6
  <2>12. G[S \ {x}] = f[p] + G[(S \ {p}) \ {x}]
    BY <2>7, <2>8
  <2>13. G[S] = f[x] + G[S \ {x}]
    BY <2>9, <2>10, <2>11, <2>12
  <2> QED
    BY <2>2, <2>13
<1>5. G[{}] = 0 /\ {} \in SUBSET U
  BY <1>1 DEF Step
<1> QED
  BY <1>2, <1>3, <1>4, <1>5

\* Two functions that agree on a set have the same sum over it.
LEMMA SumSame ==
    ASSUME NEW U, IsFiniteSet(U), NEW f, NEW g, \A x \in U : f[x] \in Nat /\ g[x] = f[x]
    PROVE  SumFunctionOnSet(g, U) = SumFunctionOnSet(f, U)
<1> DEFINE F == [s \in SUBSET U |-> SumFunctionOnSet(f, s)]
           G == [s \in SUBSET U |-> SumFunctionOnSet(g, s)]
           Bad == {s \in SUBSET U : G[s] # F[s]}
<1>8. \A x \in U : f[x] \in Nat
  OBVIOUS
<1>6. /\ SumFunctionOnSet(f, {}) = 0
      /\ \A S \in SUBSET U :
            /\ SumFunctionOnSet(f, S) \in Nat
            /\ \A x \in S : SumFunctionOnSet(f, S) = f[x] + SumFunctionOnSet(f, S \ {x})
  BY <1>8, SumAdd
<1>1. \A s \in SUBSET U : \A x \in s : F[s] = f[x] + F[s \ {x}]
  BY <1>6
<1>2. \A x \in U : g[x] \in Nat
  OBVIOUS
<1>7. /\ SumFunctionOnSet(g, {}) = 0
      /\ \A S \in SUBSET U :
            /\ SumFunctionOnSet(g, S) \in Nat
            /\ \A x \in S : SumFunctionOnSet(g, S) = g[x] + SumFunctionOnSet(g, S \ {x})
  BY <1>2, SumAdd
<1>3. \A s \in SUBSET U : \A x \in s : G[s] = g[x] + G[s \ {x}]
  BY <1>7
<1>4. F[{}] = 0 /\ G[{}] = 0
  BY <1>2, SumAdd
<1> HIDE DEF F, G
<1>5. Bad = {}
  <2> SUFFICES ASSUME Bad # {} PROVE FALSE
    OBVIOUS
  <2>1. PICK s \in Bad : \A t \in Bad : t \subseteq s => t = s
    <3>1. Bad \in SUBSET (SUBSET U) /\ Bad # {}
      OBVIOUS
    <3> HIDE DEF Bad
    <3> QED
      BY <3>1, SetMin
  <2>2. PICK x \in s : TRUE
    BY <1>4
  <2>3. s \ {x} \in SUBSET U /\ s \ {x} \notin Bad
    BY <2>1
  <2>4. F[s] = g[x] + F[s \ {x}] /\ G[s] = g[x] + G[s \ {x}]
    BY <1>1, <1>3
  <2>5. F[s \ {x}] = G[s \ {x}]
    BY <2>3
  <2> QED
    BY <2>4, <2>5
<1> QED
  BY <1>5 DEF F, G

-----------------------------------------------------------------------------
(* The quota                                                               *)

\* An upload that has met no other one is the only one, and there still is room for it.
AloneFits ==
    \A u \in Uploading : ~upload[u].crowded => Uploading = {u} /\ Fits(upload[u].content)

QuotaInv == TypeInv /\ IsFiniteSet(Rows) /\ AloneFits /\ QuotaIsKept

Sizes == [f \in Rows |-> Size[attachment[f].content]]

LEMMA TotalIsSum ==
    /\ TotalSize = SumFunctionOnSet(Sizes, Rows)
    /\ TotalSize' = SumFunctionOnSet(Sizes', Rows')
BY DEF TotalSize, Sizes, SumFunction

\* What the rows take is a number.
LEMMA SizesType ==
    ASSUME TypeInv, IsFiniteSet(Rows)
    PROVE  /\ \A f \in Rows : Sizes[f] \in Nat
           /\ TotalSize \in Nat /\ Cardinality(Rows) \in Nat
<1>1. \A f \in Rows : Sizes[f] \in Nat
  BY SizeType DEF TypeInv, TypeOK, RowType, Rows, Sizes
<1>2. SumFunctionOnSet(Sizes, Rows) \in Nat
  <2>1. PICK R : R = Rows /\ IsFiniteSet(R)
    OBVIOUS
  <2>2. PICK s : s = Sizes
    OBVIOUS
  <2>3. \A f \in R : s[f] \in Nat
    BY <1>1, <2>1, <2>2
  <2>4. SumFunctionOnSet(s, R) \in Nat
    BY <2>1, <2>3, SumAdd
  <2> QED
    BY <2>1, <2>2, <2>4
<1> QED
  BY <1>1, <1>2, TotalIsSum, FS_CardinalityType

\* The same contents in the same paths take as much as before.
LEMMA SameRows ==
    ASSUME \A f \in Paths : attachment'[f].content = attachment[f].content
    PROVE  Rows' = Rows /\ TotalSize' = TotalSize
<1>1. Rows' = Rows
  BY DEF Rows
<1>2. \A f \in Rows : attachment'[f].content = attachment[f].content
  BY DEF Rows
<1>3. Sizes' = Sizes
  BY <1>1, <1>2 DEF Sizes
<1> QED
  BY <1>1, <1>3, TotalIsSum

\* A row that is inserted adds one to the count, and its content to the bytes.
LEMMA OneMoreRow ==
    ASSUME TypeInv, IsFiniteSet(Rows), NEW x \in Paths, x \notin Rows, NEW c \in Contents,
           attachment'[x].content = c, \A f \in Paths \ {x} : attachment'[f] = attachment[f]
    PROVE  /\ IsFiniteSet(Rows')
           /\ Cardinality(Rows') = Cardinality(Rows) + 1
           /\ TotalSize' = TotalSize + Size[c]
<1>1. Rows' = Rows \cup {x}
  BY Sentinel DEF Rows
<1>2. PICK R, S : R = Rows /\ S = Rows' /\ S = R \cup {x} /\ x \notin R
  BY <1>1
<1>3. IsFiniteSet(R) /\ IsFiniteSet(S) /\ Cardinality(S) = Cardinality(R) + 1
  <2>1. IsFiniteSet(R) /\ S = R \cup {x} /\ x \notin R
    BY <1>2, Zenon
  <2> QED
    BY <2>1, FS_AddElement
<1>4. PICK s, t : s = Sizes /\ t = Sizes'
  OBVIOUS
<1>5. \A f \in R : s[f] \in Nat /\ t[f] = s[f]
  <2>1. \A f \in R : s[f] \in Nat
    BY <1>2, <1>4, SizesType
  <2>2. \A f \in R : attachment'[f] = attachment[f] /\ f \in S
    BY <1>2 DEF Rows
  <2> QED
    BY <1>2, <1>4, <2>1, <2>2 DEF Sizes
<1>6. t[x] = Size[c] /\ Size[c] \in Nat
  BY <1>2, <1>4, SizeType DEF Sizes
<1>7. \A f \in S : t[f] \in Nat
  BY <1>2, <1>5, <1>6
<1>8. SumFunctionOnSet(t, R) = SumFunctionOnSet(s, R)
  BY <1>3, <1>5, SumSame
<1>9. SumFunctionOnSet(t, S) = t[x] + SumFunctionOnSet(t, S \ {x})
  <2>1. x \in S /\ S \in SUBSET S
    BY <1>2
  <2> QED
    BY <1>3, <1>7, <2>1, SumAdd
<1>10. S \ {x} = R
  BY <1>2
<1>11. SumFunctionOnSet(s, R) \in Nat
  <2>1. \A f \in R : s[f] \in Nat
    BY <1>5
  <2> QED
    BY <1>3, <2>1, SumAdd
<1>12. SumFunctionOnSet(t, S) = SumFunctionOnSet(s, R) + Size[c]
  <2>1. SumFunctionOnSet(t, S) = Size[c] + SumFunctionOnSet(s, R)
    BY <1>6, <1>8, <1>9, <1>10
  <2> QED
    BY <1>6, <1>11, <2>1
<1>13. TotalSize = SumFunctionOnSet(s, R) /\ TotalSize' = SumFunctionOnSet(t, S)
  BY <1>2, <1>4, TotalIsSum, Zenon
<1>14. TotalSize' = TotalSize + Size[c]
  BY <1>12, <1>13
<1> QED
  BY <1>2, <1>3, <1>14, Zenon

\* Rows that take as much as before, and no upload that newly is on its way or accepted.
LEMMA QuietQuota ==
    ASSUME QuotaInv, TypeInv',
           \A f \in Paths : attachment'[f].content = attachment[f].content,
           Uploading' \subseteq Uploading,
           \A u \in Uploading' : /\ upload'[u].crowded <=> upload[u].crowded
                                 /\ upload'[u].content = upload[u].content,
           \A u \in Uploads : upload[u].pc = "acked" =>
                 upload'[u].pc = "acked" /\ (upload'[u].crowded <=> upload[u].crowded)
    PROVE  QuotaInv'
<1>1. Rows' = Rows /\ TotalSize' = TotalSize
  BY SameRows
<1>2. IsFiniteSet(Rows')
  BY <1>1 DEF QuotaInv
<1>3. AloneFits'
  <2>1. ASSUME NEW u \in Uploading', ~upload'[u].crowded
        PROVE  Uploading' = {u} /\ Cardinality(Rows') < MaxCount
               /\ TotalSize' + Size[upload'[u].content] <= MaxBytes
    <3>1. u \in Uploading /\ ~upload[u].crowded /\ upload'[u].content = upload[u].content
      BY <2>1
    <3>2. Uploading = {u} /\ Fits(upload[u].content)
      BY <3>1 DEF QuotaInv, AloneFits
    <3> QED
      BY <1>1, <2>1, <3>1, <3>2 DEF Fits
  <2> QED
    BY <2>1 DEF AloneFits, Fits
<1>4. QuotaIsKept'
  BY <1>1 DEF QuotaInv, QuotaIsKept
<1> QED
  BY <1>2, <1>3, <1>4 DEF QuotaInv

\* A request looks at the rows, and makes every upload it meets crowded.
LEMMA StartUploadQuota ==
    ASSUME QuotaInv, TypeInv', NEW u \in Uploads, NEW f \in Paths, NEW c \in Contents,
           StartUpload(u, f, c)
    PROVE  QuotaInv'
<1> DEFINE outcome == CASE ~running \/ attachment[f].content \notin {None, c} -> "refused"
                        [] attachment[f].content = c -> "acked"
                        [] ~Fits(c) -> "refused"
                        [] OTHER -> "put"
           q == [pc |-> outcome, path |-> f, content |-> c, crowded |-> Uploading # {}]
<1>0. TypeInv /\ u \notin Uploading /\ upload[u].pc = "new"
  BY DEF QuotaInv, StartUpload, Uploading
<1>1. outcome \in {"refused", "acked"} \/ (outcome = "put" /\ Fits(c))
  <2>1. \/ ~running \/ attachment[f].content \notin {None, c} \/ attachment[f].content = c
        \/ attachment[f].content = None
    OBVIOUS
  <2> QED
    BY Zenon
<1>2. upload' = [v \in Uploads |->
             CASE v = u -> q
               [] v \in Uploading /\ outcome = "put" -> Crowded(upload[v])
               [] OTHER -> upload[v]]
  BY Zenon DEF StartUpload, Crowded
<1> HIDE DEF outcome
<1>3. q.pc = outcome /\ q.content = c /\ (q.crowded <=> Uploading # {})
  OBVIOUS
<1> HIDE DEF q
<1>4. upload'[u] = q
  <2>1. upload'[u] = CASE u = u -> q
                       [] u \in Uploading /\ outcome = "put" -> Crowded(upload[u])
                       [] OTHER -> upload[u]
    BY <1>2
  <2> QED
    BY <1>0, <2>1
<1>5. \A v \in Uploads \ {u} :
          upload'[v] = IF v \in Uploading /\ outcome = "put" THEN Crowded(upload[v]) ELSE upload[v]
  BY <1>2
<1>6. \A v \in Uploads : Crowded(upload[v]).pc = upload[v].pc /\ Crowded(upload[v]).crowded
                         /\ Crowded(upload[v]).content = upload[v].content
  BY <1>0 DEF TypeInv, TypeOK, UploadType, Crowded
<1>7. \A v \in Uploads \ {u} : upload'[v].pc = upload[v].pc /\ upload'[v].content = upload[v].content
  BY <1>5, <1>6
<1>8. attachment' = attachment
  BY DEF StartUpload, fileVars
<1>9. Rows' = Rows /\ TotalSize' = TotalSize
  BY <1>8, SameRows
<1>10. \A v \in Uploads : upload[v].pc = "acked" => v # u /\ upload'[v] = upload[v]
  BY <1>0, <1>5 DEF Uploading
<1>11. QuotaIsKept'
  BY <1>9, <1>10 DEF QuotaInv, QuotaIsKept
<1>12. IsFiniteSet(Rows')
  BY <1>9 DEF QuotaInv
<1>13. \A v \in Uploads \ {u} : v \in Uploading' <=> v \in Uploading
  BY <1>7 DEF Uploading
<1>14. CASE outcome # "put"
  <2>1. u \notin Uploading'
    BY <1>1, <1>3, <1>4, <1>14 DEF Uploading
  <2>2. Uploading' = Uploading
    BY <1>0, <1>13, <2>1 DEF Uploading
  <2>3. \A v \in Uploading : upload'[v] = upload[v]
    BY <1>0, <1>5, <1>14 DEF Uploading
  <2>4. ASSUME NEW v \in Uploading', ~upload'[v].crowded
        PROVE  Uploading' = {v} /\ Cardinality(Rows') < MaxCount
               /\ TotalSize' + Size[upload'[v].content] <= MaxBytes
    <3>1. Uploading = {v} /\ Fits(upload[v].content)
      BY <2>2, <2>3, <2>4 DEF QuotaInv, AloneFits
    <3> QED
      BY <1>9, <2>2, <2>3, <3>1 DEF Fits
  <2>5. AloneFits'
    BY <2>4 DEF AloneFits, Fits
  <2> QED
    BY <1>11, <1>12, <2>5 DEF QuotaInv
<1>15. CASE outcome = "put"
  <2>1. \A v \in Uploading' \ {u} : upload'[v].crowded
    BY <1>5, <1>6, <1>13, <1>15 DEF Uploading
  <2>2. Fits(c)
    BY <1>1, <1>15
  <2>3. ASSUME NEW v \in Uploading', ~upload'[v].crowded
        PROVE  Uploading' = {v} /\ Cardinality(Rows') < MaxCount
               /\ TotalSize' + Size[upload'[v].content] <= MaxBytes
    <3>1. v = u
      BY <2>1, <2>3
    <3>2. Uploading = {} /\ upload'[v].content = c
      BY <1>3, <1>4, <2>3, <3>1
    <3>3. Uploading' = {v}
      BY <1>13, <2>3, <3>1, <3>2 DEF Uploading
    <3> QED
      BY <1>9, <2>2, <3>2, <3>3 DEF Fits
  <2>4. AloneFits'
    BY <2>3 DEF AloneFits, Fits
  <2> QED
    BY <1>11, <1>12, <2>4 DEF QuotaInv
<1> QED
  BY <1>14, <1>15

\* The object is put, or the request dies: its row is still to come, or never comes.
LEMMA GoOnQuota ==
    ASSUME QuotaInv, TypeInv', NEW u \in Uploads, PutObject(u) \/ LoseUpload(u)
    PROVE  QuotaInv'
<1>1. TypeInv /\ u \in Uploading /\ attachment' = attachment
  BY DEF QuotaInv, PutObject, LoseUpload, Uploading, fileVars
<1>2. \/ upload' = [upload EXCEPT ![u].pc = "commit"]
      \/ upload' = [upload EXCEPT ![u].pc = "broken"]
  BY DEF PutObject, LoseUpload
<1>3. \A v \in Uploads : /\ upload'[v].crowded <=> upload[v].crowded
                         /\ upload'[v].content = upload[v].content
                         /\ v # u => upload'[v].pc = upload[v].pc
  BY <1>1, <1>2 DEF TypeInv, TypeOK, UploadType
<1>4. Uploading' \subseteq Uploading
  BY <1>1, <1>3 DEF Uploading
<1>5. Uploading \subseteq Uploads /\ upload[u].pc # "acked"
  BY <1>1 DEF Uploading
<1>6. \A v \in Uploading' : /\ upload'[v].crowded <=> upload[v].crowded
                            /\ upload'[v].content = upload[v].content
  BY <1>3, <1>4, <1>5
<1>7. \A v \in Uploads : upload[v].pc = "acked" =>
          upload'[v].pc = "acked" /\ (upload'[v].crowded <=> upload[v].crowded)
  BY <1>3, <1>5
<1>8. \A f \in Paths : attachment'[f].content = attachment[f].content
  BY <1>1
<1> QED
  BY <1>4, <1>6, <1>7, <1>8, QuietQuota

\* The row that an upload inserts fits, if the upload has met no other one.
LEMMA CommitUploadQuota ==
    ASSUME QuotaInv, TypeInv', NEW u \in Uploads, CommitUpload(u)
    PROVE  QuotaInv'
<1>0. TypeInv /\ IsFiniteSet(Rows)
  BY DEF QuotaInv
<1>1. u \in Uploading /\ upload[u].path \in Paths /\ upload[u].content \in Contents
  BY <1>0, CommitUploadStep DEF Uploading
<1>2. \/ Free(u) /\ upload' = [upload EXCEPT ![u].pc = "acked"]
      \/ ~Free(u) /\ upload' = [upload EXCEPT ![u].pc = "broken"]
  BY DEF CommitUpload, Free
<1>3. \A v \in Uploads : /\ upload'[v].crowded <=> upload[v].crowded
                         /\ upload'[v].content = upload[v].content
                         /\ v # u => upload'[v].pc = upload[v].pc
  BY <1>0, <1>2 DEF TypeInv, TypeOK, UploadType
<1>4. upload'[u].pc = IF Free(u) THEN "acked" ELSE "broken"
  BY <1>0, <1>2 DEF TypeInv, TypeOK, UploadType
<1>5. Uploading' = Uploading \ {u}
  BY <1>3, <1>4 DEF Uploading
<1>6. \A v \in Uploads : upload[v].pc = "acked" =>
          upload'[v].pc = "acked" /\ (upload'[v].crowded <=> upload[v].crowded)
  BY <1>1, <1>3 DEF Uploading
<1>7. CASE ~Free(u)
  <2>1. attachment' = attachment
    BY <1>0, <1>7, CommitUploadStep
  <2>2. \A v \in Uploading' : /\ upload'[v].crowded <=> upload[v].crowded
                              /\ upload'[v].content = upload[v].content
    BY <1>3 DEF Uploading
  <2> QED
    BY <1>5, <1>6, <2>1, <2>2, QuietQuota
<1>8. CASE Free(u)
  <2>1. /\ attachment'[upload[u].path].content = upload[u].content
        /\ \A f \in Paths \ {upload[u].path} : attachment'[f] = attachment[f]
        /\ upload[u].path \notin Rows
    BY <1>0, <1>8, CommitUploadStep DEF Free
  <2>2. /\ IsFiniteSet(Rows')
        /\ Cardinality(Rows') = Cardinality(Rows) + 1
        /\ TotalSize' = TotalSize + Size[upload[u].content]
    BY <1>0, <1>1, <2>1, OneMoreRow
  <2>3. AloneFits'
    <3>1. \A v \in Uploading' : upload'[v].crowded
      <4>1. SUFFICES ASSUME NEW v \in Uploading', ~upload'[v].crowded PROVE FALSE
        OBVIOUS
      <4>2. v \in Uploading /\ v # u /\ ~upload[v].crowded
        BY <1>3, <1>5, <4>1 DEF Uploading
      <4> QED
        BY <1>1, <4>2 DEF QuotaInv, AloneFits
    <3> QED
      BY <3>1 DEF AloneFits
  <2>4. QuotaIsKept'
    <3>1. SUFFICES ASSUME \A v \in Uploads : upload'[v].pc = "acked" => ~upload'[v].crowded
                   PROVE  Cardinality(Rows') <= MaxCount /\ TotalSize' <= MaxBytes
      BY DEF QuotaIsKept
    <3>2. ~upload[u].crowded
      BY <1>3, <1>4, <1>8, <3>1
    <3>3. Cardinality(Rows) < MaxCount /\ TotalSize + Size[upload[u].content] <= MaxBytes
      BY <1>1, <3>2 DEF QuotaInv, AloneFits, Fits
    <3>4. Cardinality(Rows) \in Nat
      BY <1>0, SizesType
    <3> QED
      BY <2>2, <3>3, <3>4, BoundsType
  <2> QED
    BY <2>2, <2>3, <2>4 DEF QuotaInv
<1> QED
  BY <1>7, <1>8

LEMMA InitQuota == Init => QuotaInv
<1> SUFFICES ASSUME Init PROVE QuotaInv
  OBVIOUS
<1>1. TypeInv /\ Rows = {} /\ Uploading = {}
  BY InitType DEF Init, NoRow, Rows, Uploading
<1>2. Sizes = [f \in {} |-> Size[attachment[f].content]]
  BY <1>1 DEF Sizes
<1>3. TotalSize = 0 /\ Cardinality(Rows) = 0 /\ IsFiniteSet(Rows)
  <2>1. PICK s : s = Sizes
    OBVIOUS
  <2>2. IsFiniteSet({}) /\ Cardinality({}) = 0
    BY FS_EmptySet
  <2>3. SumFunctionOnSet(s, {}) = 0
    BY <2>2, SumAdd
  <2> QED
    BY <1>1, <2>1, <2>2, <2>3, TotalIsSum, Zenon
<1> QED
  BY <1>1, <1>3, BoundsType DEF QuotaInv, AloneFits, QuotaIsKept

LEMMA QuotaStep == QuotaInv /\ [Next]_vars => QuotaInv'
<1> SUFFICES ASSUME QuotaInv, [Next]_vars PROVE QuotaInv'
  OBVIOUS
<1>0. TypeInv /\ TypeInv'
  BY TypeStep DEF QuotaInv
<1>1. ASSUME upload' = upload, \A f \in Paths : attachment'[f].content = attachment[f].content
      PROVE  QuotaInv'
  <2>1. Uploading' = Uploading
    BY <1>1 DEF Uploading
  <2> QED
    BY <1>0, <1>1, <2>1, QuietQuota
<1>2. CASE \/ EndRun \/ (\E f \in Paths : Expire(f)) \/ UNCHANGED vars
           \/ (\E k \in Keys : Push(k) \/ Grow(k)) \/ \E w \in Pruners : AbortPrune(w)
  <2>1. upload' = upload /\ attachment' = attachment
    BY <1>2 DEF EndRun, Expire, Push, Grow, AbortPrune, vars, fileVars
  <2> QED
    BY <1>1, <2>1
<1>3. ASSUME NEW p \in Publications, Validate(p)
      PROVE  QuotaInv'
  <2>1. upload' = upload /\ attachment' = attachment
    BY <1>3 DEF Validate, StartValidation, Verify, FailValidation, Publish, fileVars
  <2> QED
    BY <1>1, <2>1
<1>4. ASSUME NEW w \in Pruners, Retain(w)
      PROVE  QuotaInv'
  <2>1. CASE CommitPrune(w)
    <3>1. upload' = upload
      BY <2>1 DEF CommitPrune
    <3> QED
      BY <1>0, <1>1, <2>1, <3>1, CommitPruneStep
  <2>2. CASE ~CommitPrune(w)
    <3>1. upload' = upload /\ attachment' = attachment
      BY <1>4, <2>2 DEF Retain, StartPrune, DeleteAttachment, ReadProtected, ListObjects,
                        DeleteObject, fileVars
    <3> QED
      BY <1>1, <3>1
  <2> QED
    BY <2>1, <2>2
<1>5. ASSUME NEW u \in Uploads, Attach(u)
      PROVE  QuotaInv'
  BY <1>0, <1>5, StartUploadQuota, GoOnQuota, CommitUploadQuota DEF Attach
<1> QED
  BY <1>2, <1>3, <1>4, <1>5 DEF Next

-----------------------------------------------------------------------------
(* Theorems                                                                *)

\* A version keeps all its bytes, each with its digest, for any number of workers, of
\* publications and of objects: unless it was being verified while a worker had already
\* read which objects are protected.
THEOREM PublishedBytesSafety == Spec => []PublishedBytesStay
<1>1. BytesInv => PublishedBytesStay
  BY DEF BytesInv
<1> QED
  BY <1>1, InitBytes, BytesStep, PTL DEF Spec

\* Rows and objects of the attachments agree, whatever the order in which uploads, the
\* retention of any number of workers, and their deaths come: a row that is not purged has
\* its object or is old, and an object without such a row is an unfinished upload's.
THEOREM RowsMatchSafety == Spec => []RowsMatchObjects
<1>1. RowsInv => RowsMatchObjects
  BY DEF RowsInv
<1> QED
  BY <1>1, InitRows, RowsStep, PTL DEF Spec

\* A Run never has more attachments, or more bytes in them, than its quota allows, but
\* through uploads that overlapped: for any number of uploads, paths and contents, and
\* whatever the retention does meanwhile.
THEOREM QuotaSafety == Spec => []QuotaIsKept
<1>1. QuotaInv => QuotaIsKept
  BY DEF QuotaInv
<1> QED
  BY <1>1, InitQuota, QuotaStep, PTL DEF Spec
=============================================================================
