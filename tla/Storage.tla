------------------------------- MODULE Storage ------------------------------
(***************************************************************************)
(* The bytes: the DVC bucket, to which clients push and from which a       *)
(* publication is verified object by object before its version is          *)
(* committed; the bucket of the Run attachments, with one row per object;  *)
(* and the retention, which the worker processes run once a day and which  *)
(* deletes from both, first attachments, then whatever is old and belongs  *)
(* to no version.  Nothing is locked: each of them works on what it read.  *)
(*                                                                         *)
(* One Research Project, one Run. A key of the DVC bucket names a digest,  *)
(* so that only its age and whether its bytes have that digest matter.     *)
(***************************************************************************)
EXTENDS FiniteSets, Functions, Integers

CONSTANTS Keys,          \* objects of the DVC bucket
          Outputs,       \* those that a commit names as an output
          Children,      \* Children[o]: what the manifest o lists, {} for a file
          Publications,  \* publications that a worker validates
          Uploads,       \* attachment uploads
          Paths, Contents,
          Size,          \* Size[c]: of the content of an attachment
          MaxCount, MaxBytes,  \* attachment_max_count, attachment_max_run_bytes
          MaxObjects,    \* max_objects of the validator
          Pruners,       \* worker processes
          Limit,         \* deletion_limit
          MaxOperations, \* bound: pushes, publications and uploads
          MaxFailures    \* bound: deaths of requests and workers

ASSUME OutputsType == Outputs \subseteq Keys /\ Children \in [Outputs -> SUBSET Keys]
ASSUME SizeType == Size \in [Contents -> Nat]
ASSUME BoundsType ==
    /\ MaxCount \in Nat /\ MaxBytes \in Nat /\ MaxObjects \in Nat
    /\ Limit \in Nat \ {0} /\ MaxOperations \in Nat /\ MaxFailures \in Nat

None == "none"

ASSUME Sentinel == None \notin Contents

\* What may be wrong with a request: found before or after its objects are read.
Defects == {"source", "metadata"}

VARIABLES object,       \* DVC bucket: "absent", "fresh" or "old" (provisional_retention)
          corrupt,      \* keys whose bytes do not have their digest
          begun,        \* number of pushes, publications and uploads
          publication,  \* publications, with their version once they are published
          stored,       \* attachment bucket: contents of the Run
          attachment,   \* run_attachments: the row of each path
          expired,      \* rows older than attachment_retention
          running,      \* the Run's state is RUNNING
          upload,       \* requests
          prune,        \* S3RetentionCoordinator.run of each worker
          failures

dvcVars == <<object, corrupt>>
fileVars == <<stored, attachment, expired>>
vars == <<dvcVars, publication, fileVars, running, upload, prune, begun, failures>>

RowType == [content : Contents \cup {None}, purged : BOOLEAN]
PublicationType == [pc : {"new", "verifying", "published", "failed"},
                    output : Outputs \cup {None}, defect : Defects \cup {None},
                    left : SUBSET Keys, verified : Nat, raced : BOOLEAN]
UploadType == [pc : {"new", "put", "commit", "acked", "refused", "broken"},
               path : Paths \cup {None}, content : Contents \cup {None}, crowded : BOOLEAN]
PruneType == [pc : {"idle", "attachments", "objects", "deleting", "commit"},
              todo : SUBSET Paths, done : SUBSET Paths,
              keys : SUBSET Keys,  \* first those protected, then those to delete
              removed : Nat]

NoPublication == [pc |-> "new", output |-> None, defect |-> None, left |-> {},
                  verified |-> 0, raced |-> FALSE]
NoRow == [content |-> None, purged |-> FALSE]
NoPrune == [pc |-> "idle", todo |-> {}, done |-> {}, keys |-> {}, removed |-> 0]

Init ==
    /\ object = [k \in Keys |-> "absent"]
    /\ corrupt = {}
    /\ begun = 0
    /\ publication = [p \in Publications |-> NoPublication]
    /\ stored = {}
    /\ attachment = [f \in Paths |-> NoRow]
    /\ expired = {}
    /\ running = TRUE
    /\ upload = [u \in Uploads |-> [pc |-> "new", path |-> None, content |-> None,
                                    crowded |-> FALSE]]
    /\ prune = [w \in Pruners |-> NoPrune]
    /\ failures = 0

-----------------------------------------------------------------------------
(* Versions. X_Something is X with a plausible bug: no action uses it, it  *)
(* shows that the properties notice the bug.                               *)

\* The files of an output, and all its objects.
Index(o) == IF Children[o] = {} THEN {o} ELSE Children[o]
Bytes(o) == Index(o) \cup {o}

Published == {p \in Publications : publication[p].pc = "published"}

\* _published_object_keys: the root of each storage location, each file of each version.
PublishedObjectKeys_RootsOnly == {publication[p].output : p \in Published}
PublishedObjectKeys ==
    UNION {{publication[p].output} \cup Index(publication[p].output) : p \in Published}

Begin == begun < MaxOperations /\ begun' = begun + 1

\* "dvc push" uploads what the bucket does not have, and writes over nothing, although the
\* keys it gets would allow that; its cache may be damaged.
Push(k) ==
    /\ object[k] = "absent"
    /\ Begin
    /\ object' = [object EXCEPT ![k] = "fresh"]
    /\ corrupt' \in {corrupt, corrupt \cup {k}}
    /\ UNCHANGED <<publication, fileVars, running, upload, prune, failures>>

\* provisional_retention passes since the push.
Grow(k) ==
    /\ object[k] = "fresh"
    /\ object' = [object EXCEPT ![k] = "old"]
    /\ UNCHANGED <<corrupt, publication, fileVars, running, upload, prune, begun, failures>>

\* A worker that has read the protected keys and has not finished with the bucket.
Deleting == {w \in Pruners : prune[w].pc \in {"objects", "deleting"}}

Failed == [NoPublication EXCEPT !.pc = "failed"]

\* validate: artifact, repository, commit and output are looked up.
StartValidation(p, o, d) ==
    /\ publication[p].pc = "new"
    /\ Begin
    /\ publication' = [publication EXCEPT ![p] =
          IF d = "source" THEN Failed
          ELSE [pc |-> "verifying", output |-> o, defect |-> d, left |-> {o}, verified |-> 0,
                raced |-> Deleting # {}]]
    /\ UNCHANGED <<dvcVars, fileVars, running, upload, prune, failures>>

\* _verify_object: the object is read in full and its bytes have its digest.
Verifies(p, k) ==
    /\ publication[p].verified <= MaxObjects
    /\ object[k] # "absent" /\ k \notin corrupt

\* _directory_files: first the manifest, then what it lists.
Verify(p, k) ==
    LET t == publication[p] IN
    /\ t.pc = "verifying" /\ k \in t.left
    /\ Verifies(p, k)
    /\ publication' = [publication EXCEPT
          ![p].left = IF t.verified = 0 THEN Children[t.output] ELSE @ \ {k},
          ![p].verified = @ + 1]
    /\ UNCHANGED <<dvcVars, fileVars, running, upload, prune, begun, failures>>

\* The time limit may be over as well before any object.
FailValidation(p) ==
    LET t == publication[p] IN
    /\ t.pc = "verifying"
    /\ t.left = {} => t.defect = "metadata"
    /\ publication' = [publication EXCEPT ![p] = Failed]
    /\ UNCHANGED <<dvcVars, fileVars, running, upload, prune, begun, failures>>

\* Sizes, counts, the producing Run and the signature agree; publish commits the version.
Publish(p) ==
    LET t == publication[p] IN
    /\ t.pc = "verifying" /\ t.left = {} /\ t.defect = None
    /\ publication' = [publication EXCEPT ![p].pc = "published", ![p].verified = 0]
    /\ UNCHANGED <<dvcVars, fileVars, running, upload, prune, begun, failures>>

-----------------------------------------------------------------------------
(* Attachments                                                             *)

Rows == {f \in Paths : attachment[f].content # None}

\* attachment_totals, which counts purged rows too.
TotalSize == SumFunction([f \in Rows |-> Size[attachment[f].content]])

Fits_OneMore(c) == Cardinality(Rows) <= MaxCount /\ TotalSize + Size[c] <= MaxBytes
Fits(c) == Cardinality(Rows) < MaxCount /\ TotalSize + Size[c] <= MaxBytes

Uploading == {u \in Uploads : upload[u].pc \in {"put", "commit"}}

\* AttachmentService.upload up to its put: a path holds one content for ever.
StartUpload(u, f, c) ==
    LET outcome == CASE ~running \/ attachment[f].content \notin {None, c} -> "refused"
                     [] attachment[f].content = c -> "acked"
                     [] ~Fits(c) -> "refused"
                     [] OTHER -> "put"
    IN /\ upload[u].pc = "new"
       /\ Begin
       /\ upload' = [v \in Uploads |->
             CASE v = u -> [pc |-> outcome, path |-> f, content |-> c,
                            crowded |-> Uploading # {}]
               [] v \in Uploading /\ outcome = "put" -> [upload[v] EXCEPT !.crowded = TRUE]
               [] OTHER -> upload[v]]
       /\ UNCHANGED <<dvcVars, publication, fileVars, running, prune, failures>>

\* S3AttachmentObjectStore.put, under a key that only the digest tells apart.
PutObject(u) ==
    /\ upload[u].pc = "put"
    /\ stored' = stored \cup {upload[u].content}
    /\ upload' = [upload EXCEPT ![u].pc = "commit"]
    /\ UNCHANGED <<dvcVars, publication, attachment, expired, running, prune, begun, failures>>

\* The INSERT, and the unique keys of the path and of the object.
CommitUpload(u) ==
    LET t == upload[u]
        free == t.path \notin Rows /\ \A f \in Rows : attachment[f].content # t.content
    IN /\ t.pc = "commit"
       /\ attachment' = IF free THEN [attachment EXCEPT ![t.path].content = t.content]
                                ELSE attachment
       /\ upload' = [upload EXCEPT ![u].pc = IF free THEN "acked" ELSE "broken"]
       /\ UNCHANGED <<dvcVars, publication, stored, expired, running, prune, begun, failures>>

\* The request dies before or after its put.
LoseUpload(u) ==
    /\ u \in Uploading
    /\ failures < MaxFailures
    /\ upload' = [upload EXCEPT ![u].pc = "broken"]
    /\ failures' = failures + 1
    /\ UNCHANGED <<dvcVars, publication, fileVars, running, prune, begun>>

\* RunService.finalize, or a Run given up.
EndRun ==
    /\ running
    /\ running' = FALSE
    /\ UNCHANGED <<dvcVars, publication, fileVars, upload, prune, begun, failures>>

\* attachment_retention passes.
Expire(f) ==
    /\ f \in Rows \ expired
    /\ expired' = expired \cup {f}
    /\ UNCHANGED <<dvcVars, publication, stored, attachment, running, upload, prune, begun, failures>>

-----------------------------------------------------------------------------
(* Retention                                                               *)

\* The rows that _prune_attachments selects, up to the limit; in which order is left open.
Due_AgainAndAgain == Rows \cap expired
Due == {f \in Rows \cap expired : ~attachment[f].purged}

StartPrune(w) ==
    /\ prune[w].pc = "idle"
    /\ \E todo \in SUBSET Due :
          /\ Cardinality(todo) = IF Cardinality(Due) < Limit THEN Cardinality(Due) ELSE Limit
          /\ prune' = [prune EXCEPT ![w] = [NoPrune EXCEPT !.pc = "attachments",
                                                           !.todo = todo]]
    /\ UNCHANGED <<dvcVars, publication, fileVars, running, upload, begun, failures>>

DeleteAttachment(w, f) ==
    /\ prune[w].pc = "attachments" /\ f \in prune[w].todo
    /\ stored' = stored \ {attachment[f].content}
    /\ prune' = [prune EXCEPT ![w].todo = @ \ {f}, ![w].done = @ \cup {f}]
    /\ UNCHANGED <<dvcVars, publication, attachment, expired, running, upload, begun, failures>>

Removed(w) == Cardinality(prune[w].done) + prune[w].removed

\* _prune_provisional: the protected keys, unless the limit is reached.
ReadProtected(w) ==
    /\ prune[w].pc = "attachments" /\ prune[w].todo = {}
    /\ prune' = [prune EXCEPT ![w].pc = IF Removed(w) < Limit THEN "objects" ELSE "commit",
                              ![w].keys = PublishedObjectKeys]
    /\ publication' = [p \in Publications |->
          [publication[p] EXCEPT !.raced = @ \/ publication[p].pc = "verifying"]]
    /\ UNCHANGED <<dvcVars, fileVars, running, upload, begun, failures>>

\* list_objects_v2, with the ages of that moment.
ListObjects(w) ==
    /\ prune[w].pc = "objects"
    /\ prune' = [prune EXCEPT
          ![w].pc = "deleting", ![w].keys = {k \in Keys \ @ : object[k] = "old"}]
    /\ UNCHANGED <<dvcVars, publication, fileVars, running, upload, begun, failures>>

DeleteObject(w, k) ==
    /\ prune[w].pc = "deleting" /\ k \in prune[w].keys
    /\ Removed(w) < Limit
    /\ object' = [object EXCEPT ![k] = "absent"]
    /\ corrupt' = corrupt \ {k}
    /\ prune' = [prune EXCEPT ![w].keys = @ \ {k}, ![w].removed = @ + 1]
    /\ UNCHANGED <<publication, fileVars, running, upload, begun, failures>>

\* The one COMMIT of the whole run marks the rows.
Marked_AllDue(w) == Due
Marked(w) == prune[w].done

CommitPrune(w) ==
    /\ \/ prune[w].pc = "commit"
       \/ prune[w].pc = "deleting" /\ (prune[w].keys = {} \/ Removed(w) = Limit)
    /\ attachment' = [f \in Paths |->
          IF f \in Marked(w) THEN [attachment[f] EXCEPT !.purged = TRUE] ELSE attachment[f]]
    /\ prune' = [prune EXCEPT ![w] = NoPrune]
    /\ UNCHANGED <<dvcVars, publication, stored, expired, running, upload, begun, failures>>

\* The object store fails or the worker dies: what was deleted is not marked.
AbortPrune(w) ==
    /\ prune[w].pc # "idle"
    /\ failures < MaxFailures
    /\ prune' = [prune EXCEPT ![w] = NoPrune]
    /\ failures' = failures + 1
    /\ UNCHANGED <<dvcVars, publication, fileVars, running, upload, begun>>

Validate(p) ==
    \/ \E o \in Outputs, d \in Defects \cup {None} : StartValidation(p, o, d)
    \/ \E k \in Keys : Verify(p, k)
    \/ FailValidation(p) \/ Publish(p)

Attach(u) ==
    \/ \E f \in Paths, c \in Contents : StartUpload(u, f, c)
    \/ PutObject(u) \/ CommitUpload(u) \/ LoseUpload(u)

Retain(w) ==
    \/ StartPrune(w) \/ \E f \in Paths : DeleteAttachment(w, f)
    \/ ReadProtected(w) \/ ListObjects(w) \/ CommitPrune(w)
    \/ \E k \in Keys : DeleteObject(w, k)

Next ==
    \/ \E k \in Keys : Push(k) \/ Grow(k)
    \/ \E p \in Publications : Validate(p)
    \/ \E u \in Uploads : Attach(u)
    \/ \E f \in Paths : Expire(f)
    \/ \E w \in Pruners : Retain(w) \/ AbortPrune(w)
    \/ EndRun

Spec == Init /\ [][Next]_vars

\* Every worker runs the retention again and again; nothing else has to happen.
FairSpec == Spec /\ \A w \in Pruners : WF_vars(Retain(w))

-----------------------------------------------------------------------------
(* Properties                                                              *)

TypeOK ==
    /\ object \in [Keys -> {"absent", "fresh", "old"}]
    /\ corrupt \subseteq Keys
    /\ begun \in 0..MaxOperations
    /\ publication \in [Publications -> PublicationType]
    /\ stored \subseteq Contents
    /\ attachment \in [Paths -> RowType]
    /\ expired \subseteq Paths
    /\ running \in BOOLEAN
    /\ upload \in [Uploads -> UploadType]
    /\ prune \in [Pruners -> PruneType]
    /\ failures \in 0..MaxFailures

\* A published version keeps all its bytes, sound, whatever the retention deletes; only
\* one that was being verified while a worker had already read what is protected may not.
PublishedBytesStay ==
    \A p \in Published :
        \/ publication[p].raced
        \/ \A k \in Bytes(publication[p].output) : object[k] # "absent" /\ k \notin corrupt

\* An attachment that is neither purged nor about to be has its object; an object that
\* belongs to no row was left by an upload that did not come to its end.
RowsMatchObjects ==
    /\ TypeOK
    /\ \A f \in Rows : ~attachment[f].purged => attachment[f].content \in stored \/ f \in expired
    /\ \A c \in stored :
          \/ \E f \in Rows : attachment[f].content = c /\ ~attachment[f].purged
          \/ \E u \in Uploads : upload[u].content = c /\ upload[u].pc \in {"commit", "broken"}

\* A Run has more attachments than it may have only through uploads that overlapped.
QuotaIsKept ==
    (\A u \in Uploads : upload[u].pc = "acked" => ~upload[u].crowded) =>
        Cardinality(Rows) <= MaxCount /\ TotalSize <= MaxBytes

\* Whatever the deletion limit, the crashes and the order of the rows: an expired
\* attachment is purged, and an old object is deleted or becomes part of a version.
RetentionEnds ==
    /\ \A f \in Paths : f \in expired ~> attachment[f].purged
    /\ \A k \in Keys : object[k] = "old" ~> object[k] # "old" \/ k \in PublishedObjectKeys
=============================================================================
