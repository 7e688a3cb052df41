----------------------------- MODULE Documents -----------------------------
(***************************************************************************)
(* The document layer of catalog/db.py: one collection, the API requests   *)
(* that read, insert, replace and delete its documents, and the background *)
(* jobs that write to it with bulk_write.                                  *)
(*                                                                         *)
(* A PATCH is two database calls: read_object, then, when the body of the  *)
(* read_and_update_* context manager raised nothing, find_one_and_replace  *)
(* with the revision that was read.  Everything may happen between them.   *)
(* A job collects _id's with find() and later sends UpdateOne({_id},       *)
(* {$set}) for each of them: a $set neither tests nor changes _rev.        *)
(*                                                                         *)
(* What a document says is abstracted to who wrote it: edits holds the     *)
(* requests whose changes it carries, marks the jobs whose $set it carries.*)
(***************************************************************************)
EXTENDS Naturals

CONSTANTS Docs,       \* the _id's of the collection
          Requests,   \* API requests; each one is handled once
          Jobs,       \* bulk jobs: the cron tasks, the agreement propagation
          Legacy,     \* documents stored before _rev was introduced
          Nil         \* "no document", "no revision", "nobody"

Revision == [version : Nat, token : Requests \cup {Nil}]
Document == [rev   : Revision \cup {Nil},
             edits : SUBSET Requests,
             marks : SUBSET Jobs]

ASSUME LegacyAssumption == Legacy \subseteq Docs
ASSUME NilAssumption ==
  /\ Nil \notin Requests /\ \A S \in SUBSET Requests : Nil # S
  /\ Nil \notin Docs
  /\ Nil \notin Revision
  /\ Nil \notin Document

VARIABLES docs,    \* docs[d]: the stored document, or Nil
          pc,      \* where each request is
          doc,     \* the document a request works on
          copy,    \* what read_object returned to it
          job,     \* "scan": the job's cursor is open; "write": bulk_write
          seen     \* the _id's for which the job has an UpdateOne to send

reqVars == <<pc, doc, copy>>
jobVars == <<job, seen>>
vars    == <<docs, pc, doc, copy, job, seen>>

-----------------------------------------------------------------------------
(* Mutants of NextRev: only the number, no uuid; the number not parsed.     *)
NextRevNoUuid(rev, r) ==
  [version |-> IF rev = Nil THEN 2 ELSE rev.version + 1, token |-> Nil]
NextRevUnparsed(rev, r) == [version |-> rev, token |-> r]

(* get_next_rev: the number grows by one, or is 2 when there was none; the *)
(* uuid4 is new, which the name of the writing request stands for.         *)
NextRev(rev, r) ==
  [version |-> IF rev = Nil THEN 2 ELSE rev.version + 1, token |-> r]

(* Mutant of Matches: the filter has only the _id.                         *)
MatchesById(stored, read) == stored # Nil

(* The filter of find_one_and_replace in update_object.                    *)
Matches(stored, read) ==
  /\ stored # Nil
  /\ read.rev # Nil => stored.rev = read.rev

Stored(d) ==
  [rev   |-> IF d \in Legacy THEN Nil ELSE [version |-> 2, token |-> Nil],
   edits |-> {},
   marks |-> {}]

Init ==
  /\ \E present \in SUBSET Docs :
       docs = [d \in Docs |-> IF d \in present THEN Stored(d) ELSE Nil]
  /\ pc = [r \in Requests |-> "idle"]
  /\ doc = [r \in Requests |-> Nil]
  /\ copy = [r \in Requests |-> Nil]
  /\ job = [j \in Jobs |-> "scan"]
  /\ seen = [j \in Jobs |-> {}]

Answer(r, answer) == pc' = [pc EXCEPT ![r] = answer]

(* read_object, with which every read_and_update_* begins.                 *)
Read(r, d) ==
  /\ pc[r] = "idle"
  /\ docs[d] # Nil
  /\ Answer(r, "read")
  /\ doc' = [doc EXCEPT ![r] = d]
  /\ copy' = [copy EXCEPT ![r] = docs[d]]
  /\ UNCHANGED <<docs, jobVars>>

(* read_object or delete_one finds nothing: 404.                           *)
NotFound(r, d) ==
  /\ pc[r] = "idle"
  /\ docs[d] = Nil
  /\ Answer(r, "failed")
  /\ UNCHANGED <<docs, doc, copy, jobVars>>

(* The body of the context manager raises: update_object is not reached.   *)
Reject(r) ==
  /\ pc[r] = "read"
  /\ Answer(r, "failed")
  /\ UNCHANGED <<docs, doc, copy, jobVars>>

(* update_object: the whole document is replaced by the changed copy.      *)
Replace(r) ==
  LET d == doc[r] IN
  /\ pc[r] = "read"
  /\ Matches(docs[d], copy[r])
  /\ docs' = [docs EXCEPT ![d] = [rev   |-> NextRev(copy[r].rev, r),
                                  edits |-> copy[r].edits \cup {r},
                                  marks |-> copy[r].marks]]
  /\ Answer(r, "ok")
  /\ UNCHANGED <<doc, copy, jobVars>>

(* update_object: nothing matched the filter, 409.                         *)
Conflict(r) ==
  /\ pc[r] = "read"
  /\ ~ Matches(docs[doc[r]], copy[r])
  /\ Answer(r, "conflict")
  /\ UNCHANGED <<docs, doc, copy, jobVars>>

(* insert_object; MongoDB refuses a second document with the same _id.     *)
Insert(r, d) ==
  /\ pc[r] = "idle"
  /\ docs[d] = Nil
  /\ docs' = [docs EXCEPT ![d] = [rev   |-> NextRev(Nil, r),
                                  edits |-> {r},
                                  marks |-> {}]]
  /\ Answer(r, "ok")
  /\ UNCHANGED <<doc, copy, jobVars>>

(* insert_object: DuplicateKeyError, 400.                                  *)
Duplicate(r, d) ==
  /\ pc[r] = "idle"
  /\ docs[d] # Nil
  /\ Answer(r, "failed")
  /\ UNCHANGED <<docs, doc, copy, jobVars>>

(* delete_one, whatever the revision.  Only tags are deleted, and none     *)
(* gets the _id of a deleted one; that Insert could reuse it here only     *)
(* adds behaviours.                                                        *)
Delete(r, d) ==
  /\ pc[r] = "idle"
  /\ docs[d] # Nil
  /\ docs' = [docs EXCEPT ![d] = Nil]
  /\ Answer(r, "ok")
  /\ UNCHANGED <<doc, copy, jobVars>>

(* The job's cursor returns a document for which it queues an UpdateOne.   *)
JobScan(j, d) ==
  /\ job[j] = "scan"
  /\ docs[d] # Nil
  /\ d \notin seen[j]
  /\ seen' = [seen EXCEPT ![j] = @ \cup {d}]
  /\ UNCHANGED <<docs, reqVars, job>>

JobEndScan(j) ==
  /\ job[j] = "scan"
  /\ job' = [job EXCEPT ![j] = "write"]
  /\ UNCHANGED <<docs, reqVars, seen>>

(* Mutant of JobWrite: bulk writes give the document a new revision.       *)
JobWriteNewRev(j, d) ==
  /\ job[j] = "write"
  /\ d \in seen[j]
  /\ seen' = [seen EXCEPT ![j] = @ \ {d}]
  /\ docs' = IF docs[d] = Nil
             THEN docs
             ELSE [docs EXCEPT ![d] = [docs[d] EXCEPT !.marks = @ \cup {j},
                                                      !.rev = NextRev(@, Nil)]]
  /\ UNCHANGED <<reqVars, job>>

(* bulk_write reaches one UpdateOne; it does nothing if the document has   *)
(* gone, and it leaves _rev alone.                                         *)
JobWrite(j, d) ==
  /\ job[j] = "write"
  /\ d \in seen[j]
  /\ seen' = [seen EXCEPT ![j] = @ \ {d}]
  /\ docs' = IF docs[d] = Nil
             THEN docs
             ELSE [docs EXCEPT ![d] = [docs[d] EXCEPT !.marks = @ \cup {j}]]
  /\ UNCHANGED <<reqVars, job>>

Next ==
  \/ \E r \in Requests : Reject(r) \/ Replace(r) \/ Conflict(r)
  \/ \E r \in Requests, d \in Docs :
        Read(r, d) \/ NotFound(r, d) \/ Insert(r, d) \/ Duplicate(r, d) \/ Delete(r, d)
  \/ \E j \in Jobs : JobEndScan(j)
  \/ \E j \in Jobs, d \in Docs : JobScan(j, d) \/ JobWrite(j, d)

Spec == Init /\ [][Next]_vars

-----------------------------------------------------------------------------
(* Type invariant of the collection, the requests and the jobs.            *)
TypeOK ==
  /\ docs \in [Docs -> Document \cup {Nil}]
  /\ pc \in [Requests -> {"idle", "read", "ok", "failed", "conflict"}]
  /\ doc \in [Requests -> Docs \cup {Nil}]
  /\ copy \in [Requests -> Document \cup {Nil}]
  /\ \A r \in Requests : pc[r] = "read" => doc[r] \in Docs /\ copy[r] \in Document
  /\ job \in [Jobs -> {"scan", "write"}]
  /\ seen \in [Jobs -> SUBSET Docs]

(* A revision names one content: a request whose copy has the revision of  *)
(* the stored document has seen every API change the document carries.     *)
(* This is what the _rev filter of update_object rests on; it needs the    *)
(* uuid, since unconditional writes to legacy documents repeat numbers.    *)
RevisionNamesContent ==
  \A r \in Requests :
    /\ pc[r] = "read"
    /\ docs[doc[r]] # Nil
    /\ copy[r].rev # Nil
    /\ docs[doc[r]].rev = copy[r].rev
    => docs[doc[r]].edits = copy[r].edits

(* No step of a request or a job removes an acknowledged change from a     *)
(* document that has a revision, short of deleting the whole document: a   *)
(* PATCH that read before another PATCH committed cannot overwrite it.     *)
EditsKept(d) ==
  docs[d] # Nil /\ docs'[d] # Nil => docs[d].edits \subseteq docs'[d].edits

NoEditLost == [][\A d \in Docs \ Legacy : EditsKept(d)]_vars

(* A client is answered 409 only when another client has been answered     *)
(* first: since it read, the document was deleted or an acknowledged       *)
(* request put a change there.  Background jobs never make a request fail. *)
ConflictJustified(r) ==
  \/ docs[doc[r]] = Nil
  \/ \E q \in Requests \ {r} :
       pc[q] = "ok" /\ q \in docs[doc[r]].edits \ copy[r].edits

ConflictsJustified ==
  [][\A r \in Requests :
       pc[r] # "conflict" /\ pc'[r] = "conflict" => ConflictJustified(r)]_vars

(* The collection seen through its API changes alone behaves as if every   *)
(* request were a single atomic step (see AtomicDocuments).                *)
Contents(x) == IF x = Nil THEN Nil ELSE x.edits

Outcome(state) ==
  CASE state \in {"idle", "read"}       -> "pending"
    [] state = "ok"                     -> "ok"
    [] state \in {"failed", "conflict"} -> "failed"

Atomic == INSTANCE AtomicDocuments WITH
  contents <- [d \in Docs |-> Contents(docs[d])],
  outcome  <- [r \in Requests |-> Outcome(pc[r])]

ImplementsAtomic == Atomic!Spec
=============================================================================
